------------------------------ MODULE Sessions ------------------------------
(***************************************************************************)
(* What the daemon says of the Claude and Codex sessions on a desk.        *)
(*                                                                         *)
(* A tool runs a hook at each event of a session; the hook                 *)
(* (tools/overwatch-hook.sh) leaves small files: a slot with the last      *)
(* event written, a marker while a person is being asked, a tombstone once *)
(* the session has ended, one file for each running agent.  The daemon     *)
(* (providers/claude_state.py, codex_state.py, codex_cli.py) reads them    *)
(* every two seconds, asks the kernel whether the process of a slot is     *)
(* still there, unites Codex's slots with its own session logs, and        *)
(* removes what is too old.  Nothing locks any of it.                      *)
(*                                                                         *)
(* The two tools keep a directory each and are read one after the other.   *)
(* Ages stand for time stamps: one tick is more than a round of polls, so  *)
(* a daemon that is up polls between two ticks.  Bounds: ages saturate at  *)
(* Cap and AgentCap, each session has one agent, Faults things go wrong.   *)
(***************************************************************************)
EXTENDS Integers, FiniteSets

CONSTANTS
  Claude, Codex,   \* the sessions of the two tools
  Insides,         \* the desks to look at: which sessions run in a container
  Hour,            \* ABANDONED_AFTER_S
  AgentHour,       \* AGENT_ABANDONED_AFTER_S
  Fresh,           \* FRESH_SLOT_S
  Back,            \* how far a wrong clock is put back
  Acts,            \* bound: events of the sessions
  Faults           \* bound: kills, stops of the daemon, steps back

ASSUME DisjointTools == Claude \cap Codex = {}
ASSUME InsidesAreSessions == Insides \subseteq SUBSET (Claude \cup Codex)
ASSUME TimesInOrder ==
  /\ {Hour, AgentHour, Fresh, Back, Acts, Faults} \subseteq Nat
  /\ 0 < Fresh /\ Fresh < Hour /\ Hour < AgentHour

VARIABLES
  sess,      \* the session itself: what it is doing
  since,     \* how long ago it fired an event that its hook writes down
  works,     \* how long its agent has been at work, never short again after an hour of silence
  hooked,    \* does the tool run the hook for it
  inside,    \* the sessions whose process another pid namespace numbers
  reused,    \* its old pid names some other process of this host
  hooks,     \* the hook processes under way, with the step each is at
  slot, slotAge, slotMine, \* <sid>.state: event, age, and is the pid the session's
  marker,    \* age of <sid>.waiting
  tomb,      \* age of <sid>.ended
  agent,     \* age of <sid>/<agent>
  log, logAge, \* the newest turn event in the Codex session log
  up, phase, \* the daemon, and where in its round of polls it is
  trusted,   \* _pid_trusted
  seen, seenAge, seenLog, \* what the poll under way has read
  shown,     \* the state the last poll gave to each session
  crew,      \* the agents it counted
  acts, faults, \* events so far, and what has gone wrong
  stepped,   \* the clock has been put back
  met, armed, \* history: the daemon has been up since its last event; it has met a living pid
  robbed,    \* history: a sweep took files written after they were read
  calm       \* history: nothing moved since the poll began

Sids == Claude \cup Codex
Absent == -(Back + 1)           \* the age of a file that is not there
Past == Hour + 1                \* ages beyond the hour are not told apart,
Cap == Past + Back              \* nor those that stay so when the clock is put back
AgentCap == AgentHour + 1 + Back

tools == <<sess, since, works, hooked, inside>>
files == <<slot, slotAge, slotMine, marker, tomb, agent>>
logs == <<log, logAge>>
daemon == <<up, phase, trusted, seen, seenAge, seenLog, shown, crew>>
vars == <<tools, reused, hooks, files, logs, daemon, acts, faults, stepped, met, armed, robbed, calm>>

States == {"", "failed", "waiting", "idle", "running"}
RunningEvents == {"UserPromptSubmit", "PreToolUse", "PostToolUse"}
IdleEvents == {"Stop", "Interrupt"}
WaitingEvents == {"Notification", "PermissionRequest"}
AnswerEvents == {"UserPromptSubmit", "PostToolUse", "Interrupt", "Stop"}
SlotEvents == RunningEvents \cup IdleEvents \cup WaitingEvents \cup {"SessionStart", "StopFailure"}
Events == SlotEvents \cup {"SessionEnd", "SubagentStart", "SubagentStop"}

\* What the newest event of a session says of it (the tables derive_state uses).
Says(event) ==
  IF event \in IdleEvents THEN "idle"
  ELSE IF event = "StopFailure" THEN "failed"
  ELSE IF event \in WaitingEvents THEN "waiting"
  ELSE IF event \in RunningEvents THEN "running"
  ELSE ""

Live(s) == sess[s] \notin {"closed", "killed"}

Init ==
  /\ sess = [s \in Sids |-> "closed"]
  /\ since = [s \in Sids |-> Past]
  /\ works = [s \in Sids |-> Absent]
  /\ inside \in Insides
  /\ hooked \in {h \in [Sids -> BOOLEAN] : \A s \in Sids : h[s] \/ (s \in Codex /\ inside = {})}
  /\ reused = [s \in Sids |-> FALSE]
  /\ hooks = [s \in Sids |-> {}]
  /\ slot = [s \in Sids |-> ""]
  /\ slotAge = [s \in Sids |-> Absent]
  /\ slotMine = [s \in Sids |-> FALSE]
  /\ marker = [s \in Sids |-> Absent]
  /\ tomb = [s \in Sids |-> Absent]
  /\ agent = [s \in Sids |-> Absent]
  /\ log = [s \in Sids |-> ""]
  /\ logAge = [s \in Sids |-> Absent]
  /\ up = TRUE /\ phase = "rest"
  /\ trusted = TRUE
  /\ seen = [s \in Sids |-> ""]
  /\ seenAge = [s \in Sids |-> Absent]
  /\ seenLog = [s \in Sids |-> ""]
  /\ shown = [s \in Sids |-> ""]
  /\ crew = [s \in Sids |-> 0]
  /\ acts = 0 /\ faults = 0
  /\ stepped = FALSE
  /\ met = [s \in Sids |-> TRUE]
  /\ armed = FALSE
  /\ robbed = [s \in Sids |-> FALSE]
  /\ calm = FALSE

-----------------------------------------------------------------------------
(* The tools.  A tool waits for its hooks before it goes on; hooks that it  *)
(* starts together overlap.  A Codex session asks for one call at a time.  *)

NoHooks == \A s \in Sids : hooks[s] = {}
Acting == acts < Acts /\ acts' = acts + 1

\* The session goes on to state st and the hook runs for every event of es.
Moves(s, st, es) ==
  /\ NoHooks /\ Acting
  /\ sess' = [sess EXCEPT ![s] = st]
  /\ since' = [since EXCEPT ![s] = IF hooked[s] THEN 0 ELSE Past]
  /\ hooks' = [hooks EXCEPT ![s] = IF hooked[s] THEN {[event |-> e, step |-> 1] : e \in es} ELSE {}]
  /\ robbed' = [robbed EXCEPT ![s] = FALSE]
  /\ met' = [met EXCEPT ![s] = up]
  /\ calm' = FALSE
  /\ UNCHANGED <<hooked, inside, reused, files, daemon, faults, stepped, armed>>

\* A Codex session logs where its turns begin and how they end.
Logs(s, st) ==
  IF s \in Codex
    THEN log' = [log EXCEPT ![s] = st] /\ logAge' = [logAge EXCEPT ![s] = 0]
    ELSE UNCHANGED logs

\* A new session, or one that is resumed under its own id.
Open(s) ==
  /\ ~Live(s)
  /\ Moves(s, "open", {"SessionStart"})
  /\ UNCHANGED <<works, logs>>

Prompt(s) ==
  /\ sess[s] \in {"open", "yours", "failed"}
  /\ Moves(s, "working", {"UserPromptSubmit"})
  /\ Logs(s, "running")
  /\ UNCHANGED works

\* A tool call, or two at once, one ending as the other begins.
UseTool(s) ==
  /\ sess[s] = "working"
  /\ \E es \in {{"PreToolUse"}, {"PreToolUse", "PostToolUse"}} : Moves(s, "working", es)
  /\ UNCHANGED <<works, logs>>

\* A person is asked: Codex fires both events in the same second, Claude says
\* so in a notification.
Ask(s) ==
  /\ sess[s] = "working"
  /\ Moves(s, "asking", {"PreToolUse"} \cup
           IF s \in Codex THEN {"PermissionRequest"} ELSE {"Notification"})
  /\ UNCHANGED <<works, logs>>

Approve(s) ==
  /\ sess[s] = "asking"
  /\ Moves(s, "working", {"PostToolUse"})
  /\ UNCHANGED <<works, logs>>

\* Refused in Codex, the turn is over.
Refuse(s) ==
  /\ sess[s] = "asking" /\ s \in Codex /\ works[s] = Absent
  /\ Moves(s, "yours", {"Interrupt"})
  /\ Logs(s, "idle")
  /\ UNCHANGED works

Finish(s) ==
  /\ sess[s] = "working" /\ works[s] = Absent
  /\ Moves(s, "yours", {"Stop"})
  /\ Logs(s, "idle")
  /\ UNCHANGED works

Fail(s) ==
  /\ sess[s] = "working" /\ works[s] = Absent
  /\ Moves(s, "failed", IF s \in Claude THEN {"StopFailure"} ELSE {"Stop"})
  /\ Logs(s, "failed")
  /\ UNCHANGED works

Exit(s) ==
  /\ Live(s)
  /\ Moves(s, "closed", {"SessionEnd"})
  /\ works' = [works EXCEPT ![s] = Absent]
  /\ UNCHANGED logs

\* An agent is started by a tool call, whose own event has just been fired, and
\* stops; neither touches the slot.
AgentMoves(s) ==
  /\ sess[s] = "working" /\ NoHooks /\ hooked[s] /\ Acting
  /\ works[s] = Absent => since[s] = 0
  /\ works' = [works EXCEPT ![s] = IF @ = Absent THEN 0 ELSE Absent]
  /\ hooks' = [hooks EXCEPT ![s] =
                 {[event |-> IF works[s] = Absent THEN "SubagentStart" ELSE "SubagentStop", step |-> 1]}]
  /\ calm' = FALSE
  /\ UNCHANGED <<sess, since, hooked, inside, reused, files, logs, daemon, faults, stepped, met, armed, robbed>>

Faulty == faults < Faults /\ faults' = faults + 1

\* A closed terminal, a crash, a kill: no hook runs, those under way go on.
Killed(s) ==
  /\ Live(s) /\ Faulty
  /\ sess' = [sess EXCEPT ![s] = "killed"]
  /\ works' = [works EXCEPT ![s] = Absent]
  /\ slotMine' = [slotMine EXCEPT ![s] = FALSE]
  /\ calm' = FALSE
  /\ UNCHANGED <<since, hooked, inside, reused, hooks, slot, slotAge, marker, tomb, agent, logs,
                 daemon, acts, stepped, met, armed, robbed>>

\* The kernel gives the number in a slot to some other process.
PidReused(s) ==
  /\ slotAge[s] # Absent /\ ~slotMine[s] /\ ~reused[s]
  /\ reused' = [reused EXCEPT ![s] = TRUE]
  /\ calm' = FALSE
  /\ UNCHANGED <<tools, hooks, files, logs, daemon, acts, faults, stepped, met, armed, robbed>>

\* The owner installs the hooks; they run from the next event on.
HooksInstalled(s) ==
  /\ ~hooked[s] /\ Live(s) /\ sess[s] # "asking"
  /\ hooked' = [hooked EXCEPT ![s] = TRUE]
  /\ calm' = FALSE
  /\ UNCHANGED <<sess, since, works, inside, reused, hooks, files, logs, daemon, acts, faults, stepped, met, armed, robbed>>

-----------------------------------------------------------------------------
(* The hook: a few steps on files of their own, in no order between two hooks. *)

Ends(s, h) == [hooks EXCEPT ![s] = @ \ {h}]
GoesOn(s, h) == [hooks EXCEPT ![s] = (@ \ {h}) \cup {[h EXCEPT !.step = @ + 1]}]

\* What the event does to the marker.  PreToolUse leaves it alone: it is the
\* event that comes in the same second as the question.
ClearsToo(s, e) ==  \* mutant: any running event clears it
  IF e = "PermissionRequest" THEN 0
  ELSE IF e \in AnswerEvents \cup RunningEvents THEN Absent ELSE marker[s]
Marks(s, e) ==
  IF e = "PermissionRequest" THEN 0 ELSE IF e \in AnswerEvents THEN Absent ELSE marker[s]

\* A session that speaks again is not dead: its tombstone goes.
HookMarks(s, h) ==
  /\ h.event \in SlotEvents /\ h.step = 1
  /\ marker' = [marker EXCEPT ![s] = Marks(s, h.event)]
  /\ tomb' = [tomb EXCEPT ![s] = Absent]
  /\ hooks' = GoesOn(s, h)
  /\ UNCHANGED <<slot, slotAge, slotMine, agent, reused>>

\* mv -f: whichever hook gets here last has the slot.
HookWrites(s, h) ==
  /\ h.event \in SlotEvents /\ h.step = 2
  /\ slot' = [slot EXCEPT ![s] = Says(h.event)]
  /\ slotAge' = [slotAge EXCEPT ![s] = 0]
  /\ slotMine' = [slotMine EXCEPT ![s] = Live(s)]
  /\ reused' = [reused EXCEPT ![s] = FALSE]
  /\ hooks' = Ends(s, h)
  /\ UNCHANGED <<marker, tomb, agent>>

\* SessionEnd: the agents' directory, the slot and the marker, a tombstone.
HookRemoves(s, h) ==
  /\ h.event = "SessionEnd" /\ h.step = 1
  /\ agent' = [agent EXCEPT ![s] = Absent]
  /\ slot' = [slot EXCEPT ![s] = ""]
  /\ slotAge' = [slotAge EXCEPT ![s] = Absent]
  /\ slotMine' = [slotMine EXCEPT ![s] = FALSE]
  /\ marker' = [marker EXCEPT ![s] = Absent]
  /\ hooks' = GoesOn(s, h)
  /\ UNCHANGED <<tomb, reused>>

HookBuries(s, h) ==
  /\ h.event = "SessionEnd" /\ h.step = 2
  /\ tomb' = [tomb EXCEPT ![s] = 0]
  /\ hooks' = Ends(s, h)
  /\ UNCHANGED <<slot, slotAge, slotMine, marker, agent, reused>>

HookCounts(s, h) ==
  /\ h.event \in {"SubagentStart", "SubagentStop"}
  /\ agent' = [agent EXCEPT ![s] = IF h.event = "SubagentStart" THEN 0 ELSE Absent]
  /\ hooks' = Ends(s, h)
  /\ UNCHANGED <<slot, slotAge, slotMine, marker, tomb, reused>>

HookRuns(s) ==
  /\ \E h \in hooks[s] :
       \/ HookMarks(s, h) \/ HookWrites(s, h)
       \/ HookRemoves(s, h) \/ HookBuries(s, h) \/ HookCounts(s, h)
  /\ calm' = FALSE
  /\ UNCHANGED <<tools, logs, daemon, acts, faults, stepped, met, armed, robbed>>

-----------------------------------------------------------------------------
(* The daemon's round: Claude's directory, Codex's logs, Codex's directory. *)

\* os.kill(pid, 0), as the host's kernel answers it for the pid in the slot.
PidLives(s) == reused[s] \/ (slotMine[s] /\ Live(s) /\ s \notin inside)
HasSlot(s) == slotAge[s] # Absent

Doubted(s) == HasSlot(s) /\ ~PidLives(s) /\ slotAge[s] \in (-Fresh)..Fresh

\* Whether pids mean anything is settled once for all slots of a directory:
\* one that resolves is proof, a fresh slot whose pid is gone is doubt.
SettleForGood(d) == trusted /\ ~\E s \in d : Doubted(s)  \* mutant: once in doubt, always
Settle(d) ==
  \/ \E s \in d : HasSlot(s) /\ PidLives(s)
  \/ trusted /\ ~\E s \in d : Doubted(s)

\* A tombstone is kept for as long as a log could still claim the session.
Sweeps(age) == age > Hour
SweepsEarly(age) == age > Fresh  \* mutant
SweepsTomb(age) == age > Hour

\* What a Codex session log claims: its newest turn event, for an hour.
RolloutState(s) == IF logAge[s] # Absent /\ logAge[s] <= Hour THEN log[s] ELSE ""

\* The poll begins by reading every slot of the directory, for Codex after
\* the session logs.
LoadSlots(d, from, to) ==
  /\ up /\ phase = from
  /\ phase' = to
  /\ calm' = IF d = Claude THEN NoHooks ELSE calm
  /\ tomb' = [s \in Sids |-> IF s \in d /\ SweepsTomb(tomb[s]) THEN Absent ELSE tomb[s]]
  /\ trusted' = Settle(d)
  /\ armed' = (armed \/ \E s \in d : HasSlot(s) /\ PidLives(s))
  /\ seen' = [s \in Sids |-> IF s \in d THEN slot[s] ELSE seen[s]]
  /\ seenAge' = [s \in Sids |-> IF s \in d THEN slotAge[s] ELSE seenAge[s]]
  /\ seenLog' = [s \in Sids |-> IF s \in d \cap Codex THEN RolloutState(s) ELSE ""]
  /\ UNCHANGED <<tools, reused, hooks, slot, slotAge, slotMine, marker, agent, logs, up, shown, crew,
                 acts, faults, stepped, met, robbed>>

\* An event claims nothing once it is an hour old.
DeriveState(says, age) == IF age > Hour THEN "" ELSE says

\* The pid may end a session early, but not within seconds of its last event,
\* and never keep one.
BelievesAnyPid(s) == ~PidLives(s) /\ seenAge[s] > Fresh  \* mutant
PidSaysEnded(s) == trusted /\ ~PidLives(s) /\ seenAge[s] > Fresh

Marked(s) == marker[s] # Absent /\ marker[s] <= Hour

\* What the slot that was read, and the marker beside it, say of the session.
Judged(s) ==
  LET state == DeriveState(seen[s], seenAge[s]) IN
  IF seenAge[s] = Absent \/ PidSaysEnded(s) \/ state = "" THEN ""
  ELSE IF Marked(s) THEN "waiting" ELSE state

\* A session that makes no claim for an hour is collected, all of it.
Collected(s) == seenAge[s] # Absent /\ Judged(s) = "" /\ Sweeps(seenAge[s])

\* Codex's logs are united with its slots: a slot replaces what the log says,
\* a tombstone silences it.
Buried(s) == tomb[s] # Absent /\ ~SweepsTomb(tomb[s])
Merged(s) ==
  IF s \in Codex /\ Judged(s) = "" /\ ~Buried(s) THEN seenLog[s] ELSE Judged(s)

SweepsAgent(age) == age > AgentHour

Judge(d, from, to) ==
  /\ up /\ phase = from
  /\ phase' = to
  /\ shown' = [s \in Sids |-> IF s \in d THEN Merged(s) ELSE shown[s]]
  /\ crew' = [s \in Sids |-> IF s \notin d THEN crew[s]
                ELSE IF Judged(s) # "" /\ agent[s] # Absent /\ ~SweepsAgent(agent[s]) THEN 1 ELSE 0]
  /\ slot' = [s \in Sids |-> IF s \in d /\ Collected(s) THEN "" ELSE slot[s]]
  /\ slotAge' = [s \in Sids |-> IF s \in d /\ Collected(s) THEN Absent ELSE slotAge[s]]
  /\ slotMine' = [s \in Sids |-> slotMine[s] /\ ~(s \in d /\ Collected(s))]
  /\ marker' = [s \in Sids |-> IF s \in d /\ Collected(s) THEN Absent ELSE marker[s]]
  /\ agent' = [s \in Sids |-> IF s \in d /\ (Collected(s) \/ (Judged(s) # "" /\ SweepsAgent(agent[s])))
                                THEN Absent ELSE agent[s]]
  /\ works' = [s \in Sids |-> IF s \in d /\ Collected(s) /\ works[s] # Absent THEN AgentHour + 1 ELSE works[s]]
  /\ robbed' = [s \in Sids |-> robbed[s] \/ (s \in d /\ Collected(s) /\ (slotAge[s] # seenAge[s] \/ hooks[s] # {}))]
  /\ seen' = [s \in Sids |-> ""] /\ seenAge' = [s \in Sids |-> Absent]
  /\ seenLog' = [s \in Sids |-> ""]
  /\ UNCHANGED <<sess, since, hooked, inside, reused, hooks, tomb, logs, up, trusted, acts, faults, stepped, met, armed, calm>>

PollClaude == LoadSlots(Claude, "rest", "claude") \/ Judge(Claude, "claude", "claude_done")
PollCodex == LoadSlots(Codex, "claude_done", "codex") \/ Judge(Codex, "codex", "done")

\* Trust is a fact of the process: the next one begins by believing pids.
DaemonStops ==
  /\ up
  /\ Faulty
  /\ up' = FALSE /\ phase' = "rest" /\ calm' = FALSE
  /\ met' = [s \in Sids |-> FALSE]
  /\ trusted' = TRUE /\ armed' = FALSE
  /\ seen' = [s \in Sids |-> ""] /\ seenAge' = [s \in Sids |-> Absent]
  /\ seenLog' = [s \in Sids |-> ""]
  /\ shown' = [s \in Sids |-> ""] /\ crew' = [s \in Sids |-> 0]
  /\ UNCHANGED <<tools, reused, hooks, files, logs, acts, stepped, robbed>>

DaemonStarts ==
  /\ ~up
  /\ up' = TRUE
  /\ UNCHANGED <<tools, reused, hooks, files, logs, phase, trusted, armed, seen, seenAge, seenLog, shown, crew, acts, faults, stepped, met, robbed, calm>>

-----------------------------------------------------------------------------
(* The clock.                                                               *)

Aged(f, cap) == [s \in Sids |-> IF f[s] # Absent /\ f[s] < cap THEN f[s] + 1 ELSE f[s]]
BackAll(f) == [s \in Sids |-> IF f[s] = Absent THEN Absent ELSE f[s] - Back]

\* A poll takes no time to speak of, and one round has been made since the
\* last tick; a hook is done long before the next.
Tick ==
  /\ up => phase = "done"
  /\ NoHooks
  /\ phase' = "rest"
  /\ since' = Aged(since, Past) 
  /\ works' = [s \in Sids |-> IF works[s] # Absent /\ since[s] >= Hour THEN AgentHour + 1
                                ELSE Aged(works, AgentHour + 1)[s]]
  /\ slotAge' = Aged(slotAge, Cap) /\ marker' = Aged(marker, Cap) /\ tomb' = Aged(tomb, Cap)
  /\ logAge' = Aged(logAge, Cap) /\ agent' = Aged(agent, AgentCap)
  /\ calm' = FALSE
  /\ UNCHANGED <<sess, hooked, inside, reused, hooks, slot, slotMine, log, up, trusted, seen, seenAge, seenLog,
                 shown, crew, acts, faults, stepped, met, armed, robbed>>

\* The clock of the computer, which stamps every file, is put back.
StepBack ==
  /\ ~stepped /\ phase \in {"rest", "done"} /\ Faulty
  /\ stepped' = TRUE
  /\ slotAge' = BackAll(slotAge) /\ marker' = BackAll(marker) /\ tomb' = BackAll(tomb)
  /\ agent' = BackAll(agent) /\ logAge' = BackAll(logAge)
  /\ calm' = FALSE
  /\ UNCHANGED <<tools, reused, hooks, slot, slotMine, log, daemon, acts, met, armed, robbed>>

Next ==
  \/ \E s \in Sids :
       \/ Open(s) \/ Prompt(s) \/ UseTool(s) \/ Ask(s) \/ Approve(s) \/ Refuse(s)
       \/ Finish(s) \/ Fail(s) \/ Exit(s) \/ AgentMoves(s) \/ Killed(s)
       \/ PidReused(s) \/ HooksInstalled(s) \/ HookRuns(s)
  \/ PollClaude \/ PollCodex \/ DaemonStops \/ DaemonStarts \/ Tick \/ StepBack

Spec == Init /\ [][Next]_vars

-----------------------------------------------------------------------------
Ages == (-Back)..Cap \cup {Absent}
Hooks == [event : Events, step : 1..2]

TypeOK ==
  /\ sess \in [Sids -> {"closed", "open", "working", "asking", "yours", "failed", "killed"}]
  /\ since \in [Sids -> 0..Past]
  /\ works \in [Sids -> 0..(AgentHour + 1) \cup {Absent}]
  /\ hooked \in [Sids -> BOOLEAN]
  /\ inside \in SUBSET Sids
  /\ reused \in [Sids -> BOOLEAN]
  /\ hooks \in [Sids -> SUBSET Hooks]
  /\ slot \in [Sids -> States]
  /\ slotAge \in [Sids -> Ages]
  /\ slotMine \in [Sids -> BOOLEAN]
  /\ marker \in [Sids -> Ages]
  /\ tomb \in [Sids -> Ages]
  /\ agent \in [Sids -> (-Back)..AgentCap \cup {Absent}]
  /\ log \in [Sids -> States]
  /\ logAge \in [Sids -> Ages]
  /\ up \in BOOLEAN
  /\ phase \in {"rest", "claude", "claude_done", "codex", "done"}
  /\ trusted \in BOOLEAN
  /\ seen \in [Sids -> States]
  /\ seenAge \in [Sids -> Ages]
  /\ seenLog \in [Sids -> States]
  /\ shown \in [Sids -> States]
  /\ crew \in [Sids -> 0..1]
  /\ acts \in 0..Acts /\ faults \in 0..Faults
  /\ stepped \in BOOLEAN
  /\ met \in [Sids -> BOOLEAN]
  /\ armed \in BOOLEAN
  /\ robbed \in [Sids -> BOOLEAN]
  /\ calm \in BOOLEAN

\* A round of polls has ended in which nothing moved.
Polled == up /\ phase = "done" /\ calm

\* The kernel cannot be wrong about s: its pid is the host's, or pids of other
\* namespaces have been met by this daemon and none of the host's has.
PidIsFair(s) == s \notin inside \/ (~armed /\ met[s])

\* No session that is alive, and said so within the hour, is missing from the
\* panel or in another state than its own, whatever the pids, the clock and the
\* sweeps do (claude_state.py: "a false DEATH would blank a working session off
\* the panel"); excused are the desks whose pids cannot be told apart.
AliveIsShown ==
  Polled => \A s \in Sids :
    (since[s] <= Hour /\ ~robbed[s] /\ PidIsFair(s)) =>
      /\ sess[s] = "working" => shown[s] = "running"
      /\ sess[s] = "yours" => shown[s] = "idle"
      /\ sess[s] = "failed" /\ s \in Claude => shown[s] = "failed"

\* While Codex asks a person the panel says so, although the hook of the tool
\* call it asks about may write the slot last; and not after the answer.
AskingIsShown ==
  Polled => \A s \in Codex :
    (since[s] <= Hour /\ ~robbed[s] /\ PidIsFair(s)) =>
      (Live(s) => (sess[s] = "asking" <=> shown[s] = "waiting"))

\* A session whose hook saw it end is not counted again, by its log neither,
\* until it speaks; unless the clock was put back between the two stamps.
BuriedStaysBuried ==
  Polled => \A s \in Sids :
    (sess[s] = "closed" /\ hooked[s] /\ ~stepped) => shown[s] = ""

\* Some other session's living pid has been met since this one's went.
Witnessed(s) ==
  \E r \in Sids \ {s} : Live(r) /\ r \notin inside /\ slotMine[r] /\ slotAge[r] > 1 /\ met[r]
IsDropped(s) ==
  (sess[s] = "killed" /\ ~reused[s] /\ slotAge[s] > Fresh /\ Witnessed(s)) => shown[s] = ""

\* Without a SessionEnd the kernel's word ends a Claude session: once a living
\* pid of the host has been met, in whichever directory and however late,
\* nothing is shown of a killed session beyond the few seconds in which its own
\* pid is not believed; but while another session of Claude is as fresh and its
\* pid as gone, no pid of that directory is believed.
KilledIsDropped ==
  Polled => \A s \in Claude : IsDropped(s) \/ \E q \in Claude : Doubted(q)

\* An agent at work is counted for hours, although its file is not touched again
\* and sessions are collected after one; unless its session was silent for an
\* hour, when its agents are collected with it.
AgentsAreCounted ==
  Polled => \A s \in Sids :
    (works[s] \in 0..AgentHour /\ since[s] <= Hour /\ ~robbed[s] /\ PidIsFair(s)) => crew[s] = 1
=============================================================================
