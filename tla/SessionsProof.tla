--------------------------- MODULE SessionsProof ---------------------------
(***************************************************************************)
(* What holds of the panel's account of the sessions for any number of     *)
(* sessions of the two tools, any of them in containers, and any times:    *)
(* types, and the five properties of Sessions.                             *)
(*                                                                         *)
(* The properties are about the end of a round of polls, when the daemon   *)
(* has long read what it shows.  The invariant therefore says what the     *)
(* files tell of a session at every moment (Session), what the daemon may  *)
(* think of pids (Believed, Trusting), and what a round in which nothing   *)
(* moved has read and shown so far (Calm).                                 *)
(***************************************************************************)
EXTENDS Sessions, TLAPS

-----------------------------------------------------------------------------
(* What the files say of one session.                                        *)

\* The hooks under way that will write the slot.
SlotHooks(s) == {h \in hooks[s] : h.event \in SlotEvents}

\* A hook for one of the events es has yet to take its first step.
Pending(s, es) == \E h \in hooks[s] : h.event \in es /\ h.step = 1

\* The events whose hooks may be under way while the session is at st.
EventsAt(s, st) ==
  CASE st = "closed" -> {"SessionEnd"}
    [] st = "open" -> {"SessionStart"}
    [] st = "working" -> RunningEvents \cup {"SubagentStart", "SubagentStop"}
    [] st = "asking" -> {"PreToolUse"} \cup IF s \in Codex THEN {"PermissionRequest"} ELSE {"Notification"}
    [] st = "yours" -> IdleEvents
    [] st = "failed" -> IF s \in Claude THEN {"StopFailure"} ELSE {"Stop"}
    [] OTHER -> Events

\* A hook under way is for what the session has just done.
HooksFit(s) ==
  \A h \in hooks[s] :
    /\ h.event \in EventsAt(s, sess[s])
    /\ h.event = "PermissionRequest" => s \in Codex
    /\ h.event = "SubagentStop" => works[s] = Absent

\* A session without hooks has left no file but its log.
Unhooked(s) ==
  ~hooked[s] =>
    /\ hooks[s] = {} /\ slotAge[s] = Absent /\ marker[s] = Absent /\ agent[s] = Absent
    /\ works[s] \notin 0..AgentHour /\ since[s] = Past

\* What the slot may say when every hook of the last event is done.
Telling(s) == {Says(e) : e \in EventsAt(s, sess[s]) \cap SlotEvents}

\* The slot of a session that spoke within the hour says what it does, is no
\* older than its last event and holds its pid, once its hooks have written it.
SlotTold(s) ==
  (Live(s) /\ since[s] <= Hour /\ ~robbed[s] /\ SlotHooks(s) = {}) =>
    /\ slotAge[s] # Absent /\ slotAge[s] <= since[s] /\ slotMine[s]
    /\ slot[s] \in Telling(s)

\* While Codex asks, the marker is there, or the hook that leaves it is under
\* way; nothing that is under way will take it.
QuestionMarked(s) ==
  (s \in Codex /\ sess[s] = "asking" /\ since[s] <= Hour /\ ~robbed[s]) =>
    \/ Pending(s, {"PermissionRequest"})
    \/ marker[s] # Absent /\ marker[s] <= since[s]

\* After the answer the marker is gone, or the hook that takes it is under way.
AnswerClears(s) ==
  /\ sess[s] \in {"working", "yours", "failed"} => marker[s] = Absent \/ Pending(s, AnswerEvents)
  /\ s \in Claude => marker[s] = Absent

\* An ended session has no slot, and a log that could still claim it is covered
\* by a tombstone that is no older.
EndedGone(s) ==
  (sess[s] = "closed" /\ hooked[s]) =>
    /\ Pending(s, {"SessionEnd"}) \/ slotAge[s] = Absent
    /\ hooks[s] = {} /\ ~stepped =>
         \/ logAge[s] = Absent \/ logAge[s] > Hour
         \/ tomb[s] # Absent /\ tomb[s] <= logAge[s]

\* The file of an agent at work is there and no older than its work, or its hook
\* is under way; agents work only in sessions that do.
AgentKept(s) ==
  works[s] \in 0..AgentHour =>
    /\ sess[s] \in {"working", "asking"} /\ hooked[s]
    /\ Pending(s, {"SubagentStart"}) \/ (agent[s] # Absent /\ agent[s] <= works[s])

Session(s) ==
  /\ HooksFit(s) /\ Unhooked(s) /\ SlotTold(s) /\ QuestionMarked(s) /\ AnswerClears(s)
  /\ EndedGone(s) /\ AgentKept(s)

-----------------------------------------------------------------------------
(* What the daemon may think of pids.                                        *)

\* The round under way has read the slot's directory.
Loaded(s) == IF s \in Claude THEN phase # "rest" ELSE phase \in {"codex", "done"}

\* While no pid of the host has been met, pids are still believed only if every
\* session in a container has spoken since its directory was last read: its slot
\* would have put them in doubt.
Believed(s) ==
  (s \in inside /\ ~armed /\ met[s] /\ Live(s) /\ SlotHooks(s) = {} /\ HasSlot(s) /\ trusted) =>
    slotAge[s] <= IF Loaded(s) THEN 0 ELSE 1

\* A session of the host whose slot holds its pid proves that pids mean something
\* whenever its directory is read, so they are believed until a fresh slot of
\* Claude's with a pid that is gone is read, and again from Codex's turn on.
Witness(r) == r \notin inside /\ Live(r) /\ slotMine[r] /\ met[r] /\ SlotHooks(r) = {} /\ HasSlot(r)
Trusting ==
  \A r \in Sids : Witness(r) =>
    /\ r \in Codex /\ phase = "rest" => trusted \/ slotAge[r] <= 1
    /\ r \in Codex /\ phase \in {"codex", "done"} => trusted \/ slotAge[r] <= 0
    /\ phase = "claude" /\ calm => trusted \/ slotAge[r] <= 1 \/ \E q \in Claude : Doubted(q)

\* A daemon that is not there remembers nothing.
DownIsReset == ~up => phase = "rest" /\ trusted /\ ~armed /\ \A s \in Sids : ~met[s]

\* Until the clock is put back no stamp lies in the future.
NotBack == ~stepped =>
  \A s \in Sids : \A a \in {slotAge[s], marker[s], tomb[s], agent[s], logAge[s]} : a = Absent \/ a >= 0

\* No log says that a person is asked.
LogTells == \A s \in Sids : log[s] # "waiting"

-----------------------------------------------------------------------------
(* What a round in which nothing moves has read and shown.                   *)

\* What is shown of session s is right: the five properties, of one session.
Right(s) ==
  /\ (since[s] <= Hour /\ ~robbed[s] /\ PidIsFair(s)) =>
       /\ sess[s] = "working" => shown[s] = "running"
       /\ sess[s] = "yours" => shown[s] = "idle"
       /\ sess[s] = "failed" /\ s \in Claude => shown[s] = "failed"
       /\ s \in Codex /\ Live(s) => (sess[s] = "asking" <=> shown[s] = "waiting")
       /\ works[s] \in 0..AgentHour => crew[s] = 1
  /\ sess[s] = "closed" /\ hooked[s] /\ ~stepped => shown[s] = ""
  /\ s \in Claude => IsDropped(s) \/ \E q \in Claude : Doubted(q)

\* As far as the round has come: read what is there, shown what is right.
Calm == calm =>
  /\ NoHooks
  /\ phase = "claude" => \A s \in Claude : seen[s] = slot[s] /\ seenAge[s] = slotAge[s]
  /\ phase = "codex" => \A s \in Codex : seen[s] = slot[s] /\ seenAge[s] = slotAge[s] /\ seenLog[s] = RolloutState(s)
  /\ phase \in {"claude_done", "codex", "done"} => \A s \in Claude : Right(s)
  /\ phase = "done" => \A s \in Codex : Right(s)

IInv ==
  /\ TypeOK /\ NotBack /\ LogTells /\ DownIsReset
  /\ \A s \in Sids : Session(s)
  /\ \A s \in Sids : Believed(s)
  /\ Trusting /\ Calm

-----------------------------------------------------------------------------
(* The values of the variables. *)

LEMMA Bounds ==
  /\ Hour \in Nat /\ AgentHour \in Nat /\ Fresh \in Nat /\ Back \in Nat /\ Acts \in Nat /\ Faults \in Nat
  /\ 0 < Fresh /\ Fresh < Hour /\ Hour < AgentHour
BY TimesInOrder

\* Absent is below every age, also after a step back.
LEMMA Stamps ==
  /\ Absent \in Int /\ Absent < 0 - Back /\ Past = Hour + 1 /\ Cap = Hour + 1 + Back /\ AgentCap = AgentHour + 1 + Back
  /\ Ages \subseteq Int /\ Absent \in Ages /\ 0 \in Ages
  /\ \A a \in Ages : a = Absent \/ (a >= 0 - Back /\ a <= Cap)
  /\ \A a \in Int : (a >= 0 - Back /\ a <= Cap) => a \in Ages
BY Bounds DEF Absent, Past, Cap, AgentCap, Ages

\* A tick adds at most one to an age and leaves an absent file absent.
LEMMA AgedType ==
  ASSUME NEW f, f \in [Sids -> Ages]
  PROVE  /\ Aged(f, Cap) \in [Sids -> Ages]
         /\ \A s \in Sids : f[s] = Absent => Aged(f, Cap)[s] = Absent
         /\ \A s \in Sids : f[s] # Absent =>
              Aged(f, Cap)[s] # Absent /\ Aged(f, Cap)[s] >= f[s] /\ Aged(f, Cap)[s] <= f[s] + 1
         /\ \A s \in Sids : f[s] # Absent /\ f[s] < Cap => Aged(f, Cap)[s] = f[s] + 1
<1>1. ASSUME NEW s \in Sids
      PROVE  /\ Aged(f, Cap)[s] = IF f[s] # Absent /\ f[s] < Cap THEN f[s] + 1 ELSE f[s]
             /\ f[s] \in Ages /\ f[s] \in Int
  BY Stamps DEF Aged
<1>2. ASSUME NEW s \in Sids PROVE Aged(f, Cap)[s] \in Ages
  BY <1>1, Stamps, Bounds
<1>3. Aged(f, Cap) = [s \in Sids |-> Aged(f, Cap)[s]]
  BY DEF Aged
<1> QED BY <1>1, <1>2, <1>3, Stamps, Bounds

\* A clock put back once takes from every age and makes no file absent.
LEMMA BackType ==
  ASSUME NEW f, f \in [Sids -> Ages], \A s \in Sids : f[s] = Absent \/ f[s] >= 0
  PROVE  /\ BackAll(f) \in [Sids -> Ages]
         /\ \A s \in Sids : f[s] = Absent <=> BackAll(f)[s] = Absent
         /\ \A s \in Sids : f[s] # Absent => BackAll(f)[s] <= f[s]
<1>1. ASSUME NEW s \in Sids
      PROVE  /\ BackAll(f)[s] = IF f[s] = Absent THEN Absent ELSE f[s] - Back
             /\ f[s] \in Ages /\ f[s] \in Int
  BY Stamps DEF BackAll
<1>2. ASSUME NEW s \in Sids PROVE BackAll(f)[s] \in Ages
  BY <1>1, Stamps, Bounds
<1>3. BackAll(f) = [s \in Sids |-> BackAll(f)[s]]
  BY DEF BackAll
<1> QED BY <1>1, <1>2, <1>3, Stamps, Bounds

LEMMA SaysType == \A e : Says(e) \in States
BY DEF Says, States

\* What an event of a session may set.
LEMMA MovesType ==
  ASSUME TypeOK, NEW s \in Sids, NEW st \in {"closed", "open", "working", "asking", "yours", "failed"},
         NEW es \in SUBSET Events, Moves(s, st, es)
  PROVE  /\ sess' \in [Sids -> {"closed", "open", "working", "asking", "yours", "failed", "killed"}]
         /\ since' \in [Sids -> 0..Past]
         /\ hooks' \in [Sids -> SUBSET Hooks]
         /\ robbed' \in [Sids -> BOOLEAN] /\ met' \in [Sids -> BOOLEAN]
         /\ acts' \in 0..Acts /\ calm' \in BOOLEAN
         /\ UNCHANGED <<hooked, inside, reused, files, daemon, faults, stepped, armed>>
<1>1. sess' \in [Sids -> {"closed", "open", "working", "asking", "yours", "failed", "killed"}]
  BY DEF Moves, TypeOK
<1>2. since' \in [Sids -> 0..Past]
  BY Bounds DEF Moves, TypeOK, Past
<1>3. hooks' \in [Sids -> SUBSET Hooks]
  <2>1. {[event |-> e, step |-> 1] : e \in es} \in SUBSET Hooks
    BY DEF Hooks
  <2> QED BY <2>1 DEF Moves, TypeOK
<1>4. robbed' \in [Sids -> BOOLEAN] /\ met' \in [Sids -> BOOLEAN]
  BY DEF Moves, TypeOK
<1>5. acts' \in 0..Acts
  BY Bounds DEF Moves, TypeOK, Acting
<1>6. calm' \in BOOLEAN
  BY DEF Moves
<1> QED BY <1>1, <1>2, <1>3, <1>4, <1>5, <1>6 DEF Moves

\* An event of session s: what the nine moves of a session have in common.
Event(s, st, es) ==
  /\ Moves(s, st, es)
  /\ es \in SUBSET EventsAt(s, st) /\ es \in SUBSET Events /\ "SubagentStop" \notin es
  /\ \A e \in es : e = "PermissionRequest" => s \in Codex
  /\ st # "closed" => es \cap SlotEvents # {}
  /\ st = "asking" /\ s \in Codex => "PermissionRequest" \in es
  /\ st \in {"working", "yours", "failed"} =>
       es \cap AnswerEvents # {} \/ s \in Claude \/ (sess[s] = "working" /\ st = "working")
  /\ st = "closed" => "SessionEnd" \in es
  /\ IF st = "closed" THEN works' = [works EXCEPT ![s] = Absent]
     ELSE /\ works' = works
          /\ st \notin {"working", "asking"} => works[s] = Absent \/ ~Live(s)
  /\ \/ UNCHANGED logs
     \/ /\ s \in Codex
        /\ logAge' = [logAge EXCEPT ![s] = 0]
        /\ \E l \in States \ {"waiting"} : log' = [log EXCEPT ![s] = l]

EventStates == {"closed", "open", "working", "asking", "yours", "failed"}

\* Which events write the slot.
LEMMA EventNames ==
  /\ RunningEvents \subseteq SlotEvents /\ IdleEvents \subseteq SlotEvents /\ WaitingEvents \subseteq SlotEvents
  /\ SlotEvents \subseteq Events
  /\ {"UserPromptSubmit", "PreToolUse", "PostToolUse"} \subseteq SlotEvents
  /\ {"Stop", "Interrupt", "Notification", "PermissionRequest", "SessionStart", "StopFailure"} \subseteq SlotEvents
  /\ {"SessionEnd", "SubagentStart", "SubagentStop"} \cap SlotEvents = {}
  /\ {"SessionEnd", "SubagentStart", "SubagentStop"} \subseteq Events
  /\ AnswerEvents \subseteq SlotEvents
BY DEF RunningEvents, IdleEvents, WaitingEvents, SlotEvents, Events, AnswerEvents

\* A log is left alone, or says something other than that a person is asked.
LEMMA LogsIs ==
  ASSUME NEW s \in Sids, NEW st \in States \ {"waiting"}, Logs(s, st)
  PROVE  \/ UNCHANGED logs
         \/ /\ s \in Codex
            /\ logAge' = [logAge EXCEPT ![s] = 0]
            /\ \E l \in States \ {"waiting"} : log' = [log EXCEPT ![s] = l]
BY DEF Logs

LEMMA OpenIs ==
  ASSUME NEW s \in Sids, Open(s)
  PROVE  Event(s, "open", {"SessionStart"})
BY EventNames DEF Open, Event, EventsAt, Live, AnswerEvents, RunningEvents, IdleEvents

LEMMA PromptIs ==
  ASSUME NEW s \in Sids, Prompt(s)
  PROVE  Event(s, "working", {"UserPromptSubmit"})
<1>1. Logs(s, "running")
  BY DEF Prompt
<1>2. "running" \in States \ {"waiting"}
  BY DEF States
<1> QED BY <1>1, <1>2, LogsIs, EventNames DEF Prompt, Event, EventsAt, Live, AnswerEvents, RunningEvents, IdleEvents
LEMMA ApproveIs ==
  ASSUME NEW s \in Sids, Approve(s)
  PROVE  Event(s, "working", {"PostToolUse"})
BY EventNames DEF Approve, Event, EventsAt, Live, AnswerEvents, RunningEvents, IdleEvents

LEMMA RefuseIs ==
  ASSUME NEW s \in Sids, Refuse(s)
  PROVE  Event(s, "yours", {"Interrupt"})
<1>1. Logs(s, "idle")
  BY DEF Refuse
<1>2. "idle" \in States \ {"waiting"}
  BY DEF States
<1> QED BY <1>1, <1>2, LogsIs, EventNames DEF Refuse, Event, EventsAt, Live, AnswerEvents, RunningEvents, IdleEvents
LEMMA FinishIs ==
  ASSUME NEW s \in Sids, Finish(s)
  PROVE  Event(s, "yours", {"Stop"})
<1>1. Logs(s, "idle")
  BY DEF Finish
<1>2. "idle" \in States \ {"waiting"}
  BY DEF States
<1> QED BY <1>1, <1>2, LogsIs, EventNames DEF Finish, Event, EventsAt, Live, AnswerEvents, RunningEvents, IdleEvents
LEMMA ExitIs ==
  ASSUME NEW s \in Sids, Exit(s)
  PROVE  Event(s, "closed", {"SessionEnd"})
BY EventNames DEF Exit, Event, EventsAt, Live, AnswerEvents, RunningEvents, IdleEvents

LEMMA AskIs ==
  ASSUME NEW s \in Sids, Ask(s)
  PROVE  Event(s, "asking", ({"PreToolUse"} \cup IF s \in Codex THEN {"PermissionRequest"} ELSE {"Notification"}))
BY EventNames DEF Ask, Event, EventsAt, Live, AnswerEvents, RunningEvents, IdleEvents

LEMMA FailIs ==
  ASSUME NEW s \in Sids, Fail(s)
  PROVE  Event(s, "failed", (IF s \in Claude THEN {"StopFailure"} ELSE {"Stop"}))
<1>1. Logs(s, "failed")
  BY DEF Fail
<1>2. "failed" \in States \ {"waiting"}
  BY DEF States
<1> QED BY <1>1, <1>2, LogsIs, EventNames DEF Fail, Event, EventsAt, Live, AnswerEvents, RunningEvents, IdleEvents
\* A tool call is an event, also when two overlap.
LEMMA UseToolIs ==
  ASSUME NEW s \in Sids, UseTool(s)
  PROVE  \E es \in {{"PreToolUse"}, {"PreToolUse", "PostToolUse"}} : Event(s, "working", es)
<1>1. PICK es \in {{"PreToolUse"}, {"PreToolUse", "PostToolUse"}} : Moves(s, "working", es)
  BY DEF UseTool
<1>2. Event(s, "working", es)
  BY <1>1, EventNames DEF UseTool, Event, EventsAt, AnswerEvents, RunningEvents
<1> QED BY <1>2

Turn(s) ==
  \/ Open(s) \/ Prompt(s) \/ UseTool(s) \/ Ask(s) \/ Approve(s)
  \/ Refuse(s) \/ Finish(s) \/ Fail(s) \/ Exit(s)

\* Every move of a session is an event.
LEMMA TurnIs ==
  ASSUME NEW s \in Sids, Turn(s)
  PROVE  \E st \in EventStates : \E es \in SUBSET Events : Event(s, st, es)
<1>1. ASSUME NEW st \in EventStates, NEW es, Event(s, st, es)
      PROVE  \E st1 \in EventStates : \E es1 \in SUBSET Events : Event(s, st1, es1)
  BY <1>1 DEF Event
<1>2. {"open", "working", "yours", "closed", "asking", "failed"} \subseteq EventStates
  BY DEF EventStates
<1>3. CASE Open(s) BY <1>1, <1>2, <1>3, OpenIs
<1>4. CASE Prompt(s) BY <1>1, <1>2, <1>4, PromptIs
<1>5. CASE UseTool(s) BY <1>1, <1>2, <1>5, UseToolIs
<1>6. CASE Ask(s) BY <1>1, <1>2, <1>6, AskIs
<1>7. CASE Approve(s) BY <1>1, <1>2, <1>7, ApproveIs
<1>8. CASE Refuse(s) BY <1>1, <1>2, <1>8, RefuseIs
<1>9. CASE Finish(s) BY <1>1, <1>2, <1>9, FinishIs
<1>10. CASE Fail(s) BY <1>1, <1>2, <1>10, FailIs
<1>11. CASE Exit(s) BY <1>1, <1>2, <1>11, ExitIs
<1> QED BY <1>3, <1>4, <1>5, <1>6, <1>7, <1>8, <1>9, <1>10, <1>11 DEF Turn

-----------------------------------------------------------------------------
(* The values after each step. *)

\* The part of the state that no event, hook or fault of a session touches.
DaemonType ==
  /\ up \in BOOLEAN
  /\ phase \in {"rest", "claude", "claude_done", "codex", "done"}
  /\ trusted \in BOOLEAN
  /\ seen \in [Sids -> States]
  /\ seenAge \in [Sids -> Ages]
  /\ seenLog \in [Sids -> States]
  /\ shown \in [Sids -> States]
  /\ crew \in [Sids -> 0..1]

FilesType ==
  /\ slot \in [Sids -> States]
  /\ slotAge \in [Sids -> Ages]
  /\ slotMine \in [Sids -> BOOLEAN]
  /\ marker \in [Sids -> Ages]
  /\ tomb \in [Sids -> Ages]
  /\ agent \in [Sids -> (-Back)..AgentCap \cup {Absent}]

ToolsType ==
  /\ sess \in [Sids -> {"closed", "open", "working", "asking", "yours", "failed", "killed"}]
  /\ since \in [Sids -> 0..Past]
  /\ works \in [Sids -> 0..(AgentHour + 1) \cup {Absent}]
  /\ hooked \in [Sids -> BOOLEAN]
  /\ inside \in SUBSET Sids

LogsType == log \in [Sids -> States] /\ logAge \in [Sids -> Ages]

OtherType ==
  /\ reused \in [Sids -> BOOLEAN]
  /\ hooks \in [Sids -> SUBSET Hooks]
  /\ acts \in 0..Acts /\ faults \in 0..Faults
  /\ stepped \in BOOLEAN
  /\ met \in [Sids -> BOOLEAN]
  /\ armed \in BOOLEAN
  /\ robbed \in [Sids -> BOOLEAN]
  /\ calm \in BOOLEAN

LEMMA TypeParts == TypeOK <=> DaemonType /\ FilesType /\ ToolsType /\ LogsType /\ OtherType
BY DEF TypeOK, DaemonType, FilesType, ToolsType, LogsType, OtherType

LEMMA TypePartsNext == TypeOK' <=> DaemonType' /\ FilesType' /\ ToolsType' /\ LogsType' /\ OtherType'
BY DEF TypeOK, DaemonType, FilesType, ToolsType, LogsType, OtherType

LEMMA DaemonTypeKept == DaemonType /\ UNCHANGED daemon => DaemonType'
BY DEF DaemonType, daemon

LEMMA FilesTypeKept == FilesType /\ UNCHANGED files => FilesType'
BY DEF FilesType, files

LEMMA ToolsTypeKept == ToolsType /\ UNCHANGED tools => ToolsType'
BY DEF ToolsType, tools

LEMMA LogsTypeKept == LogsType /\ UNCHANGED logs => LogsType'
BY DEF LogsType, logs

\* Types after an event of a session.
LEMMA EventType ==
  ASSUME TypeOK, NotBack, LogTells, DownIsReset,
         NEW s \in Sids, NEW st \in EventStates, NEW es \in SUBSET Events, Event(s, st, es)
  PROVE  TypeOK' /\ NotBack' /\ LogTells' /\ DownIsReset'
<1>1. Moves(s, st, es) /\ st \in {"closed", "open", "working", "asking", "yours", "failed"}
  BY DEF Event, EventStates
<1>2. /\ sess' \in [Sids -> {"closed", "open", "working", "asking", "yours", "failed", "killed"}]
      /\ since' \in [Sids -> 0..Past]
      /\ hooks' \in [Sids -> SUBSET Hooks]
      /\ robbed' \in [Sids -> BOOLEAN] /\ met' \in [Sids -> BOOLEAN]
      /\ acts' \in 0..Acts /\ calm' \in BOOLEAN
      /\ UNCHANGED <<hooked, inside, reused, files, daemon, faults, stepped, armed>>
  BY <1>1, MovesType
<1>3. works' \in [Sids -> 0..(AgentHour + 1) \cup {Absent}]
  BY DEF Event, TypeOK
<1>4. log' \in [Sids -> States]
  BY DEF Event, TypeOK, logs
<1>5. logAge' \in [Sids -> Ages] /\ \A t \in Sids : logAge'[t] = logAge[t] \/ logAge'[t] = 0
  BY Stamps DEF Event, TypeOK, logs
<1>6. LogTells'
  BY DEF Event, LogTells, TypeOK, logs
<1>7. ToolsType'
  BY <1>2, <1>3, TypeParts DEF ToolsType
<1>8. LogsType' /\ OtherType'
  BY <1>2, <1>4, <1>5, TypeParts DEF LogsType, OtherType
<1>9. DaemonType' /\ FilesType'
  BY <1>2, TypeParts, DaemonTypeKept, FilesTypeKept
<1>10. NotBack'
  <2> SUFFICES ASSUME ~stepped, NEW t \in Sids
               PROVE  \A a \in {slotAge'[t], marker'[t], tomb'[t], agent'[t], logAge'[t]} : a = Absent \/ a >= 0
    BY <1>2 DEF NotBack
  <2>1. slotAge' = slotAge /\ marker' = marker /\ tomb' = tomb /\ agent' = agent
    BY <1>2 DEF files
  <2>2. logAge'[t] = Absent \/ logAge'[t] >= 0
    BY <1>5 DEF NotBack
  <2> QED BY <2>1, <2>2 DEF NotBack
<1>11. DownIsReset'
  <2>1. up' = up /\ phase' = phase /\ trusted' = trusted /\ armed' = armed
    BY <1>2 DEF daemon
  <2>2. \A t \in Sids : met'[t] = met[t] \/ met'[t] = up
    BY <1>1 DEF Moves, TypeOK
  <2> QED BY <2>1, <2>2 DEF DownIsReset
<1> QED BY <1>6, <1>7, <1>8, <1>9, <1>10, <1>11, TypePartsNext

\* Types after an agent, a kill, a reused pid or an installation.
LEMMA FaultType ==
  ASSUME TypeOK, NotBack, LogTells, DownIsReset, NEW s \in Sids,
         AgentMoves(s) \/ Killed(s) \/ PidReused(s) \/ HooksInstalled(s)
  PROVE  TypeOK' /\ NotBack' /\ LogTells' /\ DownIsReset'
<1>1. /\ UNCHANGED <<inside, slot, slotAge, marker, tomb, agent, daemon, logs, stepped, met, armed, robbed>>
      /\ calm' \in BOOLEAN
  BY DEF AgentMoves, Killed, PidReused, HooksInstalled, tools, files
<1>2. ToolsType'
  <2>1. CASE AgentMoves(s)
    BY <2>1, Bounds DEF AgentMoves, ToolsType, TypeOK
  <2>2. CASE Killed(s)
    BY <2>2 DEF Killed, ToolsType, TypeOK
  <2>3. CASE PidReused(s)
    BY <2>3 DEF PidReused, ToolsType, TypeOK, tools
  <2>4. CASE HooksInstalled(s)
    BY <2>4 DEF HooksInstalled, ToolsType, TypeOK
  <2> QED BY <2>1, <2>2, <2>3, <2>4
<1>3. slotMine' \in [Sids -> BOOLEAN] /\ reused' \in [Sids -> BOOLEAN]
  BY DEF AgentMoves, Killed, PidReused, HooksInstalled, TypeOK, files
<1>4. hooks' \in [Sids -> SUBSET Hooks]
  <2>1. {[event |-> IF works[s] = Absent THEN "SubagentStart" ELSE "SubagentStop", step |-> 1]} \in SUBSET Hooks
    BY EventNames DEF Hooks
  <2> QED BY <2>1 DEF AgentMoves, Killed, PidReused, HooksInstalled, TypeOK
<1>5. acts' \in 0..Acts /\ faults' \in 0..Faults
  BY Bounds DEF AgentMoves, Killed, PidReused, HooksInstalled, TypeOK, Acting, Faulty
<1>6. OtherType' /\ FilesType'
  BY <1>1, <1>3, <1>4, <1>5 DEF TypeOK, OtherType, FilesType
<1>7. DaemonType' /\ LogsType'
  BY <1>1, TypeParts, DaemonTypeKept, LogsTypeKept
<1>8. NotBack' /\ LogTells' /\ DownIsReset'
  BY <1>1 DEF NotBack, LogTells, DownIsReset, logs, daemon
<1> QED BY <1>2, <1>6, <1>7, <1>8, TypePartsNext

\* Types after a step of a hook.
LEMMA HookType ==
  ASSUME TypeOK, NotBack, LogTells, DownIsReset, NEW s \in Sids, HookRuns(s)
  PROVE  TypeOK' /\ NotBack' /\ LogTells' /\ DownIsReset'
<1>1. /\ UNCHANGED <<tools, logs, daemon, acts, faults, stepped, met, armed, robbed>>
      /\ calm' \in BOOLEAN
  BY DEF HookRuns
<1>2. PICK h \in hooks[s] : HookMarks(s, h) \/ HookWrites(s, h) \/ HookRemoves(s, h) \/ HookBuries(s, h) \/ HookCounts(s, h)
  BY DEF HookRuns
<1>3. h \in Hooks /\ h.event \in Events /\ h.step \in {1, 2}
  BY DEF TypeOK, Hooks
<1>4. hooks' \in [Sids -> SUBSET Hooks]
  <2>1. CASE h.step = 1
    <3>1. [h EXCEPT !.step = @ + 1] \in Hooks
      BY <1>3, <2>1 DEF Hooks
    <3>c1. CASE HookMarks(s, h)
      BY <3>c1, <3>1 DEF TypeOK, HookMarks, GoesOn, Ends
    <3>c2. CASE HookWrites(s, h)
      BY <3>c2, <3>1 DEF TypeOK, HookWrites, GoesOn, Ends
    <3>c3. CASE HookRemoves(s, h)
      BY <3>c3, <3>1 DEF TypeOK, HookRemoves, GoesOn, Ends
    <3>c4. CASE HookBuries(s, h)
      BY <3>c4, <3>1 DEF TypeOK, HookBuries, GoesOn, Ends
    <3>c5. CASE HookCounts(s, h)
      BY <3>c5, <3>1 DEF TypeOK, HookCounts, GoesOn, Ends
    <3> QED BY <1>2, <3>c1, <3>c2, <3>c3, <3>c4, <3>c5
  <2>2. CASE h.step = 2
    BY <1>2, <2>2, EventNames DEF TypeOK, HookMarks, HookWrites, HookRemoves, HookBuries, HookCounts, Ends
  <2> QED BY <1>3, <2>1, <2>2
<1>5. slot' \in [Sids -> States]
  <2>1. "" \in States
    BY DEF States
  <2>c1. CASE HookMarks(s, h)
    BY <2>c1, <2>1, SaysType DEF TypeOK, HookMarks
  <2>c2. CASE HookWrites(s, h)
    BY <2>c2, <2>1, SaysType DEF TypeOK, HookWrites
  <2>c3. CASE HookRemoves(s, h)
    BY <2>c3, <2>1, SaysType DEF TypeOK, HookRemoves
  <2>c4. CASE HookBuries(s, h)
    BY <2>c4, <2>1, SaysType DEF TypeOK, HookBuries
  <2>c5. CASE HookCounts(s, h)
    BY <2>c5, <2>1, SaysType DEF TypeOK, HookCounts
  <2> QED BY <1>2, <2>c1, <2>c2, <2>c3, <2>c4, <2>c5
<1>6. slotMine' \in [Sids -> BOOLEAN] /\ reused' \in [Sids -> BOOLEAN]
  <2>c1. CASE HookMarks(s, h)
    BY <2>c1, <1>3 DEF TypeOK, HookMarks, Live
  <2>c2. CASE HookWrites(s, h)
    BY <2>c2, <1>3 DEF TypeOK, HookWrites, Live
  <2>c3. CASE HookRemoves(s, h)
    BY <2>c3, <1>3 DEF TypeOK, HookRemoves, Live
  <2>c4. CASE HookBuries(s, h)
    BY <2>c4, <1>3 DEF TypeOK, HookBuries, Live
  <2>c5. CASE HookCounts(s, h)
    BY <2>c5, <1>3 DEF TypeOK, HookCounts, Live
  <2> QED BY <1>2, <2>c1, <2>c2, <2>c3, <2>c4, <2>c5
<1>7. /\ slotAge' \in [Sids -> Ages]
      /\ \A t \in Sids : slotAge'[t] \in {slotAge[t], 0, Absent}
  <2>c1. CASE HookMarks(s, h)
    BY <2>c1, Stamps DEF TypeOK, HookMarks
  <2>c2. CASE HookWrites(s, h)
    BY <2>c2, Stamps DEF TypeOK, HookWrites
  <2>c3. CASE HookRemoves(s, h)
    BY <2>c3, Stamps DEF TypeOK, HookRemoves
  <2>c4. CASE HookBuries(s, h)
    BY <2>c4, Stamps DEF TypeOK, HookBuries
  <2>c5. CASE HookCounts(s, h)
    BY <2>c5, Stamps DEF TypeOK, HookCounts
  <2> QED BY <1>2, <2>c1, <2>c2, <2>c3, <2>c4, <2>c5
<1>8. /\ marker' \in [Sids -> Ages]
      /\ \A t \in Sids : marker'[t] \in {marker[t], 0, Absent}
  <2>1. Marks(s, h.event) \in {marker[s], 0, Absent}
    BY DEF Marks
  <2>c1. CASE HookMarks(s, h)
    BY <2>c1, <2>1, Stamps DEF TypeOK, HookMarks
  <2>c2. CASE HookWrites(s, h)
    BY <2>c2, <2>1, Stamps DEF TypeOK, HookWrites
  <2>c3. CASE HookRemoves(s, h)
    BY <2>c3, <2>1, Stamps DEF TypeOK, HookRemoves
  <2>c4. CASE HookBuries(s, h)
    BY <2>c4, <2>1, Stamps DEF TypeOK, HookBuries
  <2>c5. CASE HookCounts(s, h)
    BY <2>c5, <2>1, Stamps DEF TypeOK, HookCounts
  <2> QED BY <1>2, <2>c1, <2>c2, <2>c3, <2>c4, <2>c5
<1>9. /\ tomb' \in [Sids -> Ages]
      /\ \A t \in Sids : tomb'[t] \in {tomb[t], 0, Absent}
  <2>c1. CASE HookMarks(s, h)
    BY <2>c1, Stamps DEF TypeOK, HookMarks
  <2>c2. CASE HookWrites(s, h)
    BY <2>c2, Stamps DEF TypeOK, HookWrites
  <2>c3. CASE HookRemoves(s, h)
    BY <2>c3, Stamps DEF TypeOK, HookRemoves
  <2>c4. CASE HookBuries(s, h)
    BY <2>c4, Stamps DEF TypeOK, HookBuries
  <2>c5. CASE HookCounts(s, h)
    BY <2>c5, Stamps DEF TypeOK, HookCounts
  <2> QED BY <1>2, <2>c1, <2>c2, <2>c3, <2>c4, <2>c5
<1>10. /\ agent' \in [Sids -> (-Back)..AgentCap \cup {Absent}]
       /\ \A t \in Sids : agent'[t] \in {agent[t], 0, Absent}
  <2>1. 0 \in (-Back)..AgentCap
    BY Stamps, Bounds
  <2>c1. CASE HookMarks(s, h)
    BY <2>c1, <2>1 DEF TypeOK, HookMarks
  <2>c2. CASE HookWrites(s, h)
    BY <2>c2, <2>1 DEF TypeOK, HookWrites
  <2>c3. CASE HookRemoves(s, h)
    BY <2>c3, <2>1 DEF TypeOK, HookRemoves
  <2>c4. CASE HookBuries(s, h)
    BY <2>c4, <2>1 DEF TypeOK, HookBuries
  <2>c5. CASE HookCounts(s, h)
    BY <2>c5, <2>1 DEF TypeOK, HookCounts
  <2> QED BY <1>2, <2>c1, <2>c2, <2>c3, <2>c4, <2>c5
<1>11. FilesType'
  BY <1>5, <1>6, <1>7, <1>8, <1>9, <1>10 DEF FilesType
<1>12. OtherType'
  BY <1>1, <1>4, <1>6 DEF TypeOK, OtherType
<1>13. DaemonType' /\ LogsType' /\ ToolsType'
  BY <1>1, TypeParts, DaemonTypeKept, LogsTypeKept, ToolsTypeKept
<1>14. NotBack'
  <2> SUFFICES ASSUME ~stepped, NEW t \in Sids
               PROVE  \A a \in {slotAge'[t], marker'[t], tomb'[t], agent'[t], logAge'[t]} : a = Absent \/ a >= 0
    BY <1>1 DEF NotBack
  <2>1. logAge' = logAge
    BY <1>1 DEF logs
  <2> QED BY <1>7, <1>8, <1>9, <1>10, <2>1 DEF NotBack
<1>15. LogTells' /\ DownIsReset'
  BY <1>1 DEF LogTells, DownIsReset, logs, daemon
<1> QED BY <1>11, <1>12, <1>13, <1>14, <1>15, TypePartsNext

Phases == {"rest", "claude", "claude_done", "codex", "done"}

\* Types after the first half of a poll.
LEMMA LoadType ==
  ASSUME TypeOK, NotBack, LogTells, DownIsReset,
         NEW d, NEW from, NEW to \in Phases, LoadSlots(d, from, to)
  PROVE  TypeOK' /\ NotBack' /\ LogTells' /\ DownIsReset'
<1>1. UNCHANGED <<tools, reused, hooks, slot, slotAge, slotMine, marker, agent, logs, up, shown, crew,
                 acts, faults, stepped, met, robbed>>
  BY DEF LoadSlots
<1>2. up = TRUE /\ phase' \in Phases
  BY DEF LoadSlots, TypeOK
<1>3. trusted' \in BOOLEAN
  BY DEF LoadSlots, Settle, TypeOK
<1>4. armed' \in BOOLEAN /\ calm' \in BOOLEAN
  BY DEF LoadSlots, NoHooks, TypeOK
<1>5. tomb' \in [Sids -> Ages] /\ \A t \in Sids : tomb'[t] \in {tomb[t], Absent}
  BY Stamps DEF LoadSlots, TypeOK
<1>6. seen' \in [Sids -> States] /\ seenAge' \in [Sids -> Ages]
  BY DEF LoadSlots, TypeOK
<1>7. seenLog' \in [Sids -> States]
  BY DEF LoadSlots, TypeOK, RolloutState, States
<1>8. FilesType' /\ OtherType'
  BY <1>1, <1>4, <1>5 DEF TypeOK, FilesType, OtherType
<1>9. DaemonType'
  BY <1>1, <1>2, <1>3, <1>6, <1>7 DEF TypeOK, DaemonType, Phases
<1>10. ToolsType' /\ LogsType'
  BY <1>1, TypeParts, ToolsTypeKept, LogsTypeKept
<1>11. NotBack'
  BY <1>1, <1>5 DEF NotBack, logs
<1>12. LogTells' /\ DownIsReset'
  BY <1>1, <1>2 DEF LogTells, DownIsReset, logs
<1> QED BY <1>8, <1>9, <1>10, <1>11, <1>12, TypePartsNext

LEMMA JudgedType ==
  ASSUME TypeOK, NEW s \in Sids
  PROVE  Judged(s) \in States /\ Merged(s) \in States
<1>1. Judged(s) \in States
  BY DEF Judged, DeriveState, TypeOK, States
<1> QED BY <1>1 DEF Merged, TypeOK

\* Types after its second half.
LEMMA JudgeType ==
  ASSUME TypeOK, NotBack, LogTells, DownIsReset,
         NEW d, NEW from, NEW to \in Phases, Judge(d, from, to)
  PROVE  TypeOK' /\ NotBack' /\ LogTells' /\ DownIsReset'
<1>1. /\ UNCHANGED <<sess, since, hooked, inside, reused, hooks, tomb, logs, up, trusted, acts, faults, stepped, met, armed, calm>>
      /\ up = TRUE /\ phase' \in Phases
  BY DEF Judge, TypeOK
<1>2. shown' \in [Sids -> States]
  BY JudgedType DEF Judge, TypeOK
<1>3. crew' \in [Sids -> 0..1]
  <2>1. /\ 0 \in 0..1 /\ 1 \in 0..1
        /\ \A t \in Sids : crew[t] \in 0..1
    BY DEF TypeOK
  <2>2. \A t \in Sids : crew'[t] \in {crew[t], 0, 1}
    BY DEF Judge
  <2>3. crew' = [t \in Sids |-> crew'[t]]
    BY DEF Judge
  <2> QED BY <2>1, <2>2, <2>3
<1>4. slot' \in [Sids -> States]
  BY DEF Judge, TypeOK, States
<1>5. slotAge' \in [Sids -> Ages] /\ \A t \in Sids : slotAge'[t] \in {slotAge[t], Absent}
  BY Stamps DEF Judge, TypeOK
<1>6. slotMine' \in [Sids -> BOOLEAN]
  <2>1. \A t \in Sids : (slotMine[t] /\ ~(t \in d /\ Collected(t))) \in BOOLEAN
    OBVIOUS
  <2> HIDE DEF Collected
  <2> QED BY <2>1 DEF Judge
<1>7. marker' \in [Sids -> Ages] /\ \A t \in Sids : marker'[t] \in {marker[t], Absent}
  BY Stamps DEF Judge, TypeOK
<1>8. /\ agent' \in [Sids -> (-Back)..AgentCap \cup {Absent}]
      /\ \A t \in Sids : agent'[t] \in {agent[t], Absent}
  BY DEF Judge, TypeOK
<1>9. works' \in [Sids -> 0..(AgentHour + 1) \cup {Absent}]
  <2>1. AgentHour + 1 \in 0..(AgentHour + 1)
    BY Bounds
  <2> QED BY <2>1 DEF Judge, TypeOK
<1>10. robbed' \in [Sids -> BOOLEAN]
  BY DEF Judge, TypeOK
<1>11. seen' \in [Sids -> States] /\ seenLog' \in [Sids -> States] /\ seenAge' \in [Sids -> Ages]
  BY Stamps DEF Judge, States
<1>12. DaemonType'
  BY <1>1, <1>2, <1>3, <1>11 DEF TypeOK, DaemonType, Phases
<1>13. FilesType'
  BY <1>1, <1>4, <1>5, <1>6, <1>7, <1>8 DEF TypeOK, FilesType
<1>14. ToolsType' /\ OtherType'
  BY <1>1, <1>9, <1>10 DEF TypeOK, ToolsType, OtherType
<1>15. LogsType'
  BY <1>1, TypeParts, LogsTypeKept
<1>16. NotBack'
  <2> SUFFICES ASSUME ~stepped, NEW t \in Sids
               PROVE  \A a \in {slotAge'[t], marker'[t], tomb'[t], agent'[t], logAge'[t]} : a = Absent \/ a >= 0
    BY <1>1 DEF NotBack
  <2> QED BY <1>1, <1>5, <1>7, <1>8 DEF NotBack, logs
<1>17. LogTells' /\ DownIsReset'
  BY <1>1 DEF LogTells, DownIsReset, logs
<1> QED BY <1>12, <1>13, <1>14, <1>15, <1>16, <1>17, TypePartsNext

\* The same of the ages of agents' files, which are kept for longer.
LEMMA AgentAges ==
  ASSUME NEW f, f \in [Sids -> (-Back)..AgentCap \cup {Absent}]
  PROVE  /\ Aged(f, AgentCap) \in [Sids -> (-Back)..AgentCap \cup {Absent}]
         /\ \A s \in Sids : f[s] \in Int /\ Aged(f, AgentCap)[s] \in Int
         /\ \A s \in Sids : f[s] = Absent => Aged(f, AgentCap)[s] = Absent
         /\ \A s \in Sids : f[s] # Absent =>
              Aged(f, AgentCap)[s] # Absent /\ Aged(f, AgentCap)[s] >= f[s] /\ Aged(f, AgentCap)[s] <= f[s] + 1
         /\ (\A s \in Sids : f[s] = Absent \/ f[s] >= 0) =>
              /\ BackAll(f) \in [Sids -> (-Back)..AgentCap \cup {Absent}]
              /\ \A s \in Sids : f[s] = Absent <=> BackAll(f)[s] = Absent
              /\ \A s \in Sids : f[s] # Absent => BackAll(f)[s] <= f[s]
<1>1. ASSUME NEW s \in Sids
      PROVE  /\ Aged(f, AgentCap)[s] = IF f[s] # Absent /\ f[s] < AgentCap THEN f[s] + 1 ELSE f[s]
             /\ BackAll(f)[s] = IF f[s] = Absent THEN Absent ELSE f[s] - Back
             /\ f[s] = Absent \/ (f[s] >= 0 - Back /\ f[s] <= AgentCap)
             /\ f[s] \in Int
  BY Stamps, Bounds DEF Aged, BackAll
<1>2. ASSUME NEW s \in Sids
      PROVE  /\ Aged(f, AgentCap)[s] \in (-Back)..AgentCap \cup {Absent}
             /\ f[s] >= 0 => BackAll(f)[s] \in (-Back)..AgentCap \cup {Absent}
  BY <1>1, Stamps, Bounds
<1>3. /\ Aged(f, AgentCap) = [s \in Sids |-> Aged(f, AgentCap)[s]]
      /\ BackAll(f) = [s \in Sids |-> BackAll(f)[s]]
  BY DEF Aged, BackAll
<1>4. Aged(f, AgentCap) \in [Sids -> (-Back)..AgentCap \cup {Absent}]
  BY <1>2, <1>3
<1>5. ASSUME \A s \in Sids : f[s] = Absent \/ f[s] >= 0
      PROVE  BackAll(f) \in [Sids -> (-Back)..AgentCap \cup {Absent}]
  <2>1. \A s \in Sids : BackAll(f)[s] \in (-Back)..AgentCap \cup {Absent}
    BY <1>1, <1>2, <1>5
  <2> QED BY <1>3, <2>1
<1> QED BY <1>1, <1>4, <1>5, Stamps, Bounds

\* Types after a stop or a start of the daemon.
LEMMA DaemonTurnType ==
  ASSUME TypeOK, NotBack, LogTells, DownIsReset, DaemonStops \/ DaemonStarts
  PROVE  TypeOK' /\ NotBack' /\ LogTells' /\ DownIsReset'
<1>1. UNCHANGED <<tools, reused, hooks, files, logs, acts, stepped, robbed>>
  BY DEF DaemonStops, DaemonStarts
<1>2. DaemonType'
  <2>1. CASE DaemonStops
    <3>1. "" \in States /\ Absent \in Ages /\ 0 \in 0..1
      BY Stamps DEF States
    <3> QED BY <2>1, <3>1 DEF DaemonStops, DaemonType
  <2>2. CASE DaemonStarts
    BY <2>2 DEF DaemonStarts, TypeOK, DaemonType
  <2> QED BY <2>1, <2>2
<1>3. faults' \in 0..Faults
  <2>1. faults \in 0..Faults
    BY DEF TypeOK
  <2>2. faults' = faults \/ (faults < Faults /\ faults' = faults + 1)
    BY DEF DaemonStops, DaemonStarts, Faulty
  <2> QED BY <2>1, <2>2, Bounds
<1>4. met' \in [Sids -> BOOLEAN] /\ armed' \in BOOLEAN /\ calm' \in BOOLEAN
  <2>1. CASE DaemonStops
    BY <2>1 DEF DaemonStops
  <2>2. CASE DaemonStarts
    BY <2>2 DEF DaemonStarts, TypeOK
  <2> QED BY <2>1, <2>2
<1>5. OtherType'
  BY <1>1, <1>3, <1>4 DEF TypeOK, OtherType
<1>6. ToolsType' /\ FilesType' /\ LogsType'
  BY <1>1, TypeParts, ToolsTypeKept, FilesTypeKept, LogsTypeKept
<1>7. NotBack' /\ LogTells'
  BY <1>1 DEF NotBack, LogTells, files, logs
<1>8. DownIsReset'
  BY DEF DaemonStops, DaemonStarts, DownIsReset
<1> QED BY <1>2, <1>5, <1>6, <1>7, <1>8, TypePartsNext

LEMMA TickType ==
  ASSUME TypeOK, NotBack, LogTells, DownIsReset, Tick
  PROVE  TypeOK' /\ NotBack' /\ LogTells' /\ DownIsReset'
<1>1. /\ UNCHANGED <<sess, hooked, inside, reused, hooks, slot, slotMine, log, up, trusted, seen, seenAge, seenLog,
                     shown, crew, acts, faults, stepped, met, armed, robbed>>
      /\ phase' = "rest" /\ calm' = FALSE
  BY DEF Tick
<1>2. since' \in [Sids -> 0..Past]
  BY Bounds, Stamps DEF Tick, Aged, TypeOK, Past
<1>3. works' \in [Sids -> 0..(AgentHour + 1) \cup {Absent}]
  <2>1. Aged(works, AgentHour + 1) \in [Sids -> 0..(AgentHour + 1) \cup {Absent}]
    BY Bounds, Stamps DEF Aged, TypeOK
  <2>2. AgentHour + 1 \in 0..(AgentHour + 1)
    BY Bounds
  <2> QED BY <2>1, <2>2 DEF Tick, TypeOK
<1>4. slotAge' \in [Sids -> Ages] /\ marker' \in [Sids -> Ages] /\ tomb' \in [Sids -> Ages] /\ logAge' \in [Sids -> Ages]
  BY AgedType DEF Tick, TypeOK
<1>5. agent' \in [Sids -> (-Back)..AgentCap \cup {Absent}]
  BY AgentAges DEF Tick, TypeOK
<1>6. ToolsType' /\ LogsType'
  BY <1>1, <1>2, <1>3, <1>4 DEF TypeOK, ToolsType, LogsType
<1>7. FilesType' /\ OtherType'
  BY <1>1, <1>4, <1>5 DEF TypeOK, FilesType, OtherType
<1>8. DaemonType'
  BY <1>1 DEF TypeOK, DaemonType
<1>9. NotBack'
  <2> SUFFICES ASSUME ~stepped, NEW t \in Sids
               PROVE  \A a \in {slotAge'[t], marker'[t], tomb'[t], agent'[t], logAge'[t]} : a = Absent \/ a >= 0
    BY <1>1 DEF NotBack
  <2>1. \A a \in {slotAge[t], marker[t], tomb[t], agent[t], logAge[t]} : a = Absent \/ a >= 0
    BY DEF NotBack
  <2>2. ASSUME NEW f, f \in [Sids -> Ages], f[t] = Absent \/ f[t] >= 0
        PROVE  Aged(f, Cap)[t] = Absent \/ Aged(f, Cap)[t] >= 0
    <3>1. /\ f[t] = Absent => Aged(f, Cap)[t] = Absent
          /\ f[t] # Absent => Aged(f, Cap)[t] >= f[t]
      BY <2>2, AgedType
    <3>2. Aged(f, Cap)[t] \in Int /\ f[t] \in Int
      BY <2>2, AgedType, Stamps
    <3> QED BY <2>2, <3>1, <3>2
  <2>3. slotAge'[t] = Absent \/ slotAge'[t] >= 0
    BY <2>1, <2>2 DEF Tick, TypeOK
  <2>4. marker'[t] = Absent \/ marker'[t] >= 0
    BY <2>1, <2>2 DEF Tick, TypeOK
  <2>5. tomb'[t] = Absent \/ tomb'[t] >= 0
    BY <2>1, <2>2 DEF Tick, TypeOK
  <2>6. logAge'[t] = Absent \/ logAge'[t] >= 0
    BY <2>1, <2>2 DEF Tick, TypeOK
  <2>7. agent'[t] = Absent \/ agent'[t] >= 0
    BY <2>1, AgentAges, Stamps DEF Tick, TypeOK
  <2> QED BY <2>3, <2>4, <2>5, <2>6, <2>7
<1>10. LogTells' /\ DownIsReset'
  BY <1>1 DEF LogTells, DownIsReset
<1> QED BY <1>6, <1>7, <1>8, <1>9, <1>10, TypePartsNext

LEMMA StepBackType ==
  ASSUME TypeOK, NotBack, LogTells, DownIsReset, StepBack
  PROVE  TypeOK' /\ NotBack' /\ LogTells' /\ DownIsReset'
<1>1. /\ UNCHANGED <<tools, reused, hooks, slot, slotMine, log, daemon, acts, met, armed, robbed>>
      /\ calm' = FALSE /\ stepped' = TRUE
  BY DEF StepBack
<1>2. \A t \in Sids : \A a \in {slotAge[t], marker[t], tomb[t], agent[t], logAge[t]} : a = Absent \/ a >= 0
  BY DEF NotBack, StepBack
<1>3. slotAge' \in [Sids -> Ages] /\ marker' \in [Sids -> Ages] /\ tomb' \in [Sids -> Ages] /\ logAge' \in [Sids -> Ages]
  BY <1>2, BackType DEF StepBack, TypeOK
<1>4. agent' \in [Sids -> (-Back)..AgentCap \cup {Absent}]
  BY <1>2, AgentAges DEF StepBack, TypeOK
<1>5. faults' \in 0..Faults
  BY Bounds DEF StepBack, Faulty, TypeOK
<1>6. FilesType' /\ OtherType' /\ LogsType'
  BY <1>1, <1>3, <1>4, <1>5 DEF TypeOK, FilesType, OtherType, LogsType
<1>7. DaemonType' /\ ToolsType'
  BY <1>1, TypeParts, DaemonTypeKept, ToolsTypeKept
<1>8. NotBack' /\ LogTells' /\ DownIsReset'
  BY <1>1 DEF NotBack, LogTells, DownIsReset, daemon
<1> QED BY <1>6, <1>7, <1>8, TypePartsNext

-----------------------------------------------------------------------------
(* What the files say of a session, through the steps of the tools.          *)

\* Nothing of session t has changed.
Same(t) ==
  /\ sess'[t] = sess[t] /\ since'[t] = since[t] /\ works'[t] = works[t] /\ hooked'[t] = hooked[t]
  /\ hooks'[t] = hooks[t] /\ slot'[t] = slot[t] /\ slotAge'[t] = slotAge[t] /\ slotMine'[t] = slotMine[t]
  /\ marker'[t] = marker[t] /\ tomb'[t] = tomb[t] /\ agent'[t] = agent[t] /\ logAge'[t] = logAge[t]
  /\ robbed'[t] = robbed[t]

\* Nothing is said anew of a session that no step has touched.
LEMMA SameSession ==
  ASSUME NEW t \in Sids, Session(t), Same(t), stepped' = stepped
  PROVE  Session(t)'
<1>1. HooksFit(t)' /\ Unhooked(t)'
  BY DEF Session, Same, HooksFit, Unhooked
<1>2. SlotTold(t)'
  BY DEF Session, Same, SlotTold, Live, SlotHooks, Telling
<1>3. QuestionMarked(t)' /\ AnswerClears(t)'
  BY DEF Session, Same, QuestionMarked, AnswerClears, Pending
<1>4. EndedGone(t)'
  BY DEF Session, Same, EndedGone, Pending
<1>5. AgentKept(t)'
  BY DEF Session, Same, AgentKept, Pending
<1> QED BY <1>1, <1>2, <1>3, <1>4, <1>5 DEF Session

\* What an event changes of its session, and that it leaves the others alone.
LEMMA EventFacts ==
  ASSUME TypeOK, NEW s \in Sids, NEW st \in EventStates, NEW es \in SUBSET Events, Event(s, st, es)
  PROVE  /\ hooks[s] = {}
         /\ sess'[s] = st /\ since'[s] = (IF hooked[s] THEN 0 ELSE Past)
         /\ hooks'[s] = IF hooked[s] THEN {[event |-> e, step |-> 1] : e \in es} ELSE {}
         /\ robbed'[s] = FALSE
         /\ UNCHANGED <<slot, slotAge, slotMine, marker, tomb, agent, hooked, inside, stepped>>
         /\ logAge'[s] = logAge[s] \/ logAge'[s] = 0
         /\ met'[s] = up
         /\ \A t \in Sids \ {s} : Same(t) /\ met'[t] = met[t]
<1>1. Moves(s, st, es)
  BY DEF Event
<1>2. /\ hooks[s] = {}
      /\ sess'[s] = st /\ since'[s] = (IF hooked[s] THEN 0 ELSE Past)
      /\ hooks'[s] = IF hooked[s] THEN {[event |-> e, step |-> 1] : e \in es} ELSE {}
      /\ robbed'[s] = FALSE /\ met'[s] = up
  BY <1>1 DEF Moves, NoHooks, TypeOK
<1>3. UNCHANGED <<slot, slotAge, slotMine, marker, tomb, agent, hooked, inside, stepped>>
  BY <1>1 DEF Moves, files
<1>4. logAge'[s] = logAge[s] \/ logAge'[s] = 0
  BY DEF Event, TypeOK, logs
<1>5. ASSUME NEW t \in Sids \ {s}
      PROVE  Same(t) /\ met'[t] = met[t]
  <2>1. /\ sess'[t] = sess[t] /\ since'[t] = since[t] /\ hooks'[t] = hooks[t] /\ robbed'[t] = robbed[t]
        /\ met'[t] = met[t]
    BY <1>1 DEF Moves, TypeOK
  <2>2. works'[t] = works[t]
    BY DEF Event, TypeOK
  <2>3. logAge'[t] = logAge[t]
    BY DEF Event, TypeOK, logs
  <2> QED BY <1>3, <2>1, <2>2, <2>3 DEF Same
<1> QED BY <1>2, <1>3, <1>4, <1>5

\* An agent at work is told apart from none and from one silent for an hour.
LEMMA WorksRange == 0..AgentHour = {n \in Int : 0 <= n /\ n <= AgentHour} /\ Absent \notin 0..AgentHour /\ AgentHour + 1 \notin 0..AgentHour
BY Bounds, Stamps

\* After an event the hooks under way stand for the files they will leave.
LEMMA EventSession ==
  ASSUME TypeOK, NEW s \in Sids, NEW st \in EventStates, NEW es \in SUBSET Events, Event(s, st, es),
         Session(s)
  PROVE  Session(s)'
<1> DEFINE H == {[event |-> e, step |-> 1] : e \in es}
<1>1. /\ hooks[s] = {}
      /\ sess'[s] = st /\ since'[s] = (IF hooked[s] THEN 0 ELSE Past)
      /\ hooks'[s] = IF hooked[s] THEN H ELSE {}
      /\ robbed'[s] = FALSE
      /\ UNCHANGED <<slot, slotAge, slotMine, marker, tomb, agent, hooked, inside, stepped>>
      /\ logAge'[s] = logAge[s] \/ logAge'[s] = 0
  BY EventFacts
<1>2. works'[s] = works[s] \/ works'[s] = Absent
  BY DEF Event, TypeOK
<1>3. ASSUME NEW h \in H
      PROVE  h.event \in es /\ h.step = 1
  BY <1>3
<1>4. ASSUME NEW e \in es
      PROVE  \E h \in H : h.event = e /\ h.step = 1
  <2>1. [event |-> e, step |-> 1] \in H
    OBVIOUS
  <2> QED BY <2>1
<1>5. st \in {"closed", "open", "working", "asking", "yours", "failed"}
  BY DEF EventStates
<1> HIDE DEF H
<1>6. HooksFit(s)'
  BY <1>1, <1>3 DEF Event, HooksFit
<1>7. Unhooked(s)'
  BY <1>1, <1>2, WorksRange DEF Session, Unhooked
<1>8. SlotTold(s)'
  <2>1. CASE ~hooked[s]
    BY <1>1, <2>1, Stamps, Bounds DEF SlotTold
  <2>2. CASE st = "closed"
    BY <1>1, <2>2 DEF SlotTold, Live
  <2>3. CASE hooked[s] /\ st # "closed"
    <3>1. PICK e \in es : e \in SlotEvents
      BY <2>3 DEF Event
    <3>2. SlotHooks(s)' # {}
      BY <1>1, <1>4, <2>3, <3>1 DEF SlotHooks
    <3> QED BY <3>2 DEF SlotTold
  <2> QED BY <2>1, <2>2, <2>3
<1>9. QuestionMarked(s)'
  <2>1. CASE ~hooked[s]
    BY <1>1, <2>1, Stamps, Bounds DEF QuestionMarked
  <2>2. CASE hooked[s]
    <3> SUFFICES ASSUME s \in Codex, st = "asking" PROVE Pending(s, {"PermissionRequest"})'
      BY <1>1 DEF QuestionMarked
    <3>1. "PermissionRequest" \in es
      BY DEF Event
    <3> QED BY <1>1, <1>4, <2>2, <3>1 DEF Pending
  <2> QED BY <2>1, <2>2
<1>10. AnswerClears(s)'
  <2>1. s \in Claude => marker[s] = Absent
    BY DEF Session, AnswerClears
  <2>2. CASE ~hooked[s]
    BY <1>1, <2>2 DEF Session, Unhooked, AnswerClears
  <2>3. CASE hooked[s]
    <3> SUFFICES ASSUME st \in {"working", "yours", "failed"}, s \notin Claude
                 PROVE  marker[s] = Absent \/ Pending(s, AnswerEvents)'
      BY <1>1, <2>1 DEF AnswerClears
    <3>1. CASE es \cap AnswerEvents # {}
      BY <1>1, <1>4, <2>3, <3>1 DEF Pending
    <3>2. CASE sess[s] = "working"
      BY <1>1, <3>2 DEF Session, AnswerClears, Pending
    <3> QED BY <3>1, <3>2 DEF Event
  <2> QED BY <2>2, <2>3
<1>11. EndedGone(s)'
  <2> SUFFICES ASSUME st = "closed", hooked[s]
               PROVE  Pending(s, {"SessionEnd"})' /\ hooks'[s] # {}
    BY <1>1 DEF EndedGone
  <2>1. "SessionEnd" \in es
    BY DEF Event
  <2> QED BY <1>1, <1>4, <2>1 DEF Pending
<1>12. AgentKept(s)'
  <2> SUFFICES ASSUME works'[s] \in 0..AgentHour
               PROVE  /\ st \in {"working", "asking"} /\ hooked[s]
                      /\ agent[s] # Absent /\ agent[s] <= works'[s]
    BY <1>1 DEF AgentKept
  <2>1. works[s] \in 0..AgentHour /\ works'[s] = works[s] /\ works[s] # Absent
    BY <1>2, WorksRange
  <2>2. sess[s] \in {"working", "asking"} /\ hooked[s] /\ agent[s] # Absent /\ agent[s] <= works[s]
    BY <1>1, <2>1 DEF Session, AgentKept, Pending
  <2>3. st # "closed"
    BY <2>1, WorksRange DEF Event, TypeOK
  <2>4. st \in {"working", "asking"}
    BY <2>1, <2>2, <2>3 DEF Event, Live
  <2> QED BY <2>1, <2>2, <2>4
<1> QED BY <1>6, <1>7, <1>8, <1>9, <1>10, <1>11, <1>12 DEF Session

\* What those steps leave alone.
LEMMA FaultFacts ==
  ASSUME TypeOK, NEW s \in Sids, AgentMoves(s) \/ Killed(s) \/ PidReused(s) \/ HooksInstalled(s)
  PROVE  /\ UNCHANGED <<since, slot, slotAge, marker, tomb, agent, logAge, robbed, stepped, inside>>
         /\ \A t \in Sids \ {s} : Same(t)
<1>1. UNCHANGED <<since, slot, slotAge, marker, tomb, agent, logAge, robbed, stepped, inside>>
  BY DEF AgentMoves, Killed, PidReused, HooksInstalled, tools, files, logs
<1>2. ASSUME NEW t \in Sids \ {s}
      PROVE  /\ sess'[t] = sess[t] /\ works'[t] = works[t] /\ hooked'[t] = hooked[t]
             /\ hooks'[t] = hooks[t] /\ slotMine'[t] = slotMine[t]
  BY DEF AgentMoves, Killed, PidReused, HooksInstalled, tools, files, TypeOK
<1> QED BY <1>1, <1>2 DEF Same

LEMMA AgentMovesSession ==
  ASSUME TypeOK, NEW s \in Sids, AgentMoves(s), Session(s)
  PROVE  Session(s)'
<1> DEFINE e == IF works[s] = Absent THEN "SubagentStart" ELSE "SubagentStop"
<1>1. UNCHANGED <<since, slot, slotAge, marker, tomb, agent, logAge, robbed, stepped, inside>>
  BY FaultFacts
<1>2. /\ sess' = sess /\ hooked' = hooked /\ hooked[s] /\ sess[s] = "working" /\ slotMine' = slotMine
      /\ hooks[s] = {} /\ hooks'[s] = {[event |-> e, step |-> 1]}
      /\ works'[s] = IF works[s] = Absent THEN 0 ELSE Absent
  BY DEF AgentMoves, NoHooks, files, TypeOK
<1>3. e \notin SlotEvents /\ e \in {"SubagentStart", "SubagentStop"}
  BY EventNames
<1>4. e = "SubagentStop" => works'[s] = Absent
  BY <1>2
<1>5. e = "SubagentStart" \/ works'[s] = Absent
  BY <1>2
<1> HIDE DEF e
<1>6. HooksFit(s)'
  BY <1>2, <1>3, <1>4 DEF HooksFit, EventsAt
<1>7. Unhooked(s)'
  BY <1>2 DEF Unhooked
<1>8. SlotTold(s)'
  <2>1. SlotHooks(s) = {} /\ SlotHooks(s)' = {}
    BY <1>2, <1>3 DEF SlotHooks
  <2> QED BY <1>1, <1>2, <2>1 DEF Session, SlotTold, Live, Telling
<1>9. QuestionMarked(s)' /\ EndedGone(s)'
  BY <1>2 DEF QuestionMarked, EndedGone
<1>10. AnswerClears(s)'
  BY <1>1, <1>2 DEF Session, AnswerClears, Pending
<1>11. AgentKept(s)'
  BY <1>2, <1>5, WorksRange DEF AgentKept, Pending
<1> QED BY <1>6, <1>7, <1>8, <1>9, <1>10, <1>11 DEF Session

LEMMA KilledSession ==
  ASSUME TypeOK, NEW s \in Sids, Killed(s), Session(s)
  PROVE  Session(s)'
<1>1. UNCHANGED <<since, slot, slotAge, marker, tomb, agent, logAge, robbed, stepped, inside>>
  BY FaultFacts
<1>2. sess'[s] = "killed" /\ sess[s] # "closed" /\ works'[s] = Absent /\ hooked' = hooked /\ hooks' = hooks
  BY DEF Killed, TypeOK, Live
<1>3. HooksFit(s)'
  <2>1. \A h \in hooks[s] : h.event \in Events
    BY DEF TypeOK, Hooks
  <2> QED BY <1>2, <2>1 DEF Session, HooksFit, EventsAt
<1>4. Unhooked(s)'
  BY <1>1, <1>2, WorksRange DEF Session, Unhooked
<1>5. SlotTold(s)' /\ QuestionMarked(s)' /\ EndedGone(s)'
  BY <1>2 DEF SlotTold, QuestionMarked, EndedGone, Live
<1>6. AnswerClears(s)'
  BY <1>1, <1>2 DEF Session, AnswerClears
<1>7. AgentKept(s)'
  BY <1>2, WorksRange DEF AgentKept
<1> QED BY <1>3, <1>4, <1>5, <1>6, <1>7 DEF Session

LEMMA InstalledSession ==
  ASSUME TypeOK, NEW s \in Sids, HooksInstalled(s), Session(s)
  PROVE  Session(s)'
<1>1. UNCHANGED <<since, slot, slotAge, marker, tomb, agent, logAge, robbed, stepped, inside>>
  BY FaultFacts
<1>2. ~hooked[s] /\ hooked'[s] /\ sess' = sess /\ sess[s] # "closed" /\ works' = works /\ hooks' = hooks
  BY DEF HooksInstalled, TypeOK, Live
<1>3. /\ hooks[s] = {} /\ marker[s] = Absent
      /\ works[s] \notin 0..AgentHour /\ since[s] = Past
  BY <1>2 DEF Session, Unhooked
<1>4. HooksFit(s)' /\ Unhooked(s)'
  BY <1>2, <1>3 DEF HooksFit, Unhooked
<1>5. SlotTold(s)' /\ QuestionMarked(s)'
  BY <1>1, <1>3, Stamps, Bounds DEF SlotTold, QuestionMarked
<1>6. EndedGone(s)' /\ AgentKept(s)'
  BY <1>2, <1>3 DEF EndedGone, AgentKept
<1>7. AnswerClears(s)'
  BY <1>1, <1>3 DEF AnswerClears
<1> QED BY <1>4, <1>5, <1>6, <1>7 DEF Session

LEMMA FaultSession ==
  ASSUME TypeOK, NEW s \in Sids, AgentMoves(s) \/ Killed(s) \/ PidReused(s) \/ HooksInstalled(s),
         \A t \in Sids : Session(t)
  PROVE  \A t \in Sids : Session(t)'
<1>1. ASSUME NEW t \in Sids \ {s} PROVE Session(t)'
  BY FaultFacts, SameSession
<1>2. Session(s)'
  <2>1. CASE PidReused(s)
    <3>1. Same(s) /\ stepped' = stepped
      BY <2>1 DEF PidReused, Same, tools, files, logs
    <3> QED BY <3>1, SameSession
  <2> QED BY <2>1, AgentMovesSession, KilledSession, InstalledSession
<1> QED BY <1>1, <1>2

-----------------------------------------------------------------------------
(* What the files say of a session, through the steps of its hooks.          *)

\* A step of a hook of session s; the others are as they were.
LEMMA HookFacts ==
  ASSUME TypeOK, NEW s \in Sids, NEW h \in hooks[s],
         HookMarks(s, h) \/ HookWrites(s, h) \/ HookRemoves(s, h) \/ HookBuries(s, h) \/ HookCounts(s, h),
         UNCHANGED <<tools, logs, daemon, acts, faults, stepped, met, armed, robbed>>
  PROVE  /\ h \in Hooks /\ h.event \in Events /\ h.step \in {1, 2}
         /\ UNCHANGED <<sess, since, works, hooked, logAge, robbed, stepped, inside>>
         /\ \A t \in Sids \ {s} : Same(t)
         /\ \A g \in hooks'[s] : g \in hooks[s] \/ (g.event = h.event /\ g.step = 2)
         /\ \A g \in hooks[s] : g = h \/ g \in hooks'[s]
<1>1. h \in Hooks /\ h.event \in Events /\ h.step \in {1, 2}
  BY DEF TypeOK, Hooks
<1>2. UNCHANGED <<sess, since, works, hooked, logAge, robbed, stepped, inside>>
  BY DEF tools, logs
<1>3. ASSUME NEW t \in Sids \ {s}
      PROVE  /\ slot'[t] = slot[t] /\ slotAge'[t] = slotAge[t] /\ slotMine'[t] = slotMine[t]
             /\ marker'[t] = marker[t] /\ tomb'[t] = tomb[t] /\ agent'[t] = agent[t]
             /\ hooks'[t] = hooks[t]
  <2>1. CASE HookMarks(s, h) BY <2>1 DEF HookMarks, GoesOn, TypeOK
  <2>2. CASE HookWrites(s, h) BY <2>2 DEF HookWrites, Ends, TypeOK
  <2>3. CASE HookRemoves(s, h) BY <2>3 DEF HookRemoves, GoesOn, TypeOK
  <2>4. CASE HookBuries(s, h) BY <2>4 DEF HookBuries, Ends, TypeOK
  <2>5. CASE HookCounts(s, h) BY <2>5 DEF HookCounts, Ends, TypeOK
  <2> QED BY <2>1, <2>2, <2>3, <2>4, <2>5
<1>4. \/ hooks'[s] = hooks[s] \ {h}
      \/ h.step = 1 /\ hooks'[s] = (hooks[s] \ {h}) \cup {[h EXCEPT !.step = @ + 1]}
  BY DEF HookMarks, HookWrites, HookRemoves, HookBuries, HookCounts, GoesOn, Ends, TypeOK
<1>5. h.step = 1 => [h EXCEPT !.step = @ + 1].event = h.event /\ [h EXCEPT !.step = @ + 1].step = 2
  BY <1>1 DEF Hooks
<1>6. /\ \A g \in hooks'[s] : g \in hooks[s] \/ (g.event = h.event /\ g.step = 2)
      /\ \A g \in hooks[s] : g = h \/ g \in hooks'[s]
  BY <1>4, <1>5
<1> QED BY <1>1, <1>2, <1>3, <1>6 DEF Same

\* The hooks that stay under way still fit the session.
LEMMA HookFit ==
  ASSUME NEW s \in Sids, NEW h \in hooks[s], Session(s),
         UNCHANGED <<sess, since, works, hooked>>,
         \A g \in hooks'[s] : g \in hooks[s] \/ (g.event = h.event /\ g.step = 2)
  PROVE  HooksFit(s)' /\ Unhooked(s)' /\ hooked[s]
<1>1. HooksFit(s)'
  BY DEF Session, HooksFit
<1>2. hooked[s]
  BY DEF Session, Unhooked
<1> QED BY <1>1, <1>2 DEF Unhooked

\* What a hook under way says of its session.
LEMMA FitAt ==
  ASSUME NEW s \in Sids, NEW h \in hooks[s], Session(s), TypeOK
  PROVE  /\ h.event \in EventsAt(s, sess[s])
         /\ h.event \in SlotEvents => sess[s] # "closed"
         /\ h.event = "SessionEnd" => sess[s] \in {"closed", "killed"}
         /\ h.event \in {"SubagentStart", "SubagentStop"} => sess[s] \in {"working", "killed"}
         /\ h.event \in AnswerEvents => sess[s] # "asking"
         /\ h.event = "PermissionRequest" => s \in Codex /\ sess[s] \in {"asking", "killed"}
<1>1. h.event \in EventsAt(s, sess[s]) /\ (h.event = "PermissionRequest" => s \in Codex)
  BY DEF Session, HooksFit
<1>2. sess[s] \in {"closed", "open", "working", "asking", "yours", "failed", "killed"}
  BY DEF TypeOK
<1>3. sess[s] = "closed" => h.event = "SessionEnd"
  BY <1>1 DEF EventsAt
<1>4. sess[s] = "open" => h.event = "SessionStart"
  BY <1>1 DEF EventsAt
<1>5. sess[s] = "working" => h.event \in {"UserPromptSubmit", "PreToolUse", "PostToolUse", "SubagentStart", "SubagentStop"}
  BY <1>1 DEF EventsAt, RunningEvents
<1>6. sess[s] = "asking" => h.event \in {"PreToolUse", "PermissionRequest", "Notification"}
  BY <1>1 DEF EventsAt
<1>7. sess[s] = "yours" => h.event \in {"Stop", "Interrupt"}
  BY <1>1 DEF EventsAt, IdleEvents
<1>8. sess[s] = "failed" => h.event \in {"Stop", "StopFailure"}
  BY <1>1 DEF EventsAt
<1> QED BY <1>1, <1>2, <1>3, <1>4, <1>5, <1>6, <1>7, <1>8, EventNames DEF AnswerEvents

\* The first step of a hook that writes the slot.
LEMMA MarksSession ==
  ASSUME TypeOK, NEW s \in Sids, NEW h \in hooks[s], HookMarks(s, h), Session(s),
         UNCHANGED <<tools, logs, daemon, acts, faults, stepped, met, armed, robbed>>
  PROVE  Session(s)'
<1>1. /\ h \in Hooks /\ h.event \in Events /\ h.step \in {1, 2}
      /\ UNCHANGED <<sess, since, works, hooked, logAge, robbed, stepped, inside>>
      /\ \A g \in hooks'[s] : g \in hooks[s] \/ (g.event = h.event /\ g.step = 2)
      /\ \A g \in hooks[s] : g = h \/ g \in hooks'[s]
  BY HookFacts
<1>2. /\ h.event \in SlotEvents /\ h.step = 1
      /\ marker'[s] = Marks(s, h.event) /\ UNCHANGED <<slot, slotAge, slotMine, agent>>
  BY DEF HookMarks, TypeOK
<1>3. HooksFit(s)' /\ Unhooked(s)' /\ hooked[s]
  BY <1>1, HookFit
<1>4. SlotTold(s)'
  <2> DEFINE g == [h EXCEPT !.step = @ + 1]
  <2>1. g \in hooks'[s] /\ g.event = h.event
    BY <1>1 DEF HookMarks, GoesOn, TypeOK, Hooks
  <2>2. SlotHooks(s)' # {}
    BY <1>2, <2>1 DEF SlotHooks
  <2> QED BY <2>2 DEF SlotTold
<1>5. QuestionMarked(s)'
  <2> SUFFICES ASSUME s \in Codex, sess[s] = "asking", since[s] <= Hour, ~robbed[s]
               PROVE  Pending(s, {"PermissionRequest"})' \/ (marker'[s] # Absent /\ marker'[s] <= since[s])
    BY <1>1 DEF QuestionMarked
  <2>1. CASE h.event = "PermissionRequest"
    <3>1. marker'[s] = 0
      BY <1>2, <2>1 DEF Marks
    <3>2. since[s] >= 0
      BY DEF TypeOK
    <3> QED BY <3>1, <3>2, Stamps, Bounds
  <2>2. CASE h.event # "PermissionRequest"
    <3>1. marker'[s] = marker[s]
      BY <1>2, <2>2, FitAt DEF Marks
    <3>2. Pending(s, {"PermissionRequest"}) => Pending(s, {"PermissionRequest"})'
      BY <1>1, <2>2 DEF Pending
    <3> QED BY <3>1, <3>2 DEF Session, QuestionMarked
  <2> QED BY <2>1, <2>2
<1>6. AnswerClears(s)'
  <2>1. s \in Claude => marker'[s] = Absent
    <3>1. s \in Claude => h.event # "PermissionRequest"
      BY FitAt, DisjointTools
    <3> QED BY <1>2, <3>1 DEF Marks, Session, AnswerClears
  <2>2. ASSUME sess[s] \in {"working", "yours", "failed"}
        PROVE  marker'[s] = Absent \/ Pending(s, AnswerEvents)'
    <3>1. h.event # "PermissionRequest"
      BY <2>2, FitAt
    <3>2. CASE h.event \in AnswerEvents
      BY <1>2, <3>1, <3>2 DEF Marks
    <3>3. CASE h.event \notin AnswerEvents
      <4>1. marker'[s] = marker[s]
        BY <1>2, <3>1, <3>3 DEF Marks
      <4>2. Pending(s, AnswerEvents) => Pending(s, AnswerEvents)'
        BY <1>1, <3>3 DEF Pending
      <4> QED BY <2>2, <4>1, <4>2 DEF Session, AnswerClears
    <3> QED BY <3>2, <3>3
  <2> QED BY <1>1, <2>1, <2>2 DEF AnswerClears
<1>7. EndedGone(s)'
  BY <1>1, <1>2, FitAt DEF EndedGone
<1>8. AgentKept(s)'
  <2>1. Pending(s, {"SubagentStart"}) => Pending(s, {"SubagentStart"})'
    BY <1>1, <1>2, EventNames DEF Pending
  <2> QED BY <1>1, <1>2, <2>1 DEF Session, AgentKept
<1> QED BY <1>3, <1>4, <1>5, <1>6, <1>7, <1>8 DEF Session

\* The second step: the slot is the last hook's, and all of them tell the same.
LEMMA WritesSession ==
  ASSUME TypeOK, NEW s \in Sids, NEW h \in hooks[s], HookWrites(s, h), Session(s),
         UNCHANGED <<tools, logs, daemon, acts, faults, stepped, met, armed, robbed>>
  PROVE  Session(s)'
<1>1. /\ h \in Hooks /\ h.event \in Events /\ h.step \in {1, 2}
      /\ UNCHANGED <<sess, since, works, hooked, logAge, robbed, stepped, inside>>
      /\ \A g \in hooks'[s] : g \in hooks[s] \/ (g.event = h.event /\ g.step = 2)
      /\ \A g \in hooks[s] : g = h \/ g \in hooks'[s]
  BY HookFacts
<1>2. /\ h.event \in SlotEvents /\ h.step = 2
      /\ slot'[s] = Says(h.event) /\ slotAge'[s] = 0 /\ slotMine'[s] = Live(s)
      /\ UNCHANGED <<marker, tomb, agent>>
  BY DEF HookWrites, TypeOK
<1>3. HooksFit(s)' /\ Unhooked(s)' /\ hooked[s]
  BY <1>1, HookFit
<1>4. \A es : Pending(s, es) => Pending(s, es)'
  BY <1>1, <1>2 DEF Pending
<1>5. SlotTold(s)'
  <2>1. since[s] >= 0
    BY DEF TypeOK
  <2>2. Live(s)' = Live(s) /\ Telling(s)' = Telling(s)
    BY <1>1 DEF Live, Telling
  <2>3. Says(h.event) \in Telling(s)
    BY <1>2, FitAt DEF Telling
  <2> QED BY <1>1, <1>2, <2>1, <2>2, <2>3, Stamps, Bounds DEF SlotTold
<1>6. QuestionMarked(s)' /\ AnswerClears(s)'
  BY <1>1, <1>2, <1>4 DEF Session, QuestionMarked, AnswerClears
<1>7. EndedGone(s)'
  BY <1>1, <1>2, FitAt DEF EndedGone
<1>8. AgentKept(s)'
  BY <1>1, <1>2, <1>4 DEF Session, AgentKept
<1> QED BY <1>3, <1>5, <1>6, <1>7, <1>8 DEF Session

\* The hook of a session that ends: its files first, the tombstone next.
LEMMA EndSession ==
  ASSUME TypeOK, NotBack, NEW s \in Sids, NEW h \in hooks[s], HookRemoves(s, h) \/ HookBuries(s, h), Session(s),
         UNCHANGED <<tools, logs, daemon, acts, faults, stepped, met, armed, robbed>>
  PROVE  Session(s)'
<1>1. /\ h \in Hooks /\ h.event \in Events /\ h.step \in {1, 2}
      /\ UNCHANGED <<sess, since, works, hooked, logAge, robbed, stepped, inside>>
      /\ \A g \in hooks'[s] : g \in hooks[s] \/ (g.event = h.event /\ g.step = 2)
      /\ \A g \in hooks[s] : g = h \/ g \in hooks'[s]
  BY HookFacts
<1>2. HooksFit(s)' /\ Unhooked(s)' /\ hooked[s]
  BY <1>1, HookFit
<1>3. h.event = "SessionEnd" /\ sess[s] \in {"closed", "killed"}
  BY FitAt DEF HookRemoves, HookBuries
<1>4. SlotTold(s)' /\ QuestionMarked(s)'
  BY <1>1, <1>3 DEF SlotTold, QuestionMarked, Live
<1>5. AnswerClears(s)'
  <2>1. marker'[s] \in {marker[s], Absent}
    BY DEF HookRemoves, HookBuries, TypeOK
  <2> QED BY <1>1, <1>3, <2>1 DEF Session, AnswerClears
<1>6. EndedGone(s)'
  <2>1. CASE HookRemoves(s, h)
    <3>1. slotAge'[s] = Absent
      BY <2>1 DEF HookRemoves, TypeOK
    <3>2. hooks'[s] # {}
      BY <2>1 DEF HookRemoves, GoesOn, TypeOK
    <3> QED BY <3>1, <3>2 DEF EndedGone
  <2>2. CASE HookBuries(s, h)
    <3>1. slotAge' = slotAge /\ tomb'[s] = 0 /\ h.step = 2
      BY <2>2 DEF HookBuries, TypeOK
    <3>2. Pending(s, {"SessionEnd"}) => Pending(s, {"SessionEnd"})'
      BY <1>1, <3>1 DEF Pending
    <3>3. ~stepped => logAge[s] = Absent \/ logAge[s] >= 0
      BY DEF NotBack
    <3> QED BY <1>1, <3>1, <3>2, <3>3, Stamps, Bounds DEF Session, EndedGone
  <2> QED BY <2>1, <2>2
<1>7. AgentKept(s)'
  BY <1>1, <1>3 DEF Session, AgentKept
<1> QED BY <1>2, <1>4, <1>5, <1>6, <1>7 DEF Session

\* The hooks of an agent.
LEMMA CountsSession ==
  ASSUME TypeOK, NEW s \in Sids, NEW h \in hooks[s], HookCounts(s, h), Session(s),
         UNCHANGED <<tools, logs, daemon, acts, faults, stepped, met, armed, robbed>>
  PROVE  Session(s)'
<1>1. /\ h \in Hooks /\ h.event \in Events /\ h.step \in {1, 2}
      /\ UNCHANGED <<sess, since, works, hooked, logAge, robbed, stepped, inside>>
      /\ \A g \in hooks'[s] : g \in hooks[s] \/ (g.event = h.event /\ g.step = 2)
      /\ \A g \in hooks[s] : g = h \/ g \in hooks'[s]
  BY HookFacts
<1>2. HooksFit(s)' /\ Unhooked(s)' /\ hooked[s]
  BY <1>1, HookFit
<1>3. h.event \in {"SubagentStart", "SubagentStop"} /\ sess[s] \in {"working", "killed"}
  BY FitAt DEF HookCounts
<1>4. /\ UNCHANGED <<slot, slotAge, slotMine, marker, tomb>>
      /\ agent'[s] = IF h.event = "SubagentStart" THEN 0 ELSE Absent
      /\ hooks'[s] = hooks[s] \ {h}
  BY DEF HookCounts, Ends, TypeOK
<1>5. SlotTold(s)'
  <2>1. SlotHooks(s)' = SlotHooks(s)
    BY <1>3, <1>4, EventNames DEF SlotHooks
  <2> QED BY <1>1, <1>4, <2>1 DEF Session, SlotTold, Live, Telling
<1>6. QuestionMarked(s)' /\ EndedGone(s)'
  BY <1>1, <1>3 DEF QuestionMarked, EndedGone
<1>7. AnswerClears(s)'
  <2>1. Pending(s, AnswerEvents) => Pending(s, AnswerEvents)'
    BY <1>1, <1>3, EventNames DEF Pending
  <2> QED BY <1>1, <1>4, <2>1 DEF Session, AnswerClears
<1>8. AgentKept(s)'
  <2> SUFFICES ASSUME works[s] \in 0..AgentHour
               PROVE  /\ sess[s] \in {"working", "asking"} /\ hooked[s]
                      /\ agent'[s] # Absent /\ agent'[s] <= works[s]
    BY <1>1 DEF AgentKept
  <2>1. h.event = "SubagentStart"
    BY <1>3, WorksRange DEF Session, HooksFit
  <2>2. agent'[s] = 0 /\ 0 <= works[s]
    BY <1>4, <2>1, WorksRange
  <2> QED BY <2>2, Stamps, Bounds DEF Session, AgentKept
<1> QED BY <1>2, <1>5, <1>6, <1>7, <1>8 DEF Session

LEMMA HookSession ==
  ASSUME TypeOK, NotBack, NEW s \in Sids, HookRuns(s), \A t \in Sids : Session(t)
  PROVE  \A t \in Sids : Session(t)'
<1>1. UNCHANGED <<tools, logs, daemon, acts, faults, stepped, met, armed, robbed>>
  BY DEF HookRuns
<1>2. PICK h \in hooks[s] : HookMarks(s, h) \/ HookWrites(s, h) \/ HookRemoves(s, h) \/ HookBuries(s, h) \/ HookCounts(s, h)
  BY DEF HookRuns
<1>3. ASSUME NEW t \in Sids \ {s} PROVE Session(t)'
  <2>1. Same(t) /\ stepped' = stepped
    BY <1>1, <1>2, HookFacts
  <2> QED BY <2>1, SameSession
<1>4. Session(s)'
  BY <1>1, <1>2, MarksSession, WritesSession, EndSession, CountsSession
<1> QED BY <1>3, <1>4

-----------------------------------------------------------------------------
(* What the files say of a session, through the polls and in time.           *)

\* A tombstone is swept only when no log can claim the session any more.
LEMMA LoadSession ==
  ASSUME TypeOK, NEW d, NEW from, NEW to, LoadSlots(d, from, to), NEW t \in Sids, Session(t)
  PROVE  Session(t)'
<1>1. UNCHANGED <<sess, since, works, hooked, hooks, slot, slotAge, slotMine, marker, agent, logAge, robbed, stepped>>
  BY DEF LoadSlots, tools, logs
<1>2. HooksFit(t)' /\ Unhooked(t)'
  BY <1>1 DEF Session, HooksFit, Unhooked
<1>3. SlotTold(t)'
  BY <1>1 DEF Session, SlotTold, Live, SlotHooks, Telling
<1>4. QuestionMarked(t)' /\ AnswerClears(t)' /\ AgentKept(t)'
  BY <1>1 DEF Session, QuestionMarked, AnswerClears, AgentKept, Pending
<1>5. EndedGone(t)'
  <2>1. tomb'[t] = tomb[t] \/ tomb[t] > Hour
    BY DEF LoadSlots, SweepsTomb
  <2>2. tomb[t] \in Int /\ logAge[t] \in Int
    BY Stamps DEF TypeOK
  <2>3. /\ sess[t] = "closed" /\ hooked[t] => Pending(t, {"SessionEnd"}) \/ slotAge[t] = Absent
        /\ sess[t] = "closed" /\ hooked[t] /\ hooks[t] = {} /\ ~stepped =>
             \/ logAge[t] = Absent \/ logAge[t] > Hour
             \/ tomb[t] # Absent /\ tomb[t] <= logAge[t]
    BY DEF Session, EndedGone
  <2>4. sess[t] = "closed" /\ hooked[t] /\ hooks[t] = {} /\ ~stepped =>
          \/ logAge[t] = Absent \/ logAge[t] > Hour
          \/ tomb'[t] # Absent /\ tomb'[t] <= logAge[t]
    BY <2>1, <2>2, <2>3, Bounds
  <2> QED BY <1>1, <2>3, <2>4 DEF EndedGone, Pending
<1> QED BY <1>2, <1>3, <1>4, <1>5 DEF Session

\* What the end of a poll does to the files of one session.
LEMMA JudgeFacts ==
  ASSUME TypeOK, NEW d, NEW from, NEW to, Judge(d, from, to), NEW t \in Sids
  PROVE  /\ UNCHANGED <<sess, since, hooked, inside, reused, hooks, tomb, logAge, stepped, met, armed, trusted, up, calm>>
         /\ (t \in d /\ Collected(t)) =>
              /\ slot'[t] = "" /\ slotAge'[t] = Absent /\ slotMine'[t] = FALSE /\ marker'[t] = Absent /\ agent'[t] = Absent
              /\ works'[t] = IF works[t] # Absent THEN AgentHour + 1 ELSE Absent
              /\ robbed'[t] = (robbed[t] \/ slotAge[t] # seenAge[t] \/ hooks[t] # {})
         /\ ~(t \in d /\ Collected(t)) =>
              /\ slot'[t] = slot[t] /\ slotAge'[t] = slotAge[t] /\ slotMine'[t] = slotMine[t] /\ marker'[t] = marker[t]
              /\ works'[t] = works[t] /\ robbed'[t] = robbed[t]
              /\ agent'[t] = agent[t] \/ (agent'[t] = Absent /\ agent[t] > AgentHour)
<1>1. UNCHANGED <<sess, since, hooked, inside, reused, hooks, tomb, logAge, stepped, met, armed, trusted, up, calm>>
  BY DEF Judge, logs
<1>2. /\ slotMine[t] \in BOOLEAN /\ robbed[t] \in BOOLEAN
  BY DEF TypeOK
<1>3. /\ slot'[t] = IF t \in d /\ Collected(t) THEN "" ELSE slot[t]
      /\ slotAge'[t] = IF t \in d /\ Collected(t) THEN Absent ELSE slotAge[t]
      /\ marker'[t] = IF t \in d /\ Collected(t) THEN Absent ELSE marker[t]
      /\ agent'[t] = IF t \in d /\ (Collected(t) \/ (Judged(t) # "" /\ SweepsAgent(agent[t])))
                       THEN Absent ELSE agent[t]
      /\ works'[t] = IF t \in d /\ Collected(t) /\ works[t] # Absent THEN AgentHour + 1 ELSE works[t]
  BY DEF Judge
<1>4. slotMine'[t] = (slotMine[t] /\ ~(t \in d /\ Collected(t)))
  BY DEF Judge
<1>5. robbed'[t] = (robbed[t] \/ (t \in d /\ Collected(t) /\ (slotAge[t] # seenAge[t] \/ hooks[t] # {})))
  BY DEF Judge
<1>6. CASE t \in d /\ Collected(t)
  <2>1. slotMine'[t] = FALSE
    BY <1>4, <1>6
  <2>2. robbed'[t] = (robbed[t] \/ slotAge[t] # seenAge[t] \/ hooks[t] # {})
    BY <1>5, <1>6
  <2> QED BY <1>1, <1>3, <1>6, <2>1, <2>2
<1>7. CASE ~(t \in d /\ Collected(t))
  <2>1. slotMine'[t] = slotMine[t]
    BY <1>2, <1>4, <1>7
  <2>2. robbed'[t] = robbed[t]
    BY <1>2, <1>5, <1>7
  <2>3. agent'[t] = agent[t] \/ (agent'[t] = Absent /\ agent[t] > AgentHour)
    BY <1>3, <1>7 DEF SweepsAgent
  <2> QED BY <1>1, <1>3, <1>7, <2>1, <2>2, <2>3
<1> QED BY <1>6, <1>7

\* A session is collected only when its slot is an hour old, or robbed of a newer one.
LEMMA JudgeSession ==
  ASSUME TypeOK, NEW d, NEW from, NEW to, Judge(d, from, to), NEW t \in Sids, Session(t)
  PROVE  Session(t)'
<1>1. UNCHANGED <<sess, since, hooked, hooks, tomb, logAge, stepped>>
  BY JudgeFacts
<1>2. CASE t \in d /\ Collected(t)
  <2>1. /\ slotAge'[t] = Absent /\ marker'[t] = Absent /\ agent'[t] = Absent
        /\ works'[t] = IF works[t] # Absent THEN AgentHour + 1 ELSE Absent
        /\ robbed'[t] = (robbed[t] \/ slotAge[t] # seenAge[t] \/ hooks[t] # {})
    BY <1>2, JudgeFacts
  <2>2. seenAge[t] > Hour /\ seenAge[t] \in Int
    BY <1>2, Stamps DEF Collected, Sweeps, TypeOK
  <2>3. HooksFit(t)' /\ Unhooked(t)'
    BY <1>1, <2>1, WorksRange DEF Session, HooksFit, Unhooked
  <2>4. (Live(t) /\ since[t] <= Hour) => robbed'[t]
    <3> SUFFICES ASSUME Live(t), since[t] <= Hour, ~robbed'[t] PROVE FALSE
      OBVIOUS
    <3>1. ~robbed[t] /\ slotAge[t] = seenAge[t] /\ hooks[t] = {}
      BY <2>1
    <3>2. slotAge[t] <= since[t]
      BY <3>1 DEF Session, SlotTold, SlotHooks
    <3>3. since[t] \in Int
      BY DEF TypeOK
    <3> QED BY <2>2, <3>1, <3>2, <3>3, Bounds
  <2>5. SlotTold(t)' /\ QuestionMarked(t)'
    BY <1>1, <2>4 DEF SlotTold, QuestionMarked, Live
  <2>6. AnswerClears(t)'
    BY <2>1 DEF AnswerClears
  <2>7. EndedGone(t)'
    BY <1>1, <2>1 DEF Session, EndedGone
  <2>8. AgentKept(t)'
    BY <2>1, WorksRange DEF AgentKept
  <2> QED BY <2>3, <2>5, <2>6, <2>7, <2>8 DEF Session
<1>3. CASE ~(t \in d /\ Collected(t))
  <2>1. /\ slot'[t] = slot[t] /\ slotAge'[t] = slotAge[t] /\ slotMine'[t] = slotMine[t] /\ marker'[t] = marker[t]
        /\ works'[t] = works[t] /\ robbed'[t] = robbed[t]
        /\ agent'[t] = agent[t] \/ (agent'[t] = Absent /\ agent[t] > AgentHour)
    BY <1>3, JudgeFacts
  <2>2. HooksFit(t)' /\ Unhooked(t)'
    BY <1>1, <2>1 DEF Session, HooksFit, Unhooked
  <2>3. SlotTold(t)'
    BY <1>1, <2>1 DEF Session, SlotTold, Live, SlotHooks, Telling
  <2>4. QuestionMarked(t)' /\ AnswerClears(t)' /\ EndedGone(t)'
    BY <1>1, <2>1 DEF Session, QuestionMarked, AnswerClears, EndedGone, Pending
  <2>5. AgentKept(t)'
    <3> SUFFICES ASSUME works[t] \in 0..AgentHour
                 PROVE  /\ sess[t] \in {"working", "asking"} /\ hooked[t]
                        /\ Pending(t, {"SubagentStart"}) \/ (agent'[t] # Absent /\ agent'[t] <= works[t])
      BY <1>1, <2>1 DEF AgentKept, Pending
    <3>1. works[t] <= AgentHour /\ works[t] \in Int
      BY WorksRange
    <3>2. agent[t] \in Int
      BY AgentAges DEF TypeOK
    <3> QED BY <2>1, <3>1, <3>2, Bounds DEF Session, AgentKept
  <2> QED BY <2>2, <2>3, <2>4, <2>5 DEF Session
<1> QED BY <1>2, <1>3

LEMMA DaemonTurnSession ==
  ASSUME DaemonStops \/ DaemonStarts, NEW t \in Sids, Session(t)
  PROVE  Session(t)'
<1>1. Same(t) /\ stepped' = stepped
  BY DEF DaemonStops, DaemonStarts, Same, tools, files, logs
<1> QED BY <1>1, SameSession

LEMMA TickFacts ==
  ASSUME TypeOK, Tick, NEW t \in Sids
  PROVE  /\ hooks[t] = {}
         /\ UNCHANGED <<sess, hooked, inside, reused, hooks, slot, slotMine, stepped, met, armed, robbed, trusted, up>>
         /\ since'[t] = IF since[t] < Past THEN since[t] + 1 ELSE since[t]
         /\ slotAge[t] = Absent => slotAge'[t] = Absent
         /\ slotAge[t] # Absent => slotAge'[t] # Absent /\ slotAge'[t] <= slotAge[t] + 1
         /\ marker[t] = Absent => marker'[t] = Absent
         /\ marker[t] # Absent => marker'[t] # Absent /\ marker'[t] <= marker[t] + 1
         /\ since[t] \in Nat /\ {slotAge[t], slotAge'[t], marker[t], marker'[t]} \subseteq Int
<1>1. UNCHANGED <<sess, hooked, inside, reused, hooks, slot, slotMine, stepped, met, armed, robbed, trusted, up>> /\ hooks[t] = {}
  BY DEF Tick, NoHooks
<1>2. since[t] \in Nat /\ since[t] # Absent
  BY Stamps, Bounds DEF TypeOK
<1>3. since'[t] = IF since[t] < Past THEN since[t] + 1 ELSE since[t]
  BY <1>2 DEF Tick, Aged
<1>4. /\ slotAge' = Aged(slotAge, Cap) /\ marker' = Aged(marker, Cap)
      /\ slotAge \in [Sids -> Ages] /\ marker \in [Sids -> Ages]
  BY DEF Tick, TypeOK
<1>5. /\ slotAge[t] = Absent => slotAge'[t] = Absent
      /\ slotAge[t] # Absent => slotAge'[t] # Absent /\ slotAge'[t] <= slotAge[t] + 1
      /\ slotAge'[t] \in Ages /\ slotAge[t] \in Ages
  BY <1>4, AgedType
<1>6. /\ marker[t] = Absent => marker'[t] = Absent
      /\ marker[t] # Absent => marker'[t] # Absent /\ marker'[t] <= marker[t] + 1
      /\ marker'[t] \in Ages /\ marker[t] \in Ages
  BY <1>4, AgedType
<1> QED BY <1>1, <1>2, <1>3, <1>5, <1>6, Stamps

\* Files age no faster than the session's own last event.
LEMMA TickSession ==
  ASSUME TypeOK, Tick, NEW t \in Sids, Session(t)
  PROVE  Session(t)'
<1>1. /\ hooks[t] = {}
      /\ UNCHANGED <<sess, hooked, hooks, slot, slotMine, stepped, robbed>>
      /\ since'[t] = IF since[t] < Past THEN since[t] + 1 ELSE since[t]
      /\ slotAge[t] = Absent => slotAge'[t] = Absent
      /\ slotAge[t] # Absent => slotAge'[t] # Absent /\ slotAge'[t] <= slotAge[t] + 1
      /\ marker[t] = Absent => marker'[t] = Absent
      /\ marker[t] # Absent => marker'[t] # Absent /\ marker'[t] <= marker[t] + 1
      /\ since[t] \in Nat /\ {slotAge[t], slotAge'[t], marker[t], marker'[t]} \subseteq Int
  BY TickFacts
<1>2. /\ agent[t] = Absent => agent'[t] = Absent
      /\ agent[t] # Absent => agent'[t] # Absent /\ agent'[t] <= agent[t] + 1
      /\ agent[t] \in Int /\ agent'[t] \in Int
  <2>1. agent' = Aged(agent, AgentCap) /\ agent \in [Sids -> (-Back)..AgentCap \cup {Absent}]
    BY DEF Tick, TypeOK
  <2> QED BY <2>1, AgentAges
<1>3. works'[t] = IF works[t] # Absent /\ since[t] >= Hour THEN AgentHour + 1
                  ELSE IF works[t] # Absent /\ works[t] < AgentHour + 1 THEN works[t] + 1 ELSE works[t]
  BY DEF Tick, Aged
<1>4. works[t] = Absent \/ (works[t] \in Int /\ 0 <= works[t] /\ works[t] <= AgentHour + 1)
  BY Bounds DEF TypeOK
<1>5. since'[t] <= Hour => since'[t] = since[t] + 1 /\ since[t] <= Hour
  BY <1>1, Stamps, Bounds
<1>6. works'[t] \in 0..AgentHour => works[t] \in 0..AgentHour /\ works'[t] = works[t] + 1
  BY <1>3, <1>4, WorksRange, Bounds
<1>7. HooksFit(t)'
  BY <1>1 DEF HooksFit
<1>8. Unhooked(t)'
  BY <1>1, <1>2, <1>6, Stamps, Bounds DEF Session, Unhooked
<1>9. SlotTold(t)'
  <2> SUFFICES ASSUME Live(t), since'[t] <= Hour, ~robbed[t]
               PROVE  /\ slotAge'[t] # Absent /\ slotAge'[t] <= since'[t] /\ slotMine[t]
                      /\ slot[t] \in Telling(t)
    BY <1>1 DEF SlotTold, Live, Telling
  <2>1. SlotHooks(t) = {}
    BY <1>1 DEF SlotHooks
  <2>2. /\ slotAge[t] # Absent /\ slotAge[t] <= since[t] /\ slotMine[t]
        /\ slot[t] \in Telling(t)
    BY <1>5, <2>1 DEF Session, SlotTold
  <2> QED BY <1>1, <1>5, <2>2
<1>10. QuestionMarked(t)'
  <2> SUFFICES ASSUME t \in Codex, sess[t] = "asking", since'[t] <= Hour, ~robbed[t]
               PROVE  marker'[t] # Absent /\ marker'[t] <= since'[t]
    BY <1>1 DEF QuestionMarked
  <2>1. marker[t] # Absent /\ marker[t] <= since[t]
    BY <1>1, <1>5 DEF Session, QuestionMarked, Pending
  <2> QED BY <1>1, <1>5, <2>1
<1>11. AnswerClears(t)'
  BY <1>1 DEF Session, AnswerClears, Pending
<1>12. EndedGone(t)'
  <2> SUFFICES ASSUME sess[t] = "closed", hooked[t]
               PROVE  /\ slotAge'[t] = Absent
                      /\ ~stepped => \/ logAge'[t] = Absent \/ logAge'[t] > Hour
                                     \/ tomb'[t] # Absent /\ tomb'[t] <= logAge'[t]
    BY <1>1 DEF EndedGone
  <2>1. slotAge[t] = Absent /\ (~stepped => \/ logAge[t] = Absent \/ logAge[t] > Hour
                                            \/ tomb[t] # Absent /\ tomb[t] <= logAge[t])
    BY <1>1 DEF Session, EndedGone, Pending
  <2>2. /\ tomb' = Aged(tomb, Cap) /\ logAge' = Aged(logAge, Cap)
        /\ tomb[t] \in Ages /\ logAge[t] \in Ages
    BY DEF Tick, TypeOK
  <2>3. /\ tomb'[t] = IF tomb[t] # Absent /\ tomb[t] < Cap THEN tomb[t] + 1 ELSE tomb[t]
        /\ logAge'[t] = IF logAge[t] # Absent /\ logAge[t] < Cap THEN logAge[t] + 1 ELSE logAge[t]
    BY <2>2 DEF Aged
  <2>4. tomb[t] \in Int /\ tomb[t] <= Cap /\ logAge[t] \in Int /\ Cap \in Int /\ Hour \in Int
    <3>1. tomb[t] \in Int /\ logAge[t] \in Int
      BY <2>2, Stamps
    <3>2. Cap \in Int /\ Hour \in Int /\ Absent < Cap
      BY Stamps, Bounds
    <3>3. tomb[t] = Absent \/ tomb[t] <= Cap
      BY <2>2, Stamps
    <3> QED BY <3>1, <3>2, <3>3
  <2>5. logAge[t] = Absent => logAge'[t] = Absent
    BY <2>3
  <2>6. logAge[t] > Hour => logAge'[t] > Hour
    BY <2>3, <2>4
  <2>7. tomb[t] # Absent /\ tomb[t] <= logAge[t] /\ logAge[t] # Absent => tomb'[t] <= logAge'[t]
    BY <2>3, <2>4
  <2>8. tomb[t] # Absent => tomb'[t] # Absent
    BY <2>2, AgedType DEF Tick, TypeOK
  <2> QED BY <1>1, <2>1, <2>5, <2>6, <2>7, <2>8
<1>13. AgentKept(t)'
  <2> SUFFICES ASSUME works'[t] \in 0..AgentHour
               PROVE  /\ sess[t] \in {"working", "asking"} /\ hooked[t]
                      /\ agent'[t] # Absent /\ agent'[t] <= works'[t]
    BY <1>1 DEF AgentKept
  <2>1. /\ sess[t] \in {"working", "asking"} /\ hooked[t]
        /\ agent[t] # Absent /\ agent[t] <= works[t] /\ works'[t] = works[t] + 1 /\ works[t] \in Int
    BY <1>1, <1>6, WorksRange DEF Session, AgentKept, Pending
  <2> QED BY <1>2, <2>1
<1> QED BY <1>7, <1>8, <1>9, <1>10, <1>11, <1>12, <1>13 DEF Session

LEMMA StepBackFacts ==
  ASSUME TypeOK, NotBack, StepBack, NEW t \in Sids
  PROVE  /\ UNCHANGED <<sess, since, works, hooked, inside, reused, hooks, slot, slotMine, met, armed, robbed, trusted, up, phase>>
         /\ stepped' = TRUE
         /\ slotAge[t] = Absent <=> slotAge'[t] = Absent
         /\ slotAge[t] # Absent => slotAge'[t] <= slotAge[t]
         /\ marker[t] = Absent <=> marker'[t] = Absent
         /\ marker[t] # Absent => marker'[t] <= marker[t]
         /\ agent[t] = Absent <=> agent'[t] = Absent
         /\ agent[t] # Absent => agent'[t] <= agent[t]
         /\ {slotAge[t], slotAge'[t], marker[t], marker'[t], agent[t], agent'[t]} \subseteq Int
<1>1. /\ UNCHANGED <<sess, since, works, hooked, inside, reused, hooks, slot, slotMine, met, armed, robbed, trusted, up, phase>>
      /\ stepped' = TRUE /\ ~stepped
  BY DEF StepBack, tools, daemon
<1>2. \A s \in Sids : \A a \in {slotAge[s], marker[s], tomb[s], agent[s], logAge[s]} : a = Absent \/ a >= 0
  BY <1>1 DEF NotBack
<1>3. /\ slotAge' = BackAll(slotAge) /\ marker' = BackAll(marker) /\ agent' = BackAll(agent)
      /\ slotAge \in [Sids -> Ages] /\ marker \in [Sids -> Ages] /\ agent \in [Sids -> (-Back)..AgentCap \cup {Absent}]
  BY DEF StepBack, TypeOK
<1>4. /\ slotAge[t] = Absent <=> slotAge'[t] = Absent
      /\ slotAge[t] # Absent => slotAge'[t] <= slotAge[t]
      /\ slotAge[t] \in Int /\ slotAge'[t] \in Int
  BY <1>2, <1>3, BackType, Stamps
<1>5. /\ marker[t] = Absent <=> marker'[t] = Absent
      /\ marker[t] # Absent => marker'[t] <= marker[t]
      /\ marker[t] \in Int /\ marker'[t] \in Int
  BY <1>2, <1>3, BackType, Stamps
<1>6. /\ agent[t] = Absent <=> agent'[t] = Absent
      /\ agent[t] # Absent => agent'[t] <= agent[t]
      /\ agent[t] \in Int
  BY <1>2, <1>3, AgentAges
<1>7. agent'[t] \in Int
  <2>1. agent' \in [Sids -> (-Back)..AgentCap \cup {Absent}]
    BY <1>2, <1>3, AgentAges
  <2> QED BY <2>1, AgentAges
<1> QED BY <1>1, <1>4, <1>5, <1>6, <1>7

\* With the clock put back, files look newer, never gone.
LEMMA StepBackSession ==
  ASSUME TypeOK, NotBack, StepBack, NEW t \in Sids, Session(t)
  PROVE  Session(t)'
<1>1. /\ UNCHANGED <<sess, since, works, hooked, hooks, slot, slotMine, robbed>>
      /\ stepped' = TRUE
      /\ slotAge[t] = Absent <=> slotAge'[t] = Absent
      /\ slotAge[t] # Absent => slotAge'[t] <= slotAge[t]
      /\ marker[t] = Absent <=> marker'[t] = Absent
      /\ marker[t] # Absent => marker'[t] <= marker[t]
      /\ agent[t] = Absent <=> agent'[t] = Absent
      /\ agent[t] # Absent => agent'[t] <= agent[t]
      /\ {slotAge[t], slotAge'[t], marker[t], marker'[t], agent[t], agent'[t]} \subseteq Int
  BY StepBackFacts
<1>2. since[t] \in Int
  BY DEF TypeOK
<1>3. HooksFit(t)' /\ Unhooked(t)'
  BY <1>1 DEF Session, HooksFit, Unhooked
<1>4. SlotTold(t)'
  BY <1>1, <1>2 DEF Session, SlotTold, Live, SlotHooks, Telling
<1>5. QuestionMarked(t)'
  BY <1>1, <1>2 DEF Session, QuestionMarked, Pending
<1>6. AnswerClears(t)' /\ EndedGone(t)'
  BY <1>1 DEF Session, AnswerClears, EndedGone, Pending
<1>7. AgentKept(t)'
  BY <1>1, WorksRange DEF Session, AgentKept, Pending
<1> QED BY <1>3, <1>4, <1>5, <1>6, <1>7 DEF Session

-----------------------------------------------------------------------------
(* What trust in pids rests on.                                              *)

Living(r) == Live(r) /\ met[r] /\ SlotHooks(r) = {} /\ HasSlot(r)

\* A session with a slot had it before, no older and its own, or has a new one.
Newer(r) ==
  Living(r)' => \/ slotAge'[r] <= 0
                \/ Living(r) /\ slotAge'[r] <= slotAge[r] /\ (slotMine'[r] => slotMine[r])

\* Trust stays founded when slots are only written anew or taken away.
LEMMA NewerKeeps ==
  ASSUME TypeOK, TypeOK', UNCHANGED <<phase, trusted, armed, inside>>, calm' = FALSE,
         \A r \in Sids : Newer(r), \A r \in Sids : Believed(r), Trusting
  PROVE  (\A r \in Sids : Believed(r)') /\ Trusting'
<1>1. \A r \in Sids : slotAge[r] \in Int /\ slotAge'[r] \in Int
  BY Stamps DEF TypeOK
<1>2. ASSUME NEW r \in Sids PROVE Believed(r)'
  <2> SUFFICES ASSUME r \in inside, ~armed, Living(r)', trusted
               PROVE  slotAge'[r] <= IF Loaded(r) THEN 0 ELSE 1
    BY DEF Believed, Living, Loaded
  <2>1. CASE slotAge'[r] <= 0
    BY <1>1, <2>1
  <2>2. CASE Living(r) /\ slotAge'[r] <= slotAge[r]
    <3>1. slotAge[r] <= IF Loaded(r) THEN 0 ELSE 1
      BY <2>2 DEF Believed, Living
    <3> QED BY <1>1, <2>2, <3>1
  <2> QED BY <2>1, <2>2 DEF Newer
<1>3. Trusting'
  <2> SUFFICES ASSUME NEW r \in Sids, Witness(r)'
               PROVE  /\ r \in Codex /\ phase = "rest" => trusted \/ slotAge'[r] <= 1
                      /\ r \in Codex /\ phase \in {"codex", "done"} => trusted \/ slotAge'[r] <= 0
    BY DEF Trusting
  <2>1. Living(r)' /\ slotMine'[r] /\ r \notin inside
    BY DEF Witness, Living
  <2>2. CASE slotAge'[r] <= 0
    BY <1>1, <2>2
  <2>3. CASE Living(r) /\ slotAge'[r] <= slotAge[r] /\ slotMine[r]
    <3>1. Witness(r)
      BY <2>1, <2>3 DEF Living, Witness
    <3>2. /\ r \in Codex /\ phase = "rest" => trusted \/ slotAge[r] <= 1
          /\ r \in Codex /\ phase \in {"codex", "done"} => trusted \/ slotAge[r] <= 0
      BY <3>1 DEF Trusting
    <3> QED BY <1>1, <2>3, <3>2
  <2> QED BY <2>1, <2>2, <2>3 DEF Newer
<1> QED BY <1>2, <1>3

LEMMA SameNewer ==
  ASSUME TypeOK, NEW r \in Sids, Same(r), met'[r] = met[r]
  PROVE  Newer(r)
<1>1. slotAge[r] \in Int
  BY Stamps DEF TypeOK
<1> QED BY <1>1 DEF Newer, Same, Living, Live, SlotHooks, HasSlot

LEMMA EventTrust ==
  ASSUME TypeOK, TypeOK', NEW s \in Sids, NEW st \in EventStates, NEW es \in SUBSET Events, Event(s, st, es),
         \A r \in Sids : Session(r), \A r \in Sids : Believed(r), Trusting
  PROVE  (\A r \in Sids : Believed(r)') /\ Trusting'
<1>1. Moves(s, st, es)
  BY DEF Event
<1>2. UNCHANGED <<phase, trusted, armed, inside>> /\ calm' = FALSE
  BY <1>1 DEF Moves, daemon
<1>3. ASSUME NEW r \in Sids \ {s} PROVE Newer(r)
  BY EventFacts, SameNewer
<1>4. Newer(s)
  <2>1. CASE st = "closed"
    BY <2>1, EventFacts DEF Newer, Living, Live
  <2>2. CASE ~hooked[s]
    BY <2>2, EventFacts DEF Newer, Living, HasSlot, Session, Unhooked
  <2>3. CASE hooked[s] /\ st # "closed"
    <3>1. PICK e \in es : e \in SlotEvents
      BY <2>3 DEF Event
    <3>2. hooks'[s] = {[event |-> x, step |-> 1] : x \in es}
      BY <2>3, EventFacts
    <3>3. [event |-> e, step |-> 1] \in hooks'[s]
      BY <3>2
    <3>4. SlotHooks(s)' # {}
      BY <3>1, <3>3 DEF SlotHooks
    <3> QED BY <3>4 DEF Newer, Living
  <2> QED BY <2>1, <2>2, <2>3
<1>5. \A r \in Sids : Newer(r)
  BY <1>3, <1>4
<1> QED BY <1>2, <1>5, NewerKeeps

LEMMA FaultTrust ==
  ASSUME TypeOK, TypeOK', NEW s \in Sids, AgentMoves(s) \/ Killed(s) \/ PidReused(s) \/ HooksInstalled(s),
         \A r \in Sids : Session(r), \A r \in Sids : Believed(r), Trusting
  PROVE  (\A r \in Sids : Believed(r)') /\ Trusting'
<1>1. UNCHANGED <<phase, trusted, armed, inside, met>> /\ calm' = FALSE
  BY DEF AgentMoves, Killed, PidReused, HooksInstalled, tools, daemon
<1>2. ASSUME NEW r \in Sids \ {s} PROVE Newer(r)
  BY <1>1, FaultFacts, SameNewer
<1>3. Newer(s)
  <2>1. CASE Killed(s)
    BY <2>1 DEF Newer, Living, Live, Killed, TypeOK
  <2>2. CASE PidReused(s)
    BY <1>1, <2>2, SameNewer DEF PidReused, Same, tools, files, logs
  <2>3. CASE HooksInstalled(s)
    <3>1. slotAge'[s] = Absent
      BY <2>3, FaultFacts DEF HooksInstalled, Session, Unhooked
    <3> QED BY <3>1 DEF Newer, Living, HasSlot
  <2>4. CASE AgentMoves(s)
    <3>1. UNCHANGED <<sess, slotAge, slotMine>>
      BY <2>4 DEF AgentMoves, files
    <3>2. hooks[s] = {} /\ \A h \in hooks'[s] : h.event \in {"SubagentStart", "SubagentStop"}
      BY <2>4 DEF AgentMoves, NoHooks, TypeOK
    <3>3. SlotHooks(s) = {}
      BY <3>2 DEF SlotHooks
    <3>4. slotAge[s] \in Int
      BY Stamps DEF TypeOK
    <3> QED BY <1>1, <3>1, <3>3, <3>4 DEF Newer, Living, Live, HasSlot
  <2> QED BY <2>1, <2>2, <2>3, <2>4
<1>4. \A r \in Sids : Newer(r)
  BY <1>2, <1>3
<1> QED BY <1>1, <1>4, NewerKeeps

LEMMA HookTrust ==
  ASSUME TypeOK, TypeOK', NEW s \in Sids, HookRuns(s),
         \A r \in Sids : Session(r), \A r \in Sids : Believed(r), Trusting
  PROVE  (\A r \in Sids : Believed(r)') /\ Trusting'
<1>1. UNCHANGED <<tools, logs, daemon, acts, faults, stepped, met, armed, robbed>> /\ calm' = FALSE
  BY DEF HookRuns
<1>2. UNCHANGED <<phase, trusted, armed, inside, met, sess>>
  BY <1>1 DEF tools, daemon
<1>3. PICK h \in hooks[s] : HookMarks(s, h) \/ HookWrites(s, h) \/ HookRemoves(s, h) \/ HookBuries(s, h) \/ HookCounts(s, h)
  BY DEF HookRuns
<1>4. ASSUME NEW r \in Sids \ {s} PROVE Newer(r)
  <2>1. Same(r)
    BY <1>1, <1>3, HookFacts
  <2> QED BY <1>2, <2>1, SameNewer
<1>5. Newer(s)
  <2>1. CASE HookMarks(s, h)
    <3> DEFINE g == [h EXCEPT !.step = @ + 1]
    <3>1. g \in hooks'[s] /\ g.event = h.event /\ h.event \in SlotEvents
      BY <2>1 DEF HookMarks, GoesOn, TypeOK, Hooks
    <3>2. SlotHooks(s)' # {}
      BY <3>1 DEF SlotHooks
    <3> QED BY <3>2 DEF Newer, Living
  <2>2. CASE HookWrites(s, h)
    <3>1. slotAge'[s] = 0
      BY <2>2 DEF HookWrites, TypeOK
    <3> QED BY <3>1 DEF Newer
  <2>3. CASE HookRemoves(s, h)
    <3>1. slotAge'[s] = Absent
      BY <2>3 DEF HookRemoves, TypeOK
    <3> QED BY <3>1 DEF Newer, Living, HasSlot
  <2>4. CASE HookBuries(s, h)
    <3>1. sess[s] \in {"closed", "killed"}
      BY <2>4, FitAt DEF HookBuries
    <3> QED BY <1>2, <3>1 DEF Newer, Living, Live
  <2>5. CASE HookCounts(s, h)
    <3>1. UNCHANGED <<slotAge, slotMine>> /\ hooks'[s] = hooks[s] \ {h} /\ h.event \notin SlotEvents
      BY <2>5, EventNames DEF HookCounts, Ends, TypeOK
    <3>2. SlotHooks(s)' = SlotHooks(s)
      BY <3>1 DEF SlotHooks
    <3>3. slotAge[s] \in Int
      BY Stamps DEF TypeOK
    <3> QED BY <1>2, <3>1, <3>2, <3>3 DEF Newer, Living, Live, HasSlot
  <2> QED BY <1>3, <2>1, <2>2, <2>3, <2>4, <2>5
<1>6. \A r \in Sids : Newer(r)
  BY <1>4, <1>5
<1> QED BY <1>1, <1>2, <1>6, NewerKeeps

LEMMA StepBackTrust ==
  ASSUME TypeOK, TypeOK', NotBack, StepBack, \A r \in Sids : Believed(r), Trusting
  PROVE  (\A r \in Sids : Believed(r)') /\ Trusting'
<1>1. UNCHANGED <<phase, trusted, armed, inside>> /\ calm' = FALSE
  BY DEF StepBack, daemon, tools
<1>2. ASSUME NEW r \in Sids PROVE Newer(r)
  BY StepBackFacts DEF Newer, Living, Live, SlotHooks, HasSlot
<1> QED BY <1>1, <1>2, NewerKeeps

LEMMA DaemonTurnTrust ==
  ASSUME DaemonStops \/ DaemonStarts, DownIsReset
  PROVE  (\A r \in Sids : Believed(r)') /\ Trusting'
<1>1. \A r \in Sids : met'[r] = FALSE
  <2>1. CASE DaemonStops
    BY <2>1 DEF DaemonStops
  <2>2. CASE DaemonStarts
    BY <2>2 DEF DaemonStarts, DownIsReset
  <2> QED BY <2>1, <2>2
<1> QED BY <1>1 DEF Believed, Trusting, Witness

LEMMA TickTrust ==
  ASSUME TypeOK, Tick, DownIsReset, \A r \in Sids : Believed(r), Trusting
  PROVE  (\A r \in Sids : Believed(r)') /\ Trusting'
<1>1. phase' = "rest" /\ calm' = FALSE /\ UNCHANGED <<sess, hooks, inside, met, armed, trusted, slotMine>>
  BY DEF Tick
<1>2. ASSUME NEW r \in Sids, Living(r)'
      PROVE  phase = "done" /\ Living(r) /\ slotAge'[r] <= slotAge[r] + 1 /\ slotAge[r] \in Int /\ slotAge'[r] \in Int
  <2>1. met[r]
    BY <1>1, <1>2 DEF Living
  <2>2. phase = "done"
    BY <2>1 DEF DownIsReset, Tick
  <2> QED BY <1>1, <1>2, <2>2, TickFacts DEF Living, Live, SlotHooks, HasSlot
<1>3. ASSUME NEW r \in Sids PROVE Believed(r)'
  <2> SUFFICES ASSUME r \in inside, ~armed, Living(r)', trusted
               PROVE  slotAge'[r] <= 1
    BY <1>1 DEF Believed, Living, Loaded
  <2>1. slotAge[r] <= 0
    BY <1>2 DEF Believed, Living, Loaded
  <2> QED BY <1>2, <2>1
<1>4. Trusting'
  <2> SUFFICES ASSUME NEW r \in Codex, r \in Sids, Witness(r)'
               PROVE  trusted \/ slotAge'[r] <= 1
    BY <1>1 DEF Trusting
  <2>1. Living(r)' /\ slotMine[r] /\ r \notin inside
    BY <1>1 DEF Witness, Living
  <2>2. Witness(r) /\ phase = "done"
    BY <1>2, <2>1 DEF Witness, Living
  <2>3. trusted \/ slotAge[r] <= 0
    BY <2>2 DEF Trusting
  <2> QED BY <1>2, <2>1, <2>3
<1> QED BY <1>3, <1>4

\* Reading a directory settles the trust: a witness restores it, a fresh slot from a
\* container ends it.
LEMMA LoadTrust ==
  ASSUME TypeOK, \A r \in Sids : Believed(r), Trusting,
         LoadSlots(Claude, "rest", "claude") \/ LoadSlots(Codex, "claude_done", "codex")
  PROVE  (\A r \in Sids : Believed(r)') /\ Trusting'
<1>1. UNCHANGED <<sess, hooks, inside, met, slotMine, slotAge, reused>>
  BY DEF LoadSlots, tools
<1>2. ASSUME NEW d, trusted' = Settle(d), armed' = (armed \/ \E q \in d : HasSlot(q) /\ PidLives(q)), d \in {Claude, Codex},
             trusted', ~armed'
      PROVE  ~armed /\ trusted /\ \A q \in d : HasSlot(q) => ~PidLives(q) /\ slotAge[q] \notin (-Fresh)..Fresh
  BY <1>2 DEF Settle, Doubted
<1>3. \A r \in Sids : slotAge[r] \in Int
  BY Stamps DEF TypeOK
<1>4. \A r \in Sids : r \in Claude \/ r \in Codex
  BY DEF Sids
<1>5. \A r \in Sids : Living(r)' = Living(r) /\ Witness(r)' = Witness(r) /\ Doubted(r)' = Doubted(r)
  BY <1>1 DEF Living, Witness, Doubted, Live, SlotHooks, HasSlot, PidLives
<1>6. ASSUME NEW r \in Sids PROVE Believed(r)'
  <2> SUFFICES ASSUME r \in inside, ~armed', Living(r), trusted'
               PROVE  slotAge[r] <= IF Loaded(r)' THEN 0 ELSE 1
    BY <1>1, <1>5 DEF Believed, Living
  <2>1. ~armed /\ trusted
    BY <1>2 DEF LoadSlots
  <2>2. slotAge[r] <= IF Loaded(r) THEN 0 ELSE 1
    BY <2>1 DEF Believed, Living
  <2>3. CASE LoadSlots(Claude, "rest", "claude")
    <3>1. phase = "rest" /\ phase' = "claude"
      BY <2>3 DEF LoadSlots
    <3>2. CASE r \in Claude
      <4>1. slotAge[r] \notin (-Fresh)..Fresh
        BY <1>2, <2>3, <3>2 DEF LoadSlots, Living
      <4>2. slotAge[r] <= 1
        BY <2>2, <3>1, <3>2 DEF Loaded
      <4> QED BY <1>3, <4>1, <4>2, Bounds
    <3>3. CASE r \notin Claude
      BY <2>2, <3>1, <3>3 DEF Loaded
    <3> QED BY <3>2, <3>3
  <2>4. CASE LoadSlots(Codex, "claude_done", "codex")
    <3>1. phase = "claude_done" /\ phase' = "codex"
      BY <2>4 DEF LoadSlots
    <3>2. CASE r \in Codex
      <4>1. slotAge[r] \notin (-Fresh)..Fresh
        BY <1>2, <2>4, <3>2 DEF LoadSlots, Living
      <4>2. slotAge[r] <= 1
        BY <1>3, <2>2
      <4> QED BY <1>3, <4>1, <4>2, Bounds
    <3>3. CASE r \in Claude
      BY <2>2, <3>1, <3>3 DEF Loaded
    <3> QED BY <1>4, <3>2, <3>3
  <2> QED BY <2>3, <2>4
<1>7. Trusting'
  <2> SUFFICES ASSUME NEW r \in Sids, Witness(r)
               PROVE  /\ r \in Codex /\ phase' = "rest" => trusted' \/ slotAge[r] <= 1
                      /\ r \in Codex /\ phase' \in {"codex", "done"} => trusted' \/ slotAge[r] <= 0
                      /\ phase' = "claude" /\ calm' => trusted' \/ slotAge[r] <= 1 \/ \E q \in Claude : Doubted(q)'
    BY <1>1, <1>5 DEF Trusting
  <2>1. HasSlot(r) /\ PidLives(r)
    BY DEF Witness, PidLives
  <2>2. CASE LoadSlots(Claude, "rest", "claude")
    <3>1. phase = "rest" /\ phase' = "claude" /\ trusted' = Settle(Claude)
      BY <2>2 DEF LoadSlots
    <3>2. CASE r \in Claude
      BY <2>1, <3>1, <3>2 DEF Settle
    <3>3. CASE r \in Codex
      <4>1. trusted \/ slotAge[r] <= 1
        BY <3>1, <3>3 DEF Trusting
      <4>2. trusted => trusted' \/ \E q \in Claude : Doubted(q)
        BY <3>1 DEF Settle
      <4>3. \A q \in Claude : Doubted(q)' = Doubted(q)
        BY <1>5 DEF Sids
      <4> QED BY <3>1, <4>1, <4>2, <4>3
    <3> QED BY <1>4, <3>2, <3>3
  <2>3. CASE LoadSlots(Codex, "claude_done", "codex")
    <3>1. phase' = "codex" /\ trusted' = Settle(Codex)
      BY <2>3 DEF LoadSlots
    <3> QED BY <2>1, <3>1 DEF Settle
  <2> QED BY <2>2, <2>3
<1> QED BY <1>6, <1>7

\* The end of a poll only takes slots away.
LEMMA JudgeTrust ==
  ASSUME TypeOK, \A r \in Sids : Believed(r), Trusting,
         Judge(Claude, "claude", "claude_done") \/ Judge(Codex, "codex", "done")
  PROVE  (\A r \in Sids : Believed(r)') /\ Trusting'
<1>1. /\ UNCHANGED <<sess, hooks, inside, met, armed, trusted>>
      /\ \/ phase = "claude" /\ phase' = "claude_done"
         \/ phase = "codex" /\ phase' = "done"
  BY DEF Judge
<1>2. ASSUME NEW r \in Sids, slotAge'[r] # Absent
      PROVE  slotAge'[r] = slotAge[r] /\ slotMine'[r] = slotMine[r]
  BY <1>2, JudgeFacts
<1>3. ASSUME NEW r \in Sids, Living(r)'
      PROVE  Living(r) /\ slotAge'[r] = slotAge[r] /\ slotMine'[r] = slotMine[r]
  BY <1>1, <1>2, <1>3 DEF Living, Live, SlotHooks, HasSlot
<1>4. ASSUME NEW r \in Sids PROVE Believed(r)'
  <2> SUFFICES ASSUME r \in inside, ~armed, Living(r)', trusted
               PROVE  slotAge'[r] <= IF Loaded(r)' THEN 0 ELSE 1
    BY <1>1 DEF Believed, Living
  <2>1. Loaded(r)' = Loaded(r)
    BY <1>1 DEF Loaded
  <2> QED BY <1>3, <2>1 DEF Believed, Living
<1>5. Trusting'
  <2> SUFFICES ASSUME NEW r \in Codex, r \in Sids, Witness(r)', phase = "codex"
               PROVE  trusted \/ slotAge'[r] <= 0
    BY <1>1 DEF Trusting
  <2>1. Living(r)' /\ slotMine'[r] /\ r \notin inside
    BY <1>1 DEF Witness, Living
  <2>2. Witness(r) /\ slotAge'[r] = slotAge[r]
    BY <1>3, <2>1 DEF Witness, Living
  <2> QED BY <2>2 DEF Trusting
<1> QED BY <1>4, <1>5

-----------------------------------------------------------------------------
(* What a poll in which nothing moves says of a session.                     *)

\* What was right of a Claude session stays so through Codex's turn.
LEMMA RightKept ==
  ASSUME NEW s \in Claude, Right(s),
         UNCHANGED <<sess, since, hooked, inside, reused, stepped, met>>,
         works'[s] = works[s], robbed'[s] = robbed[s], shown'[s] = shown[s], crew'[s] = crew[s],
         slotAge'[s] = slotAge[s], armed => armed',
         \A r \in Sids : (slotMine'[r] /\ slotAge'[r] > 1) => (slotMine[r] /\ slotAge[r] > 1),
         \A q \in Claude : Doubted(q)' = Doubted(q)
  PROVE  Right(s)'
<1>1. PidIsFair(s)' => PidIsFair(s)
  BY DEF PidIsFair
<1>2. Witnessed(s)' => Witnessed(s)
  BY DEF Witnessed, Live
<1>3. IsDropped(s) => IsDropped(s)'
  BY <1>2 DEF IsDropped
<1>4. (\E q \in Claude : Doubted(q)) => (\E q \in Claude : Doubted(q)')
  OBVIOUS
<1>5. Live(s)' = Live(s)
  BY DEF Live
<1> QED BY <1>1, <1>3, <1>4, <1>5 DEF Right

LEMMA Ints ==
  ASSUME TypeOK, NEW s \in Sids
  PROVE  /\ slotAge[s] \in Int /\ seenAge[s] \in Int /\ marker[s] \in Int /\ tomb[s] \in Int
         /\ logAge[s] \in Int /\ since[s] \in Int /\ Hour \in Int /\ Fresh \in Int
<1>1. slotAge[s] \in Ages /\ seenAge[s] \in Ages /\ marker[s] \in Ages /\ tomb[s] \in Ages /\ logAge[s] \in Ages
  BY DEF TypeOK
<1>2. since[s] \in Int
  BY DEF TypeOK
<1>3. \A a \in Ages : a \in Int
  BY Stamps
<1>4. Hour \in Int /\ Fresh \in Int
  BY Bounds
<1> QED BY <1>1, <1>2, <1>3, <1>4

\* What Judge reads of session s is what is there.
ReadsRight(s) ==
  /\ hooks[s] = {} /\ seen[s] = slot[s] /\ seenAge[s] = slotAge[s]
  /\ s \in Codex => seenLog[s] = RolloutState(s)

\* A session that is alive and spoke within the hour is judged by its slot and marker.
LEMMA LiveJudged ==
  ASSUME TypeOK, NEW s \in Sids, Session(s), Believed(s), ReadsRight(s),
         Live(s), since[s] <= Hour, ~robbed[s], PidIsFair(s)
  PROVE  /\ ~Collected(s)
         /\ slot[s] \in Telling(s)
         /\ Judged(s) = IF slot[s] = "" THEN "" ELSE IF Marked(s) THEN "waiting" ELSE slot[s]
<1>1. SlotHooks(s) = {}
  BY DEF ReadsRight, SlotHooks
<1>2. slotAge[s] # Absent /\ slotAge[s] <= since[s] /\ slotMine[s] /\ slot[s] \in Telling(s)
  BY <1>1 DEF Session, SlotTold
<1>3. slotAge[s] \in Int /\ since[s] \in Int /\ Hour \in Int
  BY Ints
<1>4. slotAge[s] <= Hour
  BY <1>2, <1>3, Bounds
<1>5. ~PidSaysEnded(s)
  <2> SUFFICES ASSUME trusted, ~PidLives(s), slotAge[s] > Fresh PROVE FALSE
    BY DEF PidSaysEnded, ReadsRight
  <2>1. s \in inside
    BY <1>2 DEF PidLives
  <2>2. ~armed /\ met[s]
    BY <2>1 DEF PidIsFair
  <2>3. slotAge[s] <= IF Loaded(s) THEN 0 ELSE 1
    BY <1>1, <1>2, <2>1, <2>2 DEF Believed, HasSlot
  <2> QED BY <1>3, <2>3, Bounds
<1>6. seenAge[s] = slotAge[s] /\ seen[s] = slot[s] /\ ~(slotAge[s] > Hour)
  BY <1>3, <1>4 DEF ReadsRight
<1>7. ~Collected(s)
  BY <1>6 DEF Collected, Sweeps
<1>8. Judged(s) = IF slot[s] = "" THEN "" ELSE IF Marked(s) THEN "waiting" ELSE slot[s]
  BY <1>2, <1>5, <1>6 DEF Judged, DeriveState
<1> QED BY <1>2, <1>7, <1>8

\* The values a slot may have in each state.
LEMMA TellingIs ==
  ASSUME NEW s \in Sids
  PROVE  /\ sess[s] = "open" => Telling(s) = {""}
         /\ sess[s] = "working" => Telling(s) = {"running"}
         /\ sess[s] = "asking" => Telling(s) \subseteq {"running", "waiting"}
         /\ sess[s] = "yours" => Telling(s) = {"idle"}
         /\ sess[s] = "failed" => Telling(s) = IF s \in Claude THEN {"failed"} ELSE {"idle"}
<1>1. /\ Says("SessionStart") = "" /\ Says("StopFailure") = "failed"
      /\ \A e \in RunningEvents : Says(e) = "running"
      /\ \A e \in WaitingEvents : Says(e) = "waiting"
      /\ \A e \in IdleEvents : Says(e) = "idle"
  BY DEF Says, RunningEvents, WaitingEvents, IdleEvents
<1>2. sess[s] = "open" => EventsAt(s, sess[s]) \cap SlotEvents = {"SessionStart"}
  BY EventNames DEF EventsAt
<1>3. sess[s] = "working" => EventsAt(s, sess[s]) \cap SlotEvents = RunningEvents
  BY EventNames DEF EventsAt
<1>4. sess[s] = "asking" => EventsAt(s, sess[s]) \cap SlotEvents \subseteq RunningEvents \cup WaitingEvents
  BY DEF EventsAt, RunningEvents, WaitingEvents
<1>5. sess[s] = "yours" => EventsAt(s, sess[s]) \cap SlotEvents = IdleEvents
  BY EventNames DEF EventsAt
<1>6. sess[s] = "failed" => EventsAt(s, sess[s]) \cap SlotEvents = IF s \in Claude THEN {"StopFailure"} ELSE {"Stop"}
  BY EventNames DEF EventsAt
<1>7. RunningEvents # {} /\ "Stop" \in IdleEvents
  BY DEF RunningEvents, IdleEvents
<1>8. CASE sess[s] = "open"
  BY <1>1, <1>2, <1>8 DEF Telling
<1>9. CASE sess[s] = "working"
  BY <1>1, <1>3, <1>7, <1>9 DEF Telling
<1>10. CASE sess[s] = "asking"
  BY <1>1, <1>4, <1>10 DEF Telling
<1>11. CASE sess[s] = "yours"
  BY <1>1, <1>5, <1>7, <1>11 DEF Telling
<1>12. CASE sess[s] = "failed"
  BY <1>1, <1>6, <1>7, <1>12 DEF Telling
<1> QED BY <1>8, <1>9, <1>10, <1>11, <1>12

\* The state that is shown of it.
LEMMA LiveMerged ==
  ASSUME TypeOK, LogTells, NEW s \in Sids, Session(s), Believed(s), ReadsRight(s),
         Live(s), since[s] <= Hour, ~robbed[s], PidIsFair(s)
  PROVE  /\ sess[s] = "working" => Merged(s) = "running"
         /\ sess[s] = "yours" => Merged(s) = "idle"
         /\ sess[s] = "failed" /\ s \in Claude => Merged(s) = "failed"
         /\ s \in Codex => (sess[s] = "asking" <=> Merged(s) = "waiting")
         /\ sess[s] \in {"working", "asking"} => Judged(s) # ""
<1>1. /\ slot[s] \in Telling(s)
      /\ Judged(s) = IF slot[s] = "" THEN "" ELSE IF Marked(s) THEN "waiting" ELSE slot[s]
  BY LiveJudged
<1>2. sess[s] \in {"open", "working", "asking", "yours", "failed"}
  BY DEF Live, TypeOK
<1>3. \A es : ~Pending(s, es)
  BY DEF ReadsRight, Pending
<1>4. sess[s] \in {"working", "yours", "failed"} => ~Marked(s)
  BY <1>3 DEF Session, AnswerClears, Marked
<1>5. s \in Codex /\ sess[s] = "asking" => Marked(s)
  <2> SUFFICES ASSUME s \in Codex, sess[s] = "asking" PROVE Marked(s)
    OBVIOUS
  <2>1. marker[s] # Absent /\ marker[s] <= since[s]
    BY <1>3 DEF Session, QuestionMarked
  <2>2. marker[s] \in Int /\ since[s] \in Int
    BY Ints
  <2>3. marker[s] <= Hour
    BY <2>1, <2>2, Ints
  <2> QED BY <2>1, <2>3 DEF Marked
<1>6. s \in Codex => seenLog[s] # "waiting"
  BY DEF ReadsRight, RolloutState, LogTells
<1>7. CASE sess[s] = "open"
  BY <1>1, <1>6, <1>7, TellingIs DEF Merged
<1>8. CASE sess[s] = "working"
  BY <1>1, <1>4, <1>8, TellingIs DEF Merged
<1>9. CASE sess[s] = "asking"
  BY <1>1, <1>5, <1>9, TellingIs DEF Merged
<1>10. CASE sess[s] = "yours"
  BY <1>1, <1>4, <1>10, TellingIs DEF Merged
<1>11. CASE sess[s] = "failed"
  BY <1>1, <1>4, <1>11, TellingIs, DisjointTools DEF Merged
<1> QED BY <1>2, <1>7, <1>8, <1>9, <1>10, <1>11

\* What the end of a poll shows of a session is right.
LEMMA RightJudged ==
  ASSUME TypeOK, LogTells, NEW d, NEW from, NEW to, Judge(d, from, to),
         NEW s \in Sids, s \in d, Session(s), Believed(s), ReadsRight(s),
         s \in Claude => /\ d = Claude /\ from = "claude" /\ calm /\ NoHooks /\ Trusting
                         /\ \A q \in Claude : seenAge[q] = slotAge[q]
  PROVE  Right(s)'
<1>1. UNCHANGED <<sess, since, hooked, inside, reused, hooks, tomb, logAge, stepped, met, armed, trusted>>
  BY JudgeFacts
<1>2. shown'[s] = Merged(s)
  BY DEF Judge
<1>3. ASSUME since[s] <= Hour, ~robbed'[s], PidIsFair(s)'
      PROVE  /\ sess[s] = "working" => shown'[s] = "running"
             /\ sess[s] = "yours" => shown'[s] = "idle"
             /\ sess[s] = "failed" /\ s \in Claude => shown'[s] = "failed"
             /\ s \in Codex /\ Live(s) => (sess[s] = "asking" <=> shown'[s] = "waiting")
             /\ works'[s] \in 0..AgentHour => crew'[s] = 1
  <2>1. ~robbed[s] /\ PidIsFair(s)
    <3>1. ~robbed[s]
      BY <1>3, JudgeFacts DEF TypeOK
    <3> QED BY <1>1, <1>3, <3>1 DEF PidIsFair
  <2>2. CASE Live(s)
    <3>1. /\ sess[s] = "working" => Merged(s) = "running"
          /\ sess[s] = "yours" => Merged(s) = "idle"
          /\ sess[s] = "failed" /\ s \in Claude => Merged(s) = "failed"
          /\ s \in Codex => (sess[s] = "asking" <=> Merged(s) = "waiting")
          /\ sess[s] \in {"working", "asking"} => Judged(s) # ""
      BY <1>3, <2>1, <2>2, LiveMerged
    <3>2. works'[s] \in 0..AgentHour => crew'[s] = 1
      <4> SUFFICES ASSUME works'[s] \in 0..AgentHour PROVE crew'[s] = 1
        OBVIOUS
      <4>1. works[s] \in 0..AgentHour
        BY WorksRange, JudgeFacts
      <4>2. /\ sess[s] \in {"working", "asking"}
            /\ agent[s] # Absent /\ agent[s] <= works[s]
        BY <4>1 DEF Session, AgentKept, Pending, ReadsRight
      <4>3. agent[s] \in Int /\ works[s] \in Int /\ works[s] <= AgentHour
        BY <4>1, WorksRange, AgentAges DEF TypeOK
      <4>4. ~SweepsAgent(agent[s])
        BY <4>2, <4>3, Bounds DEF SweepsAgent
      <4> QED BY <3>1, <4>2, <4>4 DEF Judge
    <3> QED BY <1>2, <3>1, <3>2
  <2>3. CASE ~Live(s)
    <3>1. sess[s] \in {"closed", "killed"}
      BY <2>3 DEF Live
    <3>2. works[s] \notin 0..AgentHour
      BY <3>1 DEF Session, AgentKept
    <3>3. works'[s] \notin 0..AgentHour
      BY <3>2, WorksRange, JudgeFacts
    <3> QED BY <2>3, <3>1, <3>3
  <2> QED BY <2>2, <2>3
<1>4. ASSUME sess[s] = "closed", hooked[s], ~stepped
      PROVE  shown'[s] = ""
  <2>1. slotAge[s] = Absent /\ \/ logAge[s] = Absent \/ logAge[s] > Hour
                               \/ tomb[s] # Absent /\ tomb[s] <= logAge[s]
    BY <1>4 DEF Session, EndedGone, ReadsRight, Pending
  <2>2. Judged(s) = ""
    BY <2>1 DEF Judged, ReadsRight
  <2>3. tomb[s] \in Int /\ logAge[s] \in Int
    BY Ints
  <2>4. logAge[s] = Absent \/ ~(logAge[s] <= Hour) \/ (tomb[s] # Absent /\ ~(tomb[s] > Hour))
    BY <2>1, <2>3, Ints
  <2>5. s \in Codex /\ ~Buried(s) => seenLog[s] = ""
    BY <2>4 DEF ReadsRight, RolloutState, Buried, SweepsTomb
  <2> QED BY <1>2, <2>2, <2>5 DEF Merged
<1>5. ASSUME s \in Claude
      PROVE  IsDropped(s)' \/ \E q \in Claude : Doubted(q)'
  <2> SUFFICES ASSUME sess[s] = "killed", ~reused[s], slotAge'[s] > Fresh, Witnessed(s)',
                      \A q \in Claude : ~Doubted(q)'
               PROVE  shown'[s] = ""
    BY <1>1 DEF IsDropped
  <2>1. /\ d = Claude /\ phase = "claude" /\ calm /\ NoHooks /\ Trusting
        /\ \A q \in Claude : seenAge[q] = slotAge[q]
    BY <1>5 DEF Judge
  <2>2. \A q \in Sids : slotAge[q] \in Int
    BY Stamps DEF TypeOK
  <2>3. slotAge'[s] = slotAge[s]
    <3>1. ~(Absent > Fresh)
      BY Stamps, Bounds
    <3> QED BY <3>1, JudgeFacts
  <2>4. PICK r \in Sids : Live(r)' /\ r \notin inside' /\ slotMine'[r] /\ slotAge'[r] > 1 /\ met'[r]
    BY DEF Witnessed
  <2>5. slotAge'[r] # Absent
    BY <2>4, Stamps, Bounds
  <2>6. slotAge[r] = slotAge'[r] /\ slotMine[r]
    BY <2>4, <2>5, JudgeFacts
  <2>7. Witness(r)
    BY <1>1, <2>1, <2>4, <2>5, <2>6 DEF Witness, Live, SlotHooks, HasSlot, NoHooks
  <2>8. trusted \/ \E q \in Claude : Doubted(q)
    BY <2>1, <2>2, <2>4, <2>6, <2>7 DEF Trusting
  <2>9. ASSUME NEW q \in Claude, Doubted(q)
        PROVE  Doubted(q)'
    <3>1. slotAge[q] <= Fresh /\ q \in Sids
      BY <2>2, <2>9, Bounds DEF Doubted, Sids
    <3>2. ~Collected(q)
      <4>1. ~(slotAge[q] > Hour)
        BY <2>2, <3>1, Bounds
      <4> QED BY <2>1, <4>1 DEF Collected, Sweeps
    <3>3. slotAge'[q] = slotAge[q] /\ slotMine'[q] = slotMine[q]
      BY <3>1, <3>2, JudgeFacts
    <3> QED BY <1>1, <2>9, <3>3 DEF Doubted, HasSlot, PidLives, Live
  <2>10. trusted
    BY <2>8, <2>9
  <2>11. PidSaysEnded(s)
    BY <2>3, <2>10 DEF PidSaysEnded, PidLives, Live, ReadsRight
  <2>12. Judged(s) = ""
    BY <2>11 DEF Judged
  <2> QED BY <1>2, <1>5, <2>12, DisjointTools DEF Merged
<1> QED BY <1>1, <1>3, <1>4, <1>5 DEF Right, Live

\* The first half of a poll reads what is there.
LEMMA LoadCalm ==
  ASSUME TypeOK, Calm, LoadSlots(Claude, "rest", "claude") \/ LoadSlots(Codex, "claude_done", "codex")
  PROVE  Calm'
<1>1. UNCHANGED <<sess, since, works, hooked, inside, hooks, reused, slot, slotAge, slotMine, met, stepped, robbed, shown, crew>>
  BY DEF LoadSlots, tools
<1>2. CASE LoadSlots(Claude, "rest", "claude")
  <2>1. phase' = "claude" /\ calm' = NoHooks
    BY <1>2 DEF LoadSlots
  <2>2. \A s \in Claude : seen'[s] = slot[s] /\ seenAge'[s] = slotAge[s]
    BY <1>2 DEF LoadSlots, Sids
  <2> QED BY <1>1, <2>1, <2>2 DEF Calm, NoHooks
<1>3. CASE Claude = Codex
  <2>1. Claude = {} /\ Codex = {}
    BY <1>3, DisjointTools
  <2> QED BY <2>1 DEF Calm, NoHooks, Sids
<1>4. CASE LoadSlots(Codex, "claude_done", "codex") /\ Claude # Codex
  <2> SUFFICES ASSUME calm
               PROVE  /\ NoHooks
                      /\ \A s \in Codex : seen'[s] = slot[s] /\ seenAge'[s] = slotAge[s] /\ seenLog'[s] = RolloutState(s)'
                      /\ \A s \in Claude : Right(s)'
    <3>1. phase' = "codex" /\ calm' = calm
      BY <1>4 DEF LoadSlots
    <3> QED BY <1>1, <3>1 DEF Calm, NoHooks
  <2>1. NoHooks /\ \A s \in Claude : Right(s)
    BY <1>4 DEF Calm, LoadSlots
  <2>2. \A s \in Codex : seen'[s] = slot[s] /\ seenAge'[s] = slotAge[s]
    BY <1>4 DEF LoadSlots, Sids
  <2>3. \A s \in Codex : seenLog'[s] = RolloutState(s) /\ RolloutState(s)' = RolloutState(s)
    BY <1>4 DEF LoadSlots, Sids, RolloutState, logs
  <2>4. ASSUME NEW s \in Claude PROVE Right(s)'
    <3>1. armed => armed'
      BY <1>4 DEF LoadSlots
    <3>2. \A q \in Claude : Doubted(q)' = Doubted(q)
      BY <1>1 DEF Doubted, HasSlot, PidLives, Live
    <3> QED BY <1>1, <2>1, <3>1, <3>2, RightKept
  <2> QED BY <2>1, <2>2, <2>3, <2>4
<1> QED BY <1>2, <1>3, <1>4

\* Its second half shows what is right.
LEMMA JudgeCalm ==
  ASSUME TypeOK, LogTells, \A s \in Sids : Session(s), \A s \in Sids : Believed(s), Trusting, Calm,
         Judge(Claude, "claude", "claude_done") \/ Judge(Codex, "codex", "done")
  PROVE  Calm'
<1>1. UNCHANGED <<sess, since, hooked, inside, reused, hooks, stepped, met, armed, calm>>
  BY DEF Judge
<1> SUFFICES ASSUME calm PROVE Calm'
  BY <1>1 DEF Calm
<1>2. NoHooks /\ NoHooks'
  BY <1>1 DEF Calm, NoHooks
<1>3. \A s \in Sids : hooks[s] = {}
  BY <1>2 DEF NoHooks
<1>4. CASE Judge(Claude, "claude", "claude_done")
  <2>1. phase = "claude" /\ phase' = "claude_done"
    BY <1>4 DEF Judge
  <2>2. \A s \in Claude : seen[s] = slot[s] /\ seenAge[s] = slotAge[s]
    BY <2>1 DEF Calm
  <2>3. ASSUME NEW s \in Claude PROVE Right(s)'
    <3>1. s \in Sids /\ s \notin Codex
      BY DisjointTools DEF Sids
    <3>2. ReadsRight(s)
      BY <1>3, <2>2, <3>1 DEF ReadsRight
    <3> QED BY <1>2, <1>4, <2>2, <3>1, <3>2, RightJudged
  <2> QED BY <1>2, <2>1, <2>3 DEF Calm
<1>5. CASE Judge(Codex, "codex", "done")
  <2>1. phase = "codex" /\ phase' = "done"
    BY <1>5 DEF Judge
  <2>2. \A s \in Codex : seen[s] = slot[s] /\ seenAge[s] = slotAge[s] /\ seenLog[s] = RolloutState(s)
    BY <2>1 DEF Calm
  <2>3. ASSUME NEW s \in Codex PROVE Right(s)'
    <3>1. s \in Sids /\ s \notin Claude
      BY DisjointTools DEF Sids
    <3>2. ReadsRight(s)
      BY <1>3, <2>2, <3>1 DEF ReadsRight
    <3> QED BY <1>5, <3>1, <3>2, RightJudged
  <2>4. ASSUME NEW s \in Claude PROVE Right(s)'
    <3>1. Right(s) /\ \A q \in Claude : q \in Sids /\ q \notin Codex
      BY <2>1, DisjointTools DEF Calm, Sids
    <3>2. ASSUME NEW q \in Claude
          PROVE  /\ works'[q] = works[q] /\ robbed'[q] = robbed[q] /\ slotAge'[q] = slotAge[q]
                 /\ slotMine'[q] = slotMine[q]
      <4>1. q \in Sids /\ ~(q \in Codex /\ Collected(q))
        BY <3>1
      <4> QED BY <1>5, <4>1, JudgeFacts
    <3>3. shown'[s] = shown[s] /\ crew'[s] = crew[s]
      BY <1>5, <3>1 DEF Judge
    <3>4. \A q \in Claude : Doubted(q)' = Doubted(q)
      BY <1>1, <3>2 DEF Doubted, HasSlot, PidLives, Live
    <3>5. ASSUME NEW r \in Sids, slotMine'[r], slotAge'[r] > 1
          PROVE  slotMine[r] /\ slotAge[r] > 1
      <4>1. ~(Absent > 1)
        BY Stamps, Bounds
      <4> QED BY <1>5, <3>5, <4>1, JudgeFacts
    <3> QED BY <1>1, <3>1, <3>2, <3>3, <3>4, <3>5, RightKept
  <2> QED BY <1>2, <2>1, <2>3, <2>4 DEF Calm
<1> QED BY <1>4, <1>5

-----------------------------------------------------------------------------
(* The invariant.                                                            *)

LEMMA InitInv == Init => IInv
<1> SUFFICES ASSUME Init PROVE IInv
  OBVIOUS
<1>1. TypeOK
  <2>1. "" \in States /\ 0 \in 0..1 /\ Absent \in Ages /\ Past \in 0..Past /\ 0 \in 0..Acts /\ 0 \in 0..Faults
    BY Stamps, Bounds DEF States
  <2>2. DaemonType
    BY <2>1 DEF Init, DaemonType
  <2>3. FilesType /\ LogsType
    BY <2>1 DEF Init, FilesType, LogsType
  <2>4. ToolsType
    BY <2>1, InsidesAreSessions DEF Init, ToolsType, Sids
  <2>5. OtherType
    BY <2>1 DEF Init, OtherType
  <2> QED BY <2>2, <2>3, <2>4, <2>5, TypeParts
<1>2. NotBack /\ LogTells /\ DownIsReset
  BY DEF Init, NotBack, LogTells, DownIsReset
<1>3. ASSUME NEW s \in Sids PROVE Session(s)
  <2>1. HooksFit(s) /\ Unhooked(s)
    BY WorksRange DEF Init, HooksFit, Unhooked
  <2>2. SlotTold(s) /\ QuestionMarked(s) /\ AnswerClears(s) /\ EndedGone(s)
    BY DEF Init, SlotTold, QuestionMarked, AnswerClears, EndedGone, Live
  <2>3. AgentKept(s)
    BY WorksRange DEF Init, AgentKept
  <2> QED BY <2>1, <2>2, <2>3 DEF Session
<1>4. \A s \in Sids : Believed(s)
  BY DEF Init, Believed, HasSlot
<1>5. Trusting /\ Calm
  BY DEF Init, Trusting, Calm, Witness, HasSlot
<1> QED BY <1>1, <1>2, <1>3, <1>4, <1>5 DEF IInv

LEMMA StutterInv == IInv /\ UNCHANGED vars => IInv'
<1> SUFFICES ASSUME IInv, UNCHANGED vars PROVE IInv'
  OBVIOUS
<1>1. /\ UNCHANGED <<sess, since, works, hooked, inside>>
      /\ UNCHANGED <<reused, hooks, slot, slotAge, slotMine, marker, tomb, agent, log, logAge>>
      /\ UNCHANGED <<up, phase, trusted, seen, seenAge, seenLog, shown, crew>>
      /\ UNCHANGED <<acts, faults, stepped, met, armed, robbed, calm>>
  BY DEF vars, tools, files, logs, daemon
<1>2. TypeOK'
  BY <1>1 DEF IInv, TypeOK
<1>3. NotBack' /\ LogTells' /\ DownIsReset'
  BY <1>1 DEF IInv, NotBack, LogTells, DownIsReset
<1>4. \A s \in Sids : Session(s)'
  <2>1. \A s \in Sids : Same(s)
    BY <1>1 DEF Same
  <2> QED BY <1>1, <2>1, SameSession DEF IInv
<1>5. \A s \in Sids : Believed(s)'
  BY <1>1 DEF IInv, Believed, Live, SlotHooks, HasSlot, Loaded
<1>6. Trusting'
  BY <1>1 DEF IInv, Trusting, Witness, Live, SlotHooks, HasSlot, Doubted, PidLives
<1>7. Calm'
  <2>1. ASSUME NEW s \in Sids, Right(s) PROVE Right(s)'
    BY <1>1, <2>1 DEF Right, PidIsFair, IsDropped, Witnessed, Doubted, HasSlot, PidLives, Live
  <2>2. \A s \in Sids : RolloutState(s)' = RolloutState(s)
    BY <1>1 DEF RolloutState
  <2> QED BY <1>1, <2>1, <2>2 DEF IInv, Calm, NoHooks, Sids
<1> QED BY <1>2, <1>3, <1>4, <1>5, <1>6, <1>7 DEF IInv

LEMMA TurnInv ==
  ASSUME IInv, NEW s \in Sids, Turn(s)
  PROVE  IInv'
<1>1. PICK st \in EventStates : \E es \in SUBSET Events : Event(s, st, es)
  BY TurnIs
<1>2. PICK es \in SUBSET Events : Event(s, st, es)
  BY <1>1
<1>3. TypeOK' /\ NotBack' /\ LogTells' /\ DownIsReset'
  BY <1>2, EventType DEF IInv
<1>4. ASSUME NEW t \in Sids PROVE Session(t)'
  <2>1. CASE t = s
    BY <1>2, <2>1, EventSession DEF IInv
  <2>2. CASE t # s
    BY <1>2, <2>2, EventFacts, SameSession DEF IInv
  <2> QED BY <2>1, <2>2
<1>5. (\A r \in Sids : Believed(r)') /\ Trusting'
  BY <1>2, <1>3, EventTrust DEF IInv
<1>6. Calm'
  BY <1>2 DEF Event, Moves, Calm
<1> QED BY <1>3, <1>4, <1>5, <1>6 DEF IInv

LEMMA SessionInv ==
  ASSUME IInv, NEW s \in Sids,
         AgentMoves(s) \/ Killed(s) \/ PidReused(s) \/ HooksInstalled(s) \/ HookRuns(s)
  PROVE  IInv'
<1>1. Calm'
  BY DEF AgentMoves, Killed, PidReused, HooksInstalled, HookRuns, Calm
<1>2. CASE HookRuns(s)
  <2>1. TypeOK' /\ NotBack' /\ LogTells' /\ DownIsReset'
    BY <1>2, HookType DEF IInv
  <2>2. \A t \in Sids : Session(t)'
    BY <1>2, HookSession DEF IInv
  <2>3. (\A r \in Sids : Believed(r)') /\ Trusting'
    BY <1>2, <2>1, HookTrust DEF IInv
  <2> QED BY <1>1, <2>1, <2>2, <2>3 DEF IInv
<1>3. CASE AgentMoves(s) \/ Killed(s) \/ PidReused(s) \/ HooksInstalled(s)
  <2>1. TypeOK' /\ NotBack' /\ LogTells' /\ DownIsReset'
    BY <1>3, FaultType DEF IInv
  <2>2. \A t \in Sids : Session(t)'
    BY <1>3, FaultSession DEF IInv
  <2>3. (\A r \in Sids : Believed(r)') /\ Trusting'
    BY <1>3, <2>1, FaultTrust DEF IInv
  <2> QED BY <1>1, <2>1, <2>2, <2>3 DEF IInv
<1> QED BY <1>2, <1>3

LEMMA PollInv ==
  ASSUME IInv, PollClaude \/ PollCodex
  PROVE  IInv'
<1>1. {"rest", "claude", "claude_done", "codex", "done"} \subseteq Phases
  BY DEF Phases
<1>2. CASE LoadSlots(Claude, "rest", "claude") \/ LoadSlots(Codex, "claude_done", "codex")
  <2>1. TypeOK' /\ NotBack' /\ LogTells' /\ DownIsReset'
    BY <1>1, <1>2, LoadType DEF IInv
  <2>2. \A t \in Sids : Session(t)'
    BY <1>2, LoadSession DEF IInv
  <2>3. (\A r \in Sids : Believed(r)') /\ Trusting'
    BY <1>2, LoadTrust DEF IInv
  <2>4. Calm'
    BY <1>2, LoadCalm DEF IInv
  <2> QED BY <2>1, <2>2, <2>3, <2>4 DEF IInv
<1>3. CASE Judge(Claude, "claude", "claude_done") \/ Judge(Codex, "codex", "done")
  <2>1. TypeOK' /\ NotBack' /\ LogTells' /\ DownIsReset'
    BY <1>1, <1>3, JudgeType DEF IInv
  <2>2. \A t \in Sids : Session(t)'
    BY <1>3, JudgeSession DEF IInv
  <2>3. (\A r \in Sids : Believed(r)') /\ Trusting'
    BY <1>3, JudgeTrust DEF IInv
  <2>4. Calm'
    BY <1>3, JudgeCalm DEF IInv
  <2> QED BY <2>1, <2>2, <2>3, <2>4 DEF IInv
<1> QED BY <1>2, <1>3 DEF PollClaude, PollCodex

LEMMA TimeInv ==
  ASSUME IInv, DaemonStops \/ DaemonStarts \/ Tick \/ StepBack
  PROVE  IInv'
<1>1. CASE DaemonStops \/ DaemonStarts
  <2>1. TypeOK' /\ NotBack' /\ LogTells' /\ DownIsReset'
    BY <1>1, DaemonTurnType DEF IInv
  <2>2. \A t \in Sids : Session(t)'
    BY <1>1, DaemonTurnSession DEF IInv
  <2>3. (\A r \in Sids : Believed(r)') /\ Trusting'
    BY <1>1, DaemonTurnTrust DEF IInv
  <2>4. Calm'
    <3>1. CASE DaemonStops
      BY <3>1 DEF DaemonStops, Calm
    <3>2. CASE DaemonStarts
      <4>1. phase' = "rest" /\ hooks' = hooks /\ calm' = calm
        BY <3>2 DEF IInv, DownIsReset, DaemonStarts
      <4> QED BY <4>1 DEF IInv, Calm, NoHooks
    <3> QED BY <1>1, <3>1, <3>2
  <2> QED BY <2>1, <2>2, <2>3, <2>4 DEF IInv
<1>2. CASE Tick
  <2>1. TypeOK' /\ NotBack' /\ LogTells' /\ DownIsReset'
    BY <1>2, TickType DEF IInv
  <2>2. \A t \in Sids : Session(t)'
    BY <1>2, TickSession DEF IInv
  <2>3. (\A r \in Sids : Believed(r)') /\ Trusting'
    BY <1>2, TickTrust DEF IInv
  <2>4. Calm'
    BY <1>2 DEF Tick, Calm
  <2> QED BY <2>1, <2>2, <2>3, <2>4 DEF IInv
<1>3. CASE StepBack
  <2>1. TypeOK' /\ NotBack' /\ LogTells' /\ DownIsReset'
    BY <1>3, StepBackType DEF IInv
  <2>2. \A t \in Sids : Session(t)'
    BY <1>3, StepBackSession DEF IInv
  <2>3. (\A r \in Sids : Believed(r)') /\ Trusting'
    BY <1>3, <2>1, StepBackTrust DEF IInv
  <2>4. Calm'
    BY <1>3 DEF StepBack, Calm
  <2> QED BY <2>1, <2>2, <2>3, <2>4 DEF IInv
<1> QED BY <1>1, <1>2, <1>3

LEMMA NextInv == IInv /\ [Next]_vars => IInv'
<1> SUFFICES ASSUME IInv, [Next]_vars PROVE IInv'
  OBVIOUS
<1>1. ASSUME NEW s \in Sids, Turn(s) PROVE IInv'
  BY <1>1, TurnInv
<1>2. ASSUME NEW s \in Sids,
             AgentMoves(s) \/ Killed(s) \/ PidReused(s) \/ HooksInstalled(s) \/ HookRuns(s)
      PROVE  IInv'
  BY <1>2, SessionInv
<1>3. CASE PollClaude \/ PollCodex
  BY <1>3, PollInv
<1>4. CASE DaemonStops \/ DaemonStarts \/ Tick \/ StepBack
  BY <1>4, TimeInv
<1>5. CASE UNCHANGED vars
  BY <1>5, StutterInv
<1> QED BY <1>1, <1>2, <1>3, <1>4, <1>5 DEF Next, Turn

\* The invariant holds in every reachable state.
LEMMA AlwaysInv == Spec => []IInv
BY InitInv, NextInv, PTL DEF Spec

-----------------------------------------------------------------------------
(* The theorems.                                                             *)

\* Every variable keeps to its values: no stamp is mistaken for a file that is
\* not there, and no event or state is met that the tables do not know.
THEOREM TypeCorrect == Spec => []TypeOK
<1>1. IInv => TypeOK
  BY DEF IInv
<1> QED BY <1>1, AlwaysInv, PTL

\* When the round is over, it is right of every session.
LEMMA PolledRight ==
  ASSUME IInv, Polled, NEW s \in Sids
  PROVE  Right(s)
BY DEF IInv, Polled, Calm, Sids

\* Whatever the interleaving of hooks, polls, kills, restarts, reused pids and a
\* clock put back, and for any number of sessions: a session that is alive and
\* spoke within the hour is on the panel, in its own state.
THEOREM AliveShown == Spec => []AliveIsShown
<1>1. IInv => AliveIsShown
  BY PolledRight DEF AliveIsShown, Right
<1> QED BY <1>1, AlwaysInv, PTL

\* For any number of sessions: Codex is shown as asking if and only if it asks.
THEOREM AskingShown == Spec => []AskingIsShown
<1>1. IInv => AskingIsShown
  BY PolledRight DEF AskingIsShown, Right, Sids
<1> QED BY <1>1, AlwaysInv, PTL

\* For any number of sessions: one that a hook saw end is not counted again, by
\* its slot or by its log, until it speaks.
THEOREM BuriedStays == Spec => []BuriedStaysBuried
<1>1. IInv => BuriedStaysBuried
  BY PolledRight DEF BuriedStaysBuried, Right
<1> QED BY <1>1, AlwaysInv, PTL

\* For any number of sessions: a killed session of Claude Code is dropped once a
\* living pid of the host has been met.
THEOREM KilledDropped == Spec => []KilledIsDropped
<1>1. IInv => KilledIsDropped
  BY PolledRight DEF KilledIsDropped, Right, Sids
<1> QED BY <1>1, AlwaysInv, PTL

\* For any number of sessions: an agent at work is counted, however long its
\* file has not been touched.
THEOREM AgentsCounted == Spec => []AgentsAreCounted
<1>1. IInv => AgentsAreCounted
  BY PolledRight DEF AgentsAreCounted, Right
<1> QED BY <1>1, AlwaysInv, PTL
=============================================================================
