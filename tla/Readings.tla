------------------------------ MODULE Readings ------------------------------
(***************************************************************************)
(* What the daemon reads of an account's limits, and what it makes of it.  *)
(*                                                                         *)
(* Four sources tell of the same Claude account, each in its own way: the  *)
(* status line's payload (percentage and reset, written only when Claude   *)
(* Code draws), the desktop application's samples (percentage, no reset),  *)
(* its local storage (five-hour window only), and the daemon's own note of *)
(* the weekly boundary, its anchor.  Codex tells of another account.       *)
(* IngestionBus.poll_frames asks them all, leaves out for a while the one  *)
(* that raised, and learns the anchor; normalizer.merge makes one reading  *)
(* of the Claude frames.                                                   *)
(*                                                                         *)
(* A behaviour follows one of the two windows, `kind`: the code treats     *)
(* them alike except where a definition names one.  Times are ticks, none  *)
(* is 0; `now` is true time, Wall the computer's.  A tick is many polls;   *)
(* a lid may close on it.  Bounds: End, Acts, Faults, Most, Fragile.       *)
(***************************************************************************)
EXTENDS Integers

CONSTANTS
  Kinds,       \* the windows looked at: "session", "weekly"
  Window,      \* the length of one
  Stale,       \* STALE_AFTER_S
  Tolerance,   \* ANCHOR_REFUTE_TOLERANCE_S
  AnchorMax,   \* ANCHOR_MAX_UNCORROBORATED_S
  FirstRetry, MaxRetry,
  Back,        \* how far a clock may be put back
  Moved,       \* how far the account's weekly boundary may move
  Most,        \* bound: the units of usage
  Fragile,     \* bound: the providers that may raise
  End, Acts, Faults

ASSUME Lengths ==
  /\ {Window, Stale, Tolerance, AnchorMax, FirstRetry, MaxRetry, Back, Moved, Most, End, Acts, Faults} \subseteq Nat
  /\ Kinds \subseteq {"session", "weekly"}
  /\ 1 < Window /\ Stale < Window /\ Window < AnchorMax /\ 0 < Most /\ Back < End
  /\ 0 < FirstRetry /\ FirstRetry <= MaxRetry

VARIABLES
  kind, now, lag,          \* the window followed; true time; how far the clock is behind it
  used, resets,            \* the account: usage of the open window, and its end
  cli,                     \* what Claude Code last heard of it
  payload,                 \* the status line's file
  samples,                 \* plan-usage-history.json
  record,                  \* the desktop's local storage
  codex,                   \* what Codex's log says of its own account
  audit,                   \* a boundary in Cowork's audit, from before this daemon
  anchor,                  \* weekly-anchor.json
  remembered,              \* ClaudeCliProvider._remembered
  broken,                  \* IngestionBus._broken
  seeded,                  \* IngestionBus._seeded
  dial,                    \* the merged frame of the last poll
  polled,                  \* a poll has ended since the last change
  acts, faults,
  quiet, failed,           \* history: ticks with a poll since a provider was asked; those that raised
  zeroed,                  \* history: the window whose forgiven zero was on the dial
  saw,                     \* history: the newest stamp of a boundary any source vouched for
  moved                    \* history: the boundary moved

desk == <<kind, used, resets, cli, payload, samples, record, codex, audit, moved>>
daemon == <<anchor, remembered, broken, seeded, dial, quiet, failed, zeroed, saw>>
vars == <<desk, daemon, polled, now, lag, acts, faults>>

None == 0
Start == Back + 1
UNKNOWN == -1
Wall == now - lag
Session == kind = "session"
Providers == {"cli", "desktop", "ls", "codex", "anchor"}
NoReading == [used |-> UNKNOWN, resets |-> None, at |-> None]
Blank == [pct |-> UNKNOWN, at |-> None, resets |-> None, rolled |-> None, win |-> None,
          src |-> "none", nth |-> 0]

-----------------------------------------------------------------------------
(* The frames of one poll.                                                 *)

\* A frame of source s: its figure, stamp, reset and the rollover it saw; nth is its
\* place in the order in which the providers are asked; win is the true end of the
\* window it was measured in, which no code sees.
Frame(s, nth, pct, at, r, rolled, win) ==
  [pct |-> pct, at |-> at, resets |-> r, rolled |-> rolled, win |-> win, src |-> s, nth |-> nth]

HasReset(r) == r # None /\ Wall >= r

\* The status line carried across its own reset: a fresh reading is forgiven, a
\* stale one unknown, and the rollover is told either way.
RolledOver(p) == IF p.used < 0 \/ Wall - p.at > Stale THEN UNKNOWN ELSE 0

StatusFrame(p, nth) ==
  IF HasReset(p.resets)
  THEN Frame("cli", nth, RolledOver(p), p.at, None, p.resets, p.resets)
  ELSE Frame("cli", nth, p.used, p.at, p.resets, None, p.resets)

\* Mutant of Remembers: what the live payload lost is lost.
RemembersNothing == FALSE
\* The live payload has a five-hour figure, the one thing that is remembered.
Remembers == Session /\ payload.at # None /\ StatusFrame(payload, 1).pct >= 0

CliFrames == {StatusFrame(p, 1) : p \in {payload} \ {NoReading}} \cup
             {StatusFrame(p, 2) : p \in IF Remembers THEN {} ELSE {remembered} \ {NoReading}}

DesktopFrames ==
  {Frame("desktop", 3, s.used, s.at, None, None, s.win) :
     s \in {s \in samples : \A t \in samples : t.at <= s.at}}

LsFrame == IF HasReset(record.resets)
           THEN Frame("ls", 4, UNKNOWN, record.at, None, record.resets, record.resets)
           ELSE Frame("ls", 4, record.used, record.at, record.resets, None, record.resets)
LsFrames == IF record.at = None THEN {} ELSE {LsFrame}

\* Mutant of Project: a boundary reached this moment is offered as the next.
ProjectAt(a) ==
  IF a.resets < Wall THEN a.resets + ((Wall - a.resets) \div Window + 1) * Window ELSE a.resets
\* The next boundary the anchor predicts.
Project(a) ==
  IF a.resets <= Wall THEN a.resets + ((Wall - a.resets) \div Window + 1) * Window ELSE a.resets

\* Two samples next to each other between which the week's figure fell.
Drops ==
  {d \in samples \X samples :
     /\ d[1].at < d[2].at /\ d[2].used < d[1].used
     /\ ~\E s \in samples : d[1].at < s.at /\ s.at < d[2].at}

Refuted(a) ==
  \E d \in Drops :
    LET r == d[2].at - ((d[2].at - a.resets) % Window)
    IN ~(d[1].at - Tolerance <= r /\ r <= d[2].at + Tolerance)

Offered(a) == a.at # None /\ Wall - a.at <= AnchorMax /\ ~Refuted(a)

AnchorFrames ==
  IF ~Session /\ Offered(anchor)
  THEN {Frame("anchor", 6, UNKNOWN, anchor.at, Project(anchor), None, None)} ELSE {}

\* Codex's reset stays in the frame when it has passed.
CodexFrames ==
  IF codex.at = None THEN {}
  ELSE {Frame("codex", 5, codex.used, codex.at, codex.resets, None, None)}

\* What the poll gets that asks the providers S, none of which raises.
Heard(S) == UNION {
  IF "cli" \in S THEN CliFrames ELSE {},
  IF "desktop" \in S THEN DesktopFrames ELSE {},
  IF "ls" \in S THEN LsFrames ELSE {},
  IF "codex" \in S THEN CodexFrames ELSE {},
  IF "anchor" \in S THEN AnchorFrames ELSE {}}

-----------------------------------------------------------------------------
(* One reading of many.                                                    *)

Ours(fs) == {f \in fs : f.src # "codex"}

\* The newest of the frames, the first of equals.
Pick(fs) ==
  IF fs = {} THEN Blank
  ELSE CHOOSE f \in fs : \A g \in fs : g.at < f.at \/ (g.at = f.at /\ f.nth <= g.nth)

Latest(S) == IF S = {} THEN None ELSE CHOOSE t \in S : \A u \in S : u <= t
RolledAt(fs) == Latest({f.rolled : f \in fs})

WithReset(fs) == {f \in fs : f.resets # None}

\* Taken after the rollover, or by a source that has accounted for it.
Survives(f, rolled) == f.at >= rolled \/ f.rolled # None

\* normalizer.merge: each field from the newest frame that has it.
Figure(fs) == Pick({f \in fs : f.pct >= 0 /\ Survives(f, RolledAt(fs))})
Merge(fs) == [Figure(fs) EXCEPT !.resets = Pick(WithReset(fs)).resets, !.rolled = RolledAt(fs)]
\* There is a reading when either window has a figure, and the other window is not
\* followed here: without a figure of this one's there may be one or none.
Merges(fs) == {Merge(fs)} \cup (IF Figure(fs) = Blank THEN {Blank} ELSE {})

\* The frames an anchor is learnt from.
Learns(fs) == Ours(fs)

\* weekly_anchor.observe: the newest boundary, if it is newer than what is known.
Observed(fs) ==
  LET best == Pick(WithReset(Learns(fs)))
  IN IF Session \/ best = Blank \/ best.at <= anchor.at THEN anchor
     ELSE [resets |-> best.resets, at |-> best.at]

\* _seed_anchor_once: the first poll of a process, if nothing is known.
Seeded(a) == IF ~seeded /\ a.at = None THEN audit ELSE a

-----------------------------------------------------------------------------
(* Providers that raise.                                                   *)

SitsOut(p) == broken[p].wait > 0
SittingOut == {p \in Providers : SitsOut(p)}

\* Mutant of CooldownOver: arithmetic alone.
CooldownByTheClock(b) == Wall >= b.retry
CooldownOver(b) == Wall >= b.retry \/ Wall < b.since

Asked == {p \in Providers : SitsOut(p) => CooldownOver(broken[p])}

Smaller(a, b) == IF a < b THEN a ELSE b
\* Each failure in a row doubles the wait.
Failing(b) ==
  LET wait == IF b.wait > 0 THEN Smaller(2 * b.wait, MaxRetry) ELSE FirstRetry
  IN [since |-> Wall, retry |-> Wall + wait, wait |-> wait]
Working == [since |-> None, retry |-> None, wait |-> 0]

-----------------------------------------------------------------------------
Init ==
  /\ kind \in Kinds
  /\ now = Start /\ lag = 0
  /\ used = 0 /\ resets = (IF kind = "session" THEN None ELSE Start + Window - 1)
  /\ cli = NoReading /\ payload = NoReading /\ record = NoReading /\ codex = NoReading
  /\ samples = {}
  /\ audit \in {[resets |-> None, at |-> None]} \cup
               (IF kind = "session" THEN {} ELSE {[resets |-> resets, at |-> Start]})
  /\ anchor = [resets |-> None, at |-> None]
  /\ remembered = NoReading /\ broken = [p \in Providers |-> Working] /\ seeded = FALSE
  /\ dial = Blank /\ polled = FALSE
  /\ acts = 0 /\ faults = 0
  /\ quiet = [p \in Providers |-> 0] /\ failed = {}
  /\ zeroed = None /\ saw = audit.at /\ moved = FALSE

Act ==
  /\ acts < Acts /\ acts' = acts + 1 /\ polled' = FALSE
  /\ UNCHANGED <<daemon, now, lag, faults, kind, audit>>
Fault == faults < Faults /\ acts < Acts /\ faults' = faults + 1 /\ acts' = acts + 1

\* The account is used: a five-hour window opens with its first use.
Used == IF used < Most THEN used + 1 ELSE used
Opened == IF resets = None THEN now + Window ELSE resets

\* Claude Code answers, hears of the limits, and draws its status line.
Turn ==
  /\ Act
  /\ used' = Used /\ resets' = Opened
  /\ cli' = [used |-> Used, resets |-> Opened, at |-> Wall]
  /\ payload' = cli'
  /\ UNCHANGED <<samples, record, codex, moved>>

\* It draws again with what it last heard, or, a new session, with nothing.
Redraw ==
  /\ Act
  /\ \/ cli # NoReading /\ payload' = [cli EXCEPT !.at = Wall]
     \/ payload' = [NoReading EXCEPT !.at = Wall]
  /\ UNCHANGED <<used, resets, cli, samples, record, codex, moved>>

\* The account is used from elsewhere.
Elsewhere ==
  /\ Act /\ used' = Used /\ resets' = Opened
  /\ UNCHANGED <<cli, payload, samples, record, codex, moved>>

\* The desktop application adds a sample, and writes its record of the session.
Sample ==
  /\ Act
  /\ Wall \notin {s.at : s \in samples}
  /\ samples' = samples \cup {[used |-> used, at |-> Wall, win |-> resets]}
  /\ UNCHANGED <<used, resets, cli, payload, record, codex, moved>>

Record ==
  /\ Act /\ Session
  /\ record' = [used |-> used, resets |-> resets, at |-> Wall]
  /\ UNCHANGED <<used, resets, cli, payload, samples, codex, moved>>

\* Codex logs the limits of its own account, whose weeks end at other times.
CodexTurn ==
  /\ Act /\ ~Session
  /\ codex' = [used |-> 1, resets |-> (now \div Window + 1) * Window, at |-> Wall]
  /\ UNCHANGED <<used, resets, cli, payload, samples, record, moved>>

\* The account's week is moved: it ends early, and weeks end then from now on.
Move ==
  /\ Act /\ ~Session /\ ~moved
  /\ resets - Moved > now
  /\ moved' = TRUE /\ resets' = resets - Moved
  /\ UNCHANGED <<used, cli, payload, samples, record, codex>>

\* Time goes on; a five-hour window ends and none is open, a week is followed
\* by the next.  A poll has come first, unless the lid was closed.
Tick ==
  /\ now < End
  /\ now' = now + 1
  /\ (polled /\ UNCHANGED <<acts, faults>>) \/ (~polled /\ Fault)
  /\ polled' = FALSE
  /\ IF resets # None /\ now' >= resets
     THEN used' = 0 /\ resets' = (IF Session THEN None ELSE resets + Window)
     ELSE UNCHANGED <<used, resets>>
  /\ quiet' = [p \in Providers |-> IF polled /\ quiet[p] < 3 * MaxRetry THEN quiet[p] + 1 ELSE quiet[p]]
  /\ UNCHANGED <<kind, cli, payload, samples, record, codex, audit, moved, anchor, remembered,
                 broken, seeded, dial, failed, zeroed, saw, lag>>

\* The clock is put back while a provider sits out, the one thing here that
\* such a clock is looked at for.
StepBack ==
  /\ lag = 0 /\ SittingOut # {} /\ lag' = Back /\ polled' = FALSE
  /\ UNCHANGED <<desk, daemon, now, acts, faults>>

\* The poll that asks the providers A, of which R raise, and hears the frames fs
\* of the others.
Polled(A, R, fs, ours) ==
  LET rolled == RolledAt(ours)
      boundaries == {f.at : f \in {g \in fs : g.src = "cli" /\ g.resets # None}}
  IN /\ dial' \in Merges(ours)
     /\ remembered' = (IF "cli" \in A \ R /\ Remembers THEN payload ELSE remembered)
     /\ broken' = [p \in Providers |->
                     IF p \in R THEN Failing(broken[p]) ELSE IF p \in A THEN Working ELSE broken[p]]
     /\ anchor' = Seeded(Observed(fs))
     /\ seeded' = TRUE
     /\ quiet' = [p \in Providers |-> IF p \in A THEN 0 ELSE quiet[p]]
     /\ failed' = failed \cup R
     /\ zeroed' = (IF dial'.pct = 0 /\ dial'.src = "cli" /\ dial'.win = rolled
                   THEN dial'.win ELSE zeroed)
     /\ saw' = Latest(boundaries \cup {saw})

Poll(R) ==
  /\ ~polled /\ polled' = TRUE
  /\ \E A \in {Asked} : \E fs \in {Heard(A \ R)} : \E ours \in {Ours(fs)} : Polled(A, R, fs, ours)
  /\ UNCHANGED <<desk, now, lag>>

PollAll == Poll({}) /\ UNCHANGED <<acts, faults>>
\* One of the providers raises; once it has, it may go on to.
PollFails ==
  \E p \in Asked \cap Fragile :
    Poll({p}) /\ ((SitsOut(p) /\ UNCHANGED <<acts, faults>>) \/ (~SitsOut(p) /\ Fault))

\* The daemon starts again, between two polls.
Restart ==
  /\ Fault /\ polled
  /\ remembered' = NoReading /\ broken' = [p \in Providers |-> Working] /\ seeded' = FALSE
  /\ dial' = Blank /\ polled' = FALSE
  /\ quiet' = [p \in Providers |-> 0] /\ failed' = {} /\ zeroed' = None
  /\ UNCHANGED <<desk, anchor, saw, now, lag>>

Next ==
  \/ Turn \/ Redraw \/ Elsewhere \/ Sample \/ Record \/ CodexTurn \/ Move
  \/ Tick \/ StepBack \/ PollAll \/ PollFails \/ Restart

Spec == Init /\ [][Next]_vars

-----------------------------------------------------------------------------
(* Properties.                                                             *)

Times == 0 .. End
Windows == 0 .. End + Window
Reading == [used : UNKNOWN .. Most, resets : Windows, at : Times]
Note == [resets : Windows, at : Times]
Frames == [pct : UNKNOWN .. Most, at : Times, resets : Windows, rolled : Windows, win : Windows,
           src : Providers, nth : 1 .. 6]
Dials == [pct : UNKNOWN .. Most, at : Times, resets : Windows, rolled : Windows, win : Windows,
          src : Providers \cup {"none"}, nth : 0 .. 6]

TypeOK ==
  /\ kind \in Kinds /\ now \in Start .. End /\ lag \in {0, Back}
  /\ used \in 0 .. Most /\ resets \in Windows
  /\ {cli, payload, record, codex, remembered} \subseteq Reading
  /\ samples \subseteq [used : 0 .. Most, at : Times, win : Windows]
  /\ {audit, anchor} \subseteq Note
  /\ broken \in [Providers -> [since : Times, retry : Nat, wait : 0 .. MaxRetry]]
  /\ dial \in Dials
  /\ {polled, seeded, moved} \subseteq BOOLEAN
  /\ acts \in 0 .. Acts /\ faults \in 0 .. Faults
  /\ quiet \in [Providers -> Nat] /\ failed \subseteq Providers
  /\ zeroed \in Windows /\ saw \in Times

RightClock == lag = 0

\* Once the dial has shown a five-hour window as forgiven, no figure measured in
\* that window or an earlier one comes back to it while the daemon runs, whatever
\* the sources write afterwards: the rollover outlives the payload that told it.
\* A status line that sits out takes what it remembers with it.
ZeroStaysZero ==
  (Session /\ RightClock /\ polled /\ "cli" \notin SittingOut /\ dial.pct > 0)
    => dial.win = None \/ dial.win > zeroed

\* A provider that raised is asked again within its longest wait, and one that
\* never did is asked by every poll.  A clock put back meanwhile costs one more
\* wait, not the time it was wrong by.  Hours behind a closed lid do not count: a clock
\* put back during them makes the rest of the wait begin again.
HeardAgain ==
  polled => \A p \in Providers :
    quiet[p] <= IF p \notin failed THEN 0 ELSE MaxRetry + (IF lag > 0 THEN MaxRetry ELSE 0)

\* As long as the account's weeks have not been moved, the weekly reset on the
\* glass is the account's own, the next to come when it was polled; and once the
\* daemon has learnt of it, the next poll that makes a reading has a reset too.  A reset
\* that only the daemon's note tells of is withdrawn, moved or not, when no source has
\* vouched for it for AnchorMax.
ResetIsTrue ==
  (~Session /\ RightClock /\ polled) =>
     /\ dial.resets # None => now - saw <= AnchorMax
     /\ ~moved /\ dial.resets # None => dial.resets = resets
     /\ ~moved /\ anchor.at # None /\ now - anchor.at <= AnchorMax /\ SittingOut = {}
          => \A fs \in {Heard(Providers)} : \A ours \in {Ours(fs)} :
               Merge(ours).resets # None

=============================================================================
