------------------------------- MODULE Panel --------------------------------
(***************************************************************************)
(* The tethered board as one that is shown readings: what its dispatcher   *)
(* does with each message (proto.c), what the glass then claims            *)
(* (usage_view.c, page 0 in front), how old it takes the reading and the   *)
(* desk to be (usage_freshness.c), and when it dozes and wakes             *)
(* (sleep_gate.c, ui_sleep.c, run_usb in main.c).  All are operators on    *)
(* the record of the board.                                                *)
(*                                                                         *)
(* A reading is a model value that stands for its percentages, reset times *)
(* and counts; whether a second provider comes with it, and whether that   *)
(* one is old, go with the reading.  Time is counted in ping intervals of  *)
(* 10 s; an age of Unknown is a field the message did not carry.           *)
(***************************************************************************)
EXTENDS Integers, Sequences

CONSTANTS Readings,      \* what a usage message can show
          TwoPages,      \* the readings of two providers
          OldSecond,     \* those whose second provider is stale
          Names,         \* project names
          HostTimeout,   \* HOST_TIMEOUT_MS
          AppWait,       \* the minute run_usb waits for an app
          StaleAfter,    \* SLEEP_READING_STALE_AFTER_S, the daemon's too
          AbsentAfter,   \* SLEEP_ABSENT_AFTER_S
          MaxAge         \* bound: ages are not told apart beyond it

ASSUME PanelAssumption ==
  /\ OldSecond \subseteq TwoPages /\ TwoPages \subseteq Readings
  /\ HostTimeout \in Nat \ {0} /\ AppWait \in Nat /\ StaleAfter \in Nat /\ AbsentAfter \in Nat
  /\ MaxAge \in Nat /\ StaleAfter <= MaxAge /\ AbsentAfter <= MaxAge

Nothing == "nothing"
Unknown == -1

\* No project is called what stands for none.
ASSUME NothingIsNoName == Nothing \notin Names

Ages == -1 .. MaxAge
Acts == {"none", "idle", "running", "waiting"}
Statuses == {"disconnected", "ok", "stale", "error"}
Dozes == {"no", "host", "desk", "app"}

\* seen, lost, bye   host_seen, host_lost, host_bye of proto.c
\* heard             time since last_host_ms, while seen
\* due               a ping is due
\* have, val         have_data and the reading on page 0, old its stale flag
\* status, act       last_status and the activity of usage_view.c
\* label             session_label
\* age, active       usage_freshness.c: of the reading, and of the desk
\* quiet             time since host_quiet_since, while it matters
\* doze, peek        which ui_sleep_run is under way; a tap's ten seconds
\* settings          ui_settings_busy      busy  ota_blocks_sleep
PowerOn ==
  [seen |-> FALSE, lost |-> FALSE, bye |-> FALSE, heard |-> 0, due |-> FALSE,
   have |-> FALSE, val |-> Nothing, old |-> FALSE, status |-> "disconnected",
   act |-> "none", label |-> Nothing, age |-> Unknown, active |-> Unknown,
   quiet |-> 0, doze |-> "no", peek |-> FALSE, settings |-> FALSE, busy |-> FALSE]

Boards ==
  [seen : BOOLEAN, lost : BOOLEAN, bye : BOOLEAN, heard : 0 .. HostTimeout + 1,
   due : BOOLEAN, have : BOOLEAN, val : Readings \cup {Nothing}, old : BOOLEAN,
   status : Statuses, act : Acts, label : Names \cup {Nothing}, age : Ages,
   active : Ages, quiet : 0 .. AppWait + 1, doze : Dozes, peek : BOOLEAN,
   settings : BOOLEAN, busy : BOOLEAN]

-----------------------------------------------------------------------------
(* Messages to the board, and dispatch.                                    *)

UsageMsg(v, stale, act, age, active) ==
  [t |-> "usage", val |-> v, stale |-> stale, act |-> act, age |-> age, active |-> active]
SessionMsg(n) == [t |-> "session", label |-> n]
\* "time", "pong" and "welcome" say here no more than that the host is there.
Plain(t) == [t |-> t]

MsgsDown ==
  [t : {"usage"}, val : Readings, stale : BOOLEAN, act : Acts, age : Ages, active : Ages]
    \cup [t : {"session"}, label : Names \cup {Nothing}]
    \cup [t : {"time", "pong", "welcome", "status", "bye"}]

\* What a line that has lost its end is read as.  The scanner takes a field that
\* is gone for one that was not sent, and a figure cut short for a smaller one.
Cut(a) == {Unknown} \cup (0 .. a)
UsageLines(vals, stales, acts, ages, actives) ==
  [t : {"usage"}, val : vals, stale : stales, act : acts, age : ages, active : actives]
Torn(m) ==
  IF m.t = "session" THEN {[m EXCEPT !.label = Nothing]}
  ELSE UsageLines({m.val}, {m.stale}, {m.act}, {m.age}, Cut(m.active)) \cup
       UsageLines({m.val}, {m.stale}, {m.act}, Cut(m.age), {Unknown}) \cup
       UsageLines(Readings, {m.stale, FALSE}, {m.act, "none"}, {Unknown}, {Unknown})

\* Mutant: a bye is forgotten like any other line's arrival.
HeardNoBye(b, m) ==
  [b EXCEPT !.seen = TRUE, !.heard = 0, !.lost = FALSE, !.bye = FALSE, !.quiet = 0]

\* Mutant: the line that ends a silence leaves host_lost set.
HeardStillLost(b, m) ==
  [b EXCEPT !.seen = TRUE, !.heard = 0, !.bye = (m.t = "bye"), !.quiet = 0]

\* What dispatch does with any line.
Heard(b, m) ==
  [b EXCEPT !.seen = TRUE, !.heard = 0, !.lost = FALSE, !.bye = (m.t = "bye"), !.quiet = 0]

\* The usage branch.
Show(b, m) ==
  [b EXCEPT !.have = TRUE, !.val = m.val, !.old = m.stale, !.act = m.act,
            !.age = m.age, !.active = IF m.active >= 0 THEN m.active ELSE m.age,
            !.status = IF m.stale \/ m.val \in OldSecond THEN "stale" ELSE "ok"]

\* Left out: the state "rate_limited" of a status line, which no daemon of this
\* repository sends, and the messages that change nothing followed here.
Dispatch(b, m) ==
  IF m.t = "usage" THEN Show(Heard(b, m), m)
  ELSE IF m.t = "session" THEN [Heard(b, m) EXCEPT !.label = m.label]
  ELSE IF m.t = "status" THEN [Heard(b, m) EXCEPT !.status = "error"]
  ELSE Heard(b, m)

\* proto_service: silence past the timeout.
TimesOut(b) == b.seen /\ b.heard > HostTimeout

TimedOut(b) ==
  [b EXCEPT !.status = "disconnected", !.seen = FALSE, !.heard = 0, !.lost = ~b.bye, !.bye = FALSE]

\* refresh_dots: the health dot is green.  With one page a stale reading is
\* amber; with two, only if it is that of the page in front (stale_here).
Green(b) == b.status = "ok" \/ (b.status = "stale" /\ b.val \in TwoPages /\ ~b.old)

-----------------------------------------------------------------------------
(* Dozing.                                                                 *)

\* nothing_wants_a_person
Calm(act) == act \in {"none", "idle"}

\* sleep_should_start
HostAsleep(b) == b.lost /\ b.have /\ ~b.busy

\* sleep_stale_should_start
DeskQuiet(b) == b.have /\ ~b.busy /\ Calm(b.act) /\ b.active >= AbsentAfter

\* The wait for an app that has not spoken.
NoApp(b) == ~b.have /\ ~b.seen /\ ~b.busy /\ b.quiet > AppWait

Starts(b, kind) ==
  /\ b.doze = "no" /\ ~b.settings
  /\ \/ kind = "host" /\ HostAsleep(b)
     \/ kind = "desk" /\ ~HostAsleep(b) /\ DeskQuiet(b)
     \/ kind = "app" /\ NoApp(b)

\* Mutant: the desk's doze looks at the reading's age to wake.
WokenByReading(b, kind) ==
  \/ b.settings
  \/ kind \in {"host", "app"} /\ b.seen
  \/ kind = "desk" /\ (b.busy \/ ~Calm(b.act) \/ b.age < AbsentAfter)

\* woken: host_is_back, reading_moved_again, or the owner in the settings.
Woken(b, kind) ==
  \/ b.settings
  \/ kind \in {"host", "app"} /\ b.seen
  \/ kind = "desk" /\ (b.busy \/ ~Calm(b.act) \/ b.active < AbsentAfter)

Asleep(b, kind) == [b EXCEPT !.doze = kind]

\* The end of ui_sleep_run, which stamps an old reading as old.
Wake(b) ==
  [b EXCEPT !.doze = "no", !.peek = FALSE, !.quiet = 0,
            !.status = IF b.have /\ b.age >= StaleAfter THEN "stale" ELSE @]

-----------------------------------------------------------------------------
(* Time.                                                                   *)

\* grown, and its saturation
Grow(a) == IF a < 0 \/ a = MaxAge THEN a ELSE a + 1

\* Mutant: the ages stand still while the board dozes.
ElapsedAwake(b) ==
  [b EXCEPT !.due = TRUE, !.peek = FALSE,
            !.heard = IF b.seen /\ b.heard <= HostTimeout THEN @ + 1 ELSE @,
            !.age = IF b.doze = "no" THEN Grow(@) ELSE @,
            !.active = IF b.doze = "no" THEN Grow(@) ELSE @,
            !.quiet = IF ~b.have /\ ~b.seen /\ b.doze = "no" /\ b.quiet <= AppWait THEN @ + 1 ELSE @]

\* One ping interval goes by.
Elapsed(b) ==
  [b EXCEPT !.due = TRUE, !.peek = FALSE,
            !.heard = IF b.seen /\ b.heard <= HostTimeout THEN @ + 1 ELSE @,
            !.age = Grow(@), !.active = Grow(@),
            !.quiet = IF ~b.have /\ ~b.seen /\ b.doze = "no" /\ b.quiet <= AppWait THEN @ + 1 ELSE @]
=============================================================================
