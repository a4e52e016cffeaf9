-------------------------------- MODULE Push --------------------------------
(***************************************************************************)
(* The daemon as the one that pushes readings (pc/bridge.py and the read   *)
(* loop of claude_usage_bridge.py), as operators on the record of one      *)
(* connection's Bridge and the loop's two timers.  What it reads is the    *)
(* desk: the message the ingestion bus makes of the providers' files, the  *)
(* name beside it, and how old both are.                                   *)
(***************************************************************************)
EXTENDS Panel

CONSTANTS TooLong,     \* the readings whose line passes MAX_LINE_BYTES
          Liveness,    \* LIVENESS_WINDOW_S
          PollEvery    \* POLL_INTERVAL_S

ASSUME PushAssumption ==
  TooLong \subseteq Readings /\ Liveness \in Nat \ {0} /\ PollEvery \in Nat \ {0}

\* val "nothing": no provider has a reading; "broken": the fetch raises.
\* age is that of the reading, active that of the last word from the desk.
Broken == "broken"

\* What stands for no reading, or for a fetch that raises, is none.
ASSUME TheseAreNoReadings == {Nothing, Broken} \cap Readings = {}

Desks == [val : Readings \cup {Nothing, Broken}, name : Names, act : Acts \ {"none"},
          age : Ages, active : Ages]

\* ping     time since _last_ping, beyond Liveness at first
\* poll     time until next_poll
\* fast     next_fast_poll has come
\* pushed   _last_pushed, what the message says without its ages
\* told     _last_session
NewBridge == [ping |-> Liveness + 1, poll |-> 0, fast |-> TRUE, pushed |-> <<>>, told |-> Nothing]

Pushable == {<<>>} \cup (Readings \X BOOLEAN \X Acts)

Bridges == [ping : 0 .. Liveness + 1, poll : 0 .. PollEvery, fast : BOOLEAN,
            pushed : Pushable, told : Names \cup {Nothing}]

\* board_alive
Alive(d) == d.ping <= Liveness

\* The providers' stale flag, in frame_to_usage: past the bound, not at it; the
\* one second is not told apart here.
Stale(s) == s.age >= StaleAfter
Reading(s) == UsageMsg(s.val, Stale(s), s.act, s.age, s.active)

\* meaningful_usage
Meaning(s) == <<s.val, Stale(s), s.act>>

Result(d, out) == [d |-> d, out |-> out]

\* _send_session_if_changed
Session(d, s) == Result([d EXCEPT !.told = s.name],
                        IF s.name # d.told THEN <<SessionMsg(s.name)>> ELSE <<>>)

\* _send_usage: a line that is too long is not sent, and counts as sent.
SendUsage(d, s) ==
  LET named == Session([d EXCEPT !.pushed = Meaning(s)], s) IN
  Result(named.d, (IF s.val \in TooLong THEN <<>> ELSE <<Reading(s)>>) \o named.out)

\* Mutant: the heartbeat, too, sends changes only.
PollOnceChanged(d, s) ==
  LET usage == IF s.val = Broken THEN Result(d, <<Plain("status")>>)
               ELSE IF s.val = Nothing \/ Meaning(s) = d.pushed THEN Result(d, <<>>)
               ELSE SendUsage(d, s)
  IN Result(usage.d, <<Plain("time")>> \o usage.out)

\* poll_once
PollOnce(d, s) ==
  LET usage == IF s.val = Broken THEN Result(d, <<Plain("status")>>)
               ELSE IF s.val = Nothing THEN Result(d, <<>>)
               ELSE SendUsage(d, s)
  IN Result(usage.d, <<Plain("time")>> \o usage.out)

\* Mutant: the fast tick compares the reading's value alone.
PollValueChanged(d, s) ==
  IF s.val \in {Nothing, Broken} THEN Result(d, <<>>)
  ELSE IF d.pushed # <<>> /\ s.val = d.pushed[1] THEN Session(d, s)
  ELSE SendUsage(d, s)

\* poll_if_changed
PollIfChanged(d, s) ==
  IF s.val \in {Nothing, Broken} THEN Result(d, <<>>)
  ELSE IF Meaning(s) # d.pushed THEN SendUsage(d, s)
  ELSE Session(d, s)

\* greet
Greet(d, s) ==
  LET polled == PollOnce([d EXCEPT !.told = Nothing], s) IN
  Result(polled.d, <<Plain("welcome")>> \o polled.out)

\* on_message
OnPing(d) == Result([d EXCEPT !.ping = 0], <<Plain("pong")>>)
OnMessage(d, s, t) == IF t = "hello" THEN Greet(d, s) ELSE OnPing(d)

\* What is due of the heartbeat and, after it, the fast tick.
Heartbeat(d, s) ==
  LET polled == IF Alive(d) THEN PollOnce(d, s) ELSE Result(d, <<>>) IN
  Result([polled.d EXCEPT !.poll = PollEvery], polled.out)

FastTick(d, s) ==
  LET polled == IF Alive(d) THEN PollIfChanged(d, s) ELSE Result(d, <<>>) IN
  Result([polled.d EXCEPT !.fast = FALSE], polled.out)

Turn(d, s) ==
  LET beat == IF d.poll = 0 THEN Heartbeat(d, s) ELSE Result(d, <<>>)
      tick == FastTick(beat.d, s)
  IN Result(tick.d, beat.out \o tick.out)

\* One ping interval on the daemon's clock.
Later(d) == [d EXCEPT !.ping = IF @ <= Liveness THEN @ + 1 ELSE @,
                      !.poll = IF @ > 0 THEN @ - 1 ELSE 0, !.fast = TRUE]
=============================================================================
