---------------------------- MODULE UpdateBridge ----------------------------
(***************************************************************************)
(* The daemon's half of an update over USB (pc/bridge.py), as operators on *)
(* the record of one connection's Bridge, and on the note of an approved   *)
(* install that outlives the daemon's own restart (update.PendingFirmware).*)
(*                                                                         *)
(* A release has one version for the firmware and the app.  A fetch of the *)
(* manifest gives the newest release or fails; there are two, the unsigned *)
(* one (f) that offers firmware and the signed one (s) that alone may have *)
(* the app replaced.                                                       *)
(***************************************************************************)
EXTENDS UpdateBoard

CONSTANTS Proto,        \* the protocol each release speaks
          Floor,        \* proto_min of each release
          HasBuild,     \* the app can replace itself on this platform
          ResumeTries   \* update.RESUME_TRIES

\* proto       _board_proto, 0 until the board has been heard
\* heard, fw   whether _board_fw is set, and to what; "0.0.0", the version
\*             _resume_pending makes up, is heard with fw = None
\* man         the version of _manifest      upd    the version of _app_update
\* asked       a query within the last minute
\* failed      _failed_at is set
\* report      a failed flash still to be told to the board
NewBridge(report) ==
  [proto |-> 0, heard |-> FALSE, fw |-> None, man |-> None, upd |-> None,
   asked |-> FALSE, failed |-> FALSE, report |-> report]

NoNote == [ver |-> None, tries |-> 0, id |-> 0]

\* What a call is still doing when it returns to a step of its own: kind is
\* "selfupd" (replacing the app with upd), "download" or "flash" (of ver).
\* tried is for AppGoesFirst: whether the app half was attempted.
Idle == [kind |-> "idle", ver |-> None, upd |-> None, id |-> 0, tried |-> FALSE]

Result(b, note, work, out) == [br |-> b, note |-> note, work |-> work, out |-> out]

\* Mutant: the board's protocol is never looked at.
NeverAhead(b, app) == FALSE

\* _board_ahead
Ahead(b, app) == b.proto > Proto[app]

\* _ota_reset
OtaReset(b) == [b EXCEPT !.man = None, !.failed = TRUE]

Newer(v, w) == v # None /\ v > w

\* _app_available
AppAvailable(app, s) == IF HasBuild /\ Newer(s, app) THEN s ELSE None

\* Mutant: firmware is offered whether or not the app can follow.
NeverUnpaired(app, f, s) == FALSE

\* _app_pairing: the app half is due and cannot be worked out.
Unpaired(app, f, s) == HasBuild /\ Newer(f, app) /\ AppAvailable(app, s) = None

\* _on_ota_query(cur)
Answer(b, app, cur, f, s) ==
  LET heard == [b EXCEPT !.asked = TRUE, !.failed = FALSE, !.heard = TRUE,
                         !.fw = IF b.heard THEN @ ELSE cur]
      found == [heard EXCEPT !.upd = AppAvailable(app, s)]
  IN  IF Ahead(b, app) \/ (f # None /\ Floor[f] > Proto[app])
        THEN [br |-> OtaReset(heard), msg |-> OtaNone]
      ELSE IF ~Newer(f, cur) THEN [br |-> [found EXCEPT !.man = None], msg |-> OtaNone]
      ELSE IF Unpaired(app, f, s) THEN [br |-> OtaReset(found), msg |-> OtaNone]
      ELSE [br |-> [found EXCEPT !.man = f], msg |-> OtaAvail(f)]

\* _on_ota_flash up to its first blocking step: the app first, if this release
\* has a newer one, with the approval noted across the restart.
FlashStart(b, note, id) ==
  IF b.man # None /\ b.upd # None
    THEN Result([b EXCEPT !.upd = None],
                [ver |-> b.man, tries |-> 0, id |-> id],
                [kind |-> "selfupd", ver |-> b.man, upd |-> b.upd, id |-> id,
                 tried |-> TRUE], <<>>)
  ELSE IF b.man = None THEN Result(b, note, Idle, <<OtaError>>)
  ELSE Result(b, note,
              [Idle EXCEPT !.kind = "download", !.ver = b.man, !.id = id], <<>>)

LastTry(note) == note.tries + 1 >= ResumeTries

\* Mutants: the approval is not spent before the attempt; a query that found
\* nothing spends it.
NotSpent(note) == note
SpentUnread(note) == NoNote

\* PendingFirmware.clear, PendingFirmware.bump
Spent(note) == NoNote
TriedOnce(note) == [note EXCEPT !.tries = @ + 1]

\* The feed answered, and what it serves is not what was approved.
MovedOn(b, note) == b.man # note.ver

\* _resume_pending: the ordinary query again, then: nothing to install counts
\* as a try; another release than the approved one ends the approval; else
\* the approval is spent and the flash path entered.
Resume(b, app, note, f, s) ==
  LET a == Answer(b, app, b.fw, f, s)
      q == a.br
      go == FlashStart(q, Spent(note), note.id)
  IN  IF note.ver = None THEN Result(b, note, Idle, <<>>)
      ELSE IF q.man = None /\ LastTry(note)
        THEN Result(OtaReset(q), NoNote, Idle, <<a.msg, OtaError>>)
      ELSE IF q.man = None
        THEN Result(OtaReset(q), TriedOnce(note), Idle, <<a.msg>>)
      ELSE IF MovedOn(q, note) THEN Result(OtaReset(q), NoNote, Idle, <<a.msg>>)
      ELSE [go EXCEPT !.out = <<a.msg, OtaResume(note.ver)>> \o @]

\* greet's welcome, with the failure of the last flash behind it.
Greeting(b) == IF b.report THEN <<Welcome, OtaError>> ELSE <<Welcome>>
=============================================================================
