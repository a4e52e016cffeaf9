----------------------------- MODULE UpdateBoard -----------------------------
(***************************************************************************)
(* The board's half of an update over USB: the flags and the state behind  *)
(* its update row, its "Update now / Later" prompt and its settings        *)
(* confirmation (firmware/src/proto.c, ota.c, upd_tap.c, upd_prompt.c,     *)
(* ui_settings.c and the loop of main.c).                                  *)
(*                                                                         *)
(* Everything here is an operator on a board record, so that PairUpdate    *)
(* can run it against the real daemon.  The board has one thread: a pass   *)
(* of its loop drains the serial line, serves the request flags, and lets  *)
(* the user interface run; the operators below are those three.  Deadlines *)
(* are steps that may happen at any time after the state they watch.       *)
(***************************************************************************)
EXTENDS Naturals, Sequences

\* A version is a natural number; None is "no version", and as the firmware
\* of a board, an image that does not boot.
None == 0

\* "up to date", which reverts to idle after three seconds, is idle here: no
\* step tells the two apart.  The Wi-Fi link's states are not in use.
States == {"idle", "checking", "available", "downloading", "failed"}

\* Messages from the board.  proto stands for the "v" on every message; id is
\* not on the wire: it names the tap an approval comes from.
Hello(fw, p) == [t |-> "hello", fw |-> fw, id |-> 0, proto |-> p]
Pref(p) == [t |-> "pref", fw |-> None, id |-> 0, proto |-> p]
OtaQuery(fw, p) == [t |-> "ota_query", fw |-> fw, id |-> 0, proto |-> p]
OtaFlash(id, p) == [t |-> "ota_flash", fw |-> None, id |-> id, proto |-> p]

\* Messages from the daemon.
Welcome == [t |-> "welcome", ver |-> None]
OtaAvail(v) == [t |-> "ota_avail", ver |-> v]
OtaNone == [t |-> "ota_none", ver |-> None]
OtaError == [t |-> "ota_error", ver |-> None]
OtaBegin(v) == [t |-> "ota_begin", ver |-> v]
OtaResume(v) == [t |-> "ota_resume", ver |-> v]

-----------------------------------------------------------------------------
\* fw       the running firmware
\* st       ota_ui.st
\* ver      ota_m.version, while an offer or an install names it
\* staged   ota_staged           check    req_check
\* tap      req_install, as the number of the tap that set it (0: clear)
\* prompt   the version the open prompt names (None: closed); confirm likewise
\* latched  upd_prompt_done
\* seen     upd_seen, where upd_timer_cb looks for it: the state at its last
\*          tick if that was "failed" or "downloading"
PowerOn(fw) ==
  [fw |-> fw, st |-> "idle", ver |-> None, staged |-> FALSE, check |-> FALSE,
   tap |-> 0, prompt |-> None, confirm |-> None, latched |-> FALSE,
   seen |-> "idle"]

\* Mutant: an offer that is gone stays staged.
StaysStaged(b, st) == [b EXCEPT !.st = st]

Unstaged(b, st) == [b EXCEPT !.staged = FALSE, !.ver = None, !.st = st]

\* proto.c dispatch: one message from the daemon.
Receive(b, m) ==
  CASE m.t = "welcome"    -> [b EXCEPT !.check = TRUE]
    [] m.t = "ota_avail"  -> [b EXCEPT !.ver = m.ver, !.staged = TRUE, !.st = "available"]
    [] m.t = "ota_none"   -> Unstaged(b, "idle")
    [] m.t = "ota_error"  -> Unstaged(b, "failed")
    [] m.t = "ota_resume" -> [b EXCEPT !.ver = m.ver, !.st = "downloading"]
    [] m.t = "ota_begin"  -> b

\* What dispatch answers a message with, before the next one is read.
ReplyTo(m, p) == IF m.t = "welcome" THEN <<Pref(p)>> ELSE <<>>

\* upd_tap_act and the switch on it: an install request wins over a check,
\* which is dropped; without an offer it is refused, and said to be.
Requests(b) ==
  LET clear == [b EXCEPT !.check = FALSE, !.tap = 0]
  IN  IF b.tap # 0 THEN [clear EXCEPT !.st = IF b.staged THEN "downloading" ELSE "failed"]
      ELSE IF b.check THEN Unstaged(clear, "checking")
      ELSE b

Asks(b, p) ==
  IF b.tap # 0 THEN (IF b.staged THEN <<OtaFlash(b.tap, p)>> ELSE <<>>)
  ELSE IF b.check THEN <<OtaQuery(b.fw, p)>> ELSE <<>>

\* upd_prompt_step.  busy: the panel, a confirmation, a notice or the download
\* overlay is on the glass.
PromptStep(b, busy) ==
  LET up == b.st = "available"
      lifted == b.st = "failed" \/ (~up /\ b.prompt # None)
  IN  IF up /\ b.prompt = None /\ ~b.latched /\ ~busy
        THEN [b EXCEPT !.prompt = b.ver, !.latched = TRUE]
      ELSE IF ~up THEN [b EXCEPT !.prompt = None, !.latched = @ /\ ~lifted]
      ELSE b

\* The outcome of a failure is put on the glass by the tick that sees it.
Announces(b) == b.st = "failed" /\ b.seen # "failed"

\* upd_timer_cb: the prompt, then what the state does on its own; late says
\* that the five minutes of an install have passed.
Tick(b, busy, late) ==
  LET after == IF Announces(b) THEN "idle"
               ELSE IF late /\ b.st = "downloading" /\ b.seen = b.st THEN "failed"
               ELSE b.st
  IN  [PromptStep(b, busy) EXCEPT
         !.st = after,
         !.seen = IF b.st \in {"failed", "downloading"} THEN b.st ELSE "idle"]

\* main.c: a check nobody answered for 30 s.
CheckTimesOut(b) == [b EXCEPT !.st = "failed"]

\* The user.
TapNow(b, id) == [b EXCEPT !.prompt = None, !.tap = id]
TapLater(b) == [b EXCEPT !.prompt = None]
OpenConfirm(b) == [b EXCEPT !.confirm = b.ver]
ConfirmYes(b, id) == [b EXCEPT !.confirm = None, !.tap = id]
ConfirmNo(b) == [b EXCEPT !.confirm = None]
TapCheck(b) == [b EXCEPT !.check = TRUE]
=============================================================================
