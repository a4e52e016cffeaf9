----------------------------- MODULE PairUpdate -----------------------------
(***************************************************************************)
(* A pair update: one tap on the board installs the daemon's app and the   *)
(* board's firmware, across the daemon's own restart, the board's reset    *)
(* and the serial link between them.  The board is UpdateBoard, the daemon *)
(* UpdateBridge; this module gives them the cable, the release feed, the   *)
(* blocking steps of an install, the file of the pending approval, and     *)
(* what can go wrong: lost connections, crashes, resets, failed downloads  *)
(* and failed writes.                                                      *)
(*                                                                         *)
(* The daemon is one thread, and so is the board: a handler is one step,   *)
(* cut where it blocks (replacing the app, downloading, writing), where    *)
(* the user, the board and the feed go on without it.  The two fetches of  *)
(* one query see the same newest release, or fail separately.              *)
(***************************************************************************)
EXTENDS UpdateBridge, FiniteSets

CONSTANTS MaxVer,      \* releases are 1 .. MaxVer
          FirstFws, FirstApps, FirstFeed,  \* where the system starts
          MaxTaps,     \* bound on the user's approvals
          MaxFaults,   \* bound on crashes, lost links, resets, failed writes
          MaxUp,       \* bounds on the messages under way to the daemon
          MaxDown      \* and to the board

Versions == 1 .. MaxVer

ASSUME VersionAssumption ==
  /\ MaxVer \in Nat
  /\ FirstFws \subseteq Versions /\ FirstApps \subseteq Versions /\ FirstFeed \in Versions
ASSUME ProtoAssumption ==
  /\ Proto \in [Versions -> Nat \ {0}] /\ Floor \in [Versions -> Nat]
ASSUME BoundAssumption ==
  /\ MaxTaps \in Nat /\ MaxFaults \in Nat /\ MaxUp \in Nat /\ MaxDown \in Nat
  /\ ResumeTries \in Nat \ {0} /\ HasBuild \in BOOLEAN

VARIABLES
  feed,      \* the newest published release
  board,     \* UpdateBoard's record
  app,       \* the version of the daemon's binary
  link,      \* "closed", "probing" (welcome sent, nothing heard), "open"
  br,        \* the Bridge of this connection
  work,      \* what the daemon is blocked in
  offer,     \* offer_if_newer's argument, still to be called (None: no)
  note,      \* pending_fw.json
  known,     \* board.json: the firmware last heard of
  owed,      \* main's report_failure
  toBoard, toDaemon,   \* messages under way
  taps,      \* history: the approvals given
  writes,    \* history: the approvals a write into slot0 was made on
  faults     \* how many faults so far

daemon == <<app, link, br, work, offer, note, known, owed>>
vars == <<feed, board, daemon, toBoard, toDaemon, taps, writes, faults>>

Init == /\ feed = FirstFeed
        /\ board \in {PowerOn(fw) : fw \in FirstFws}
        /\ app \in FirstApps
        /\ link = "closed" /\ br = NewBridge(FALSE) /\ work = Idle /\ offer = None
        /\ note = NoNote /\ known = None /\ owed = FALSE
        /\ toBoard = <<>> /\ toDaemon = <<>>
        /\ taps = 0 /\ writes = {} /\ faults = 0

Publish == /\ feed < MaxVer
           /\ feed' = feed + 1
           /\ UNCHANGED <<board, daemon, toBoard, toDaemon, taps, writes, faults>>

\* What a fetch can give.
Fetch == {None, feed}

Fault == faults < MaxFaults /\ faults' = faults + 1

-----------------------------------------------------------------------------
(* The cable.  A closed port loses what the board says; what was on its    *)
(* way to the board when the port closed may still arrive.                 *)

Alive == board.fw # None

SendToBoard(out) == /\ Len(toBoard) + Len(out) <= MaxDown
                    /\ toBoard' = toBoard \o out

\* A pref tells the daemon nothing that a message ahead of it, or one it has
\* had, does not tell.
Heard(m) == /\ link # "closed"
            /\ m.t = "pref" => /\ toDaemon = <<>>
                              /\ \/ link = "probing"
                                 \/ br.proto = 0

\* The board says at most one thing at a step.
SendToDaemon(out) ==
  \/ /\ out # <<>> /\ Heard(out[1])
     /\ Len(toDaemon) < MaxUp
     /\ toDaemon' = toDaemon \o out
  \/ /\ out # <<>> => ~Heard(out[1])
     /\ UNCHANGED toDaemon

\* The connection ends, with whatever its Bridge knew.
Disconnect == /\ link' = "closed" /\ br' = NewBridge(FALSE) /\ work' = Idle
              /\ offer' = None /\ toDaemon' = <<>>

\* The board starts over on firmware fw; its hello is heard on an open port.
Restart(fw) == /\ board' = PowerOn(fw)
               /\ toBoard' = <<>>

\* probe_is_our_board: ask, with the input buffer cleared.
Probe == /\ link = "closed"
         /\ link' = "probing"
         /\ toDaemon' = <<>>
         /\ SendToBoard(<<Welcome>>)
         /\ UNCHANGED <<feed, board, app, br, work, offer, note, known, owed, taps, writes, faults>>

\* Something came back: the board is running and is not reset.  What the probe
\* read is gone.  The daemon greets, and offers to the firmware it remembers.
ProbeAnswered ==
  /\ link = "probing"
  /\ \E n \in 1 .. Len(toDaemon) : toDaemon' = SubSeq(toDaemon, n + 1, Len(toDaemon))
  /\ link' = "open"
  /\ br' = NewBridge(FALSE)
  /\ owed' = FALSE
  /\ SendToBoard(Greeting(NewBridge(owed)))
  /\ offer' = known
  /\ UNCHANGED <<feed, board, app, work, note, known, taps, writes, faults>>

\* Nothing came back: the port is reopened with a reset, and the board boots.
ProbeSilent ==
  /\ link = "probing" /\ toDaemon = <<>>
  /\ link' = "open"
  /\ br' = NewBridge(owed)
  /\ owed' = FALSE
  /\ Restart(board.fw)
  /\ toDaemon' = IF Alive THEN <<Hello(board.fw, Proto[board.fw])>> ELSE <<>>
  /\ UNCHANGED <<feed, app, work, offer, note, known, taps, writes, faults>>

-----------------------------------------------------------------------------
(* The daemon, on_message.  A handler runs when nothing blocks the thread. *)

Ready == link = "open" /\ work = Idle /\ offer = None

DaemonStep == UNCHANGED <<feed, board, app, link, known, owed, taps, writes, faults>>

Take(r) == br' = r.br /\ note' = r.note /\ work' = r.work

\* The first message that is not a hello tells the board's protocol, and an
\* approved install is picked up before that message is looked at.
Learn ==
  /\ Ready /\ toDaemon # <<>> /\ br.proto = 0
  /\ Head(toDaemon).t # "hello"
  /\ \E f, s \in Fetch :
       LET r == Resume([br EXCEPT !.proto = Head(toDaemon).proto], app, note, f, s)
       IN  Take(r) /\ SendToBoard(r.out)
  /\ UNCHANGED <<offer, toDaemon>>
  /\ DaemonStep

HandleHello ==
  /\ Ready /\ toDaemon # <<>> /\ Head(toDaemon).t = "hello"
  /\ LET m == Head(toDaemon)
         b == [br EXCEPT !.proto = m.proto, !.heard = TRUE, !.fw = m.fw, !.report = FALSE]
     IN  /\ \E f, s \in Fetch :
              LET r == Resume(b, app, note, f, s)
              IN  Take(r) /\ SendToBoard(Greeting(br) \o r.out)
         /\ offer' = m.fw
         /\ known' = m.fw
  /\ toDaemon' = Tail(toDaemon)
  /\ UNCHANGED <<feed, board, app, link, owed, taps, writes, faults>>

HandleQuery ==
  /\ Ready /\ toDaemon # <<>> /\ Head(toDaemon).t = "ota_query" /\ br.proto # 0
  /\ LET cur == Head(toDaemon).fw
     IN  /\ \E f, s \in Fetch :
              LET a == Answer(br, app, cur, f, s)
              IN  br' = a.br /\ SendToBoard(<<a.msg>>)
         /\ known' = cur
  /\ toDaemon' = Tail(toDaemon)
  /\ UNCHANGED <<feed, board, app, link, work, offer, note, owed, taps, writes, faults>>

HandleFlash ==
  /\ Ready /\ toDaemon # <<>> /\ Head(toDaemon).t = "ota_flash" /\ br.proto # 0
  /\ LET r == FlashStart(br, note, Head(toDaemon).id)
     IN  Take(r) /\ SendToBoard(r.out)
  /\ toDaemon' = Tail(toDaemon)
  /\ UNCHANGED offer
  /\ DaemonStep

HandlePref ==
  /\ Ready /\ toDaemon # <<>> /\ Head(toDaemon).t = "pref" /\ br.proto # 0
  /\ toDaemon' = Tail(toDaemon)
  /\ UNCHANGED <<toBoard, br, work, offer, note>>
  /\ DaemonStep

\* offer_if_newer, after a hello or on a board already running: skipped if it
\* was asked within a minute, of which asked only says that there was a query.
OfferIfNewer ==
  /\ link = "open" /\ work = Idle /\ offer # None
  /\ \/ br.asked /\ UNCHANGED <<br, toBoard>>
     \/ \E f, s \in Fetch :
          LET a == Answer(br, app, offer, f, s)
          IN  br' = a.br /\ SendToBoard(<<a.msg>>)
  /\ offer' = None
  /\ UNCHANGED <<toDaemon, work, note>>
  /\ DaemonStep

\* What was on the cable is read, and the board has done what it asks for.
Settled == /\ toBoard = <<>> /\ toDaemon = <<>>
           /\ ~board.check /\ board.tap = 0
           /\ Tick(board, TRUE, FALSE) = board

\* retry_offer_if_failed, two minutes after a failure, when all has settled.
RetryOffer ==
  /\ Ready /\ br.failed /\ br.heard
  /\ Settled
  /\ \E f, s \in Fetch :
       LET a == Answer(br, app, br.fw, f, s)
       IN  br' = a.br /\ SendToBoard(<<a.msg>>)
  /\ UNCHANGED <<toDaemon, work, offer, note>>
  /\ DaemonStep

-----------------------------------------------------------------------------
(* The blocking steps of an install.                                       *)

\* The app is replaced: this process is gone, the note is what is left.
SelfUpdated ==
  /\ work.kind = "selfupd"
  /\ app' = work.upd
  /\ Disconnect
  /\ owed' = FALSE
  /\ UNCHANGED <<feed, board, note, known, toBoard, taps, writes, faults>>

\* It could not be: the old app installs the firmware, and takes the note back.
SelfUpdateFails ==
  /\ work.kind = "selfupd"
  /\ note' = NoNote
  /\ work' = [work EXCEPT !.kind = "download"]
  /\ UNCHANGED <<toBoard, toDaemon, br, offer>>
  /\ DaemonStep

\* Not fetched, or not what its manifest says.
DownloadFails ==
  /\ work.kind = "download"
  /\ br' = OtaReset(br)
  /\ work' = Idle
  /\ SendToBoard(<<OtaError>>)
  /\ UNCHANGED <<toDaemon, offer, note>>
  /\ DaemonStep

Downloaded ==
  /\ work.kind = "download"
  /\ br' = OtaReset(br)
  /\ work' = [work EXCEPT !.kind = "flash"]
  /\ SendToBoard(<<OtaBegin(work.ver)>>)
  /\ UNCHANGED <<toDaemon, offer, note>>
  /\ DaemonStep

\* esptool writes, verifies, and resets the board into the image.
Flashed ==
  /\ work.kind = "flash"
  /\ writes' = writes \cup {work.id}
  /\ Restart(work.ver)
  /\ Disconnect
  /\ owed' = FALSE
  /\ UNCHANGED <<feed, app, note, known, taps, faults>>

\* Refused before anything is written, or failed in both tries, half way or
\* with the image complete and the port lost before it could be verified; the
\* reason waits for the next connection.
FlashFails ==
  /\ work.kind = "flash" /\ Fault
  /\ \/ Restart(board.fw) /\ UNCHANGED writes
     \/ /\ \E fw \in {None, work.ver} : Restart(fw)
        /\ writes' = writes \cup {work.id}
  /\ Disconnect
  /\ owed' = TRUE
  /\ UNCHANGED <<feed, app, note, known, taps>>

-----------------------------------------------------------------------------
(* Faults.                                                                 *)

\* The daemon dies, wherever it is; in an install, the file it was replacing
\* or the slot it was writing may be done, not begun, or half done.
DaemonCrash ==
  /\ link # "closed" /\ Fault
  /\ app' \in IF work.kind = "selfupd" THEN {app, work.upd} ELSE {app}
  /\ \/ /\ work.kind = "flash"
        /\ \E fw \in {None, work.ver} : Restart(fw)
        /\ writes' = writes \cup {work.id}
     \/ UNCHANGED <<board, writes>> /\ toBoard' \in {toBoard, <<>>}
  /\ Disconnect
  /\ owed' = FALSE
  /\ UNCHANGED <<feed, note, known, taps>>

\* The port goes away under an idle daemon, with or without the board's power.
LinkLost ==
  /\ link = "open" /\ work = Idle /\ Fault
  /\ \/ Restart(board.fw)
     \/ UNCHANGED board /\ toBoard' \in {toBoard, <<>>}
  /\ Disconnect
  /\ UNCHANGED <<feed, app, note, known, owed, taps, writes>>

\* The board resets under an open port.
BoardResets ==
  /\ Alive /\ Fault
  /\ Restart(board.fw)
  /\ SendToDaemon(<<Hello(board.fw, Proto[board.fw])>>)
  /\ UNCHANGED <<feed, daemon, taps, writes>>

-----------------------------------------------------------------------------
(* The board and its user.                                                 *)

BoardStep == UNCHANGED <<feed, daemon, taps, writes, faults>>

BoardReceives ==
  /\ Alive /\ toBoard # <<>>
  /\ board' = Receive(board, Head(toBoard))
  /\ toBoard' = Tail(toBoard)
  /\ SendToDaemon(ReplyTo(Head(toBoard), Proto[board.fw]))
  /\ BoardStep

ServeRequests ==
  /\ Alive /\ (board.tap # 0 \/ board.check)
  /\ board' = Requests(board)
  /\ SendToDaemon(Asks(board, Proto[board.fw]))
  /\ UNCHANGED toBoard
  /\ BoardStep

CheckTimeout ==
  /\ Alive /\ ~board.check /\ board.st = "checking"
  /\ board' = CheckTimesOut(board)
  /\ UNCHANGED <<toBoard, toDaemon>>
  /\ BoardStep

Ticks ==
  /\ Alive /\ ~board.check
  /\ \E busy, late \in BOOLEAN :
       /\ board.confirm # None => busy
       /\ board' = Tick(board, busy, late)
  /\ board' # board
  /\ UNCHANGED <<toBoard, toDaemon>>
  /\ BoardStep

\* The 10 s ping, where it tells the daemon anything.
Ping ==
  /\ Alive /\ Heard(Pref(Proto[board.fw]))
  /\ SendToDaemon(<<Pref(Proto[board.fw])>>)
  /\ UNCHANGED <<board, toBoard>>
  /\ BoardStep

Approve ==
  /\ Alive /\ ~board.check /\ board.tap = 0 /\ taps < MaxTaps
  /\ taps' = taps + 1
  /\ \/ board.prompt # None /\ board' = TapNow(board, taps')
     \/ board.confirm # None /\ board' = ConfirmYes(board, taps')
  /\ UNCHANGED <<feed, daemon, toBoard, toDaemon, writes, faults>>

UserElse ==
  /\ Alive /\ ~board.check
  /\ \/ board.prompt # None /\ board' = TapLater(board)
     \/ board.st = "available" /\ board.confirm = None /\ board' = OpenConfirm(board)
     \/ board.confirm # None /\ board' = ConfirmNo(board)
     \/ board.st = "idle" /\ ~board.check /\ board' = TapCheck(board)
  /\ UNCHANGED <<toBoard, toDaemon>>
  /\ BoardStep

-----------------------------------------------------------------------------
Connection == Probe \/ ProbeAnswered \/ ProbeSilent

Handlers == \/ Learn \/ HandleHello \/ HandleQuery \/ HandleFlash \/ HandlePref
            \/ OfferIfNewer \/ RetryOffer

Install == \/ SelfUpdated \/ SelfUpdateFails \/ DownloadFails \/ Downloaded
           \/ Flashed \/ FlashFails

Faults == DaemonCrash \/ LinkLost \/ BoardResets

TheBoard == \/ BoardReceives \/ ServeRequests \/ CheckTimeout \/ Ticks \/ Ping

User == Approve \/ UserElse

Next == Publish \/ Connection \/ Handlers \/ Install \/ Faults \/ TheBoard \/ User

Spec == Init /\ [][Next]_vars

\* The daemon's loop and the board's keep turning; feeds, users, faults and
\* deadlines owe nothing.
Fairness == /\ WF_vars(Connection) /\ WF_vars(Handlers) /\ WF_vars(Install)
            /\ WF_vars(BoardReceives) /\ WF_vars(ServeRequests) /\ WF_vars(Ping)

FairSpec == Spec /\ Fairness

-----------------------------------------------------------------------------
(* Properties.                                                             *)

Ids(q) == {q[i].id : i \in DOMAIN q} \ {0}

\* The approvals that can still lead to a write.
Live == ({board.tap, note.id, work.id} \cup Ids(toDaemon)) \ {0}

\* One tap buys at most one write, however often the daemon is replaced, the
\* link lost, the download failed or the resume retried; nothing is written
\* without a tap.
Consent == INSTANCE PairConsent WITH
             taps <- taps, pending <- Live, spent <- writes

ImplementsConsent == Consent!Spec

\* A step of a write into slot0.
Writes == writes' # writes

\* The board is not put a release ahead of the app unless replacing the app
\* was tried first (_app_pairing, _on_ota_flash's order).
AppGoesFirst == [][HasBuild /\ Writes /\ work.ver > app => work.tried]_vars

\* An approval picked up after a restart goes past the guard: no install that
\* is resumed starts on a board that speaks a newer protocol than the app
\* (bridge.py greet, which waits for the board to be heard before it resumes).
HoldsResume == work.kind = "idle" /\ work'.kind # "idle" /\ work'.id = note.id
                 => Proto[board.fw] <= Proto[app]

ResumeIsHeld == [][HoldsResume]_vars

\* The same of every write: a board that speaks a newer protocol than the app
\* is not written (bridge.py _board_ahead, "firmware updates are held until
\* you do").  It is: what is offered unasked to a board found running, before
\* that has been heard, is not looked at again when it is approved.
AheadIsHeld == [][Writes /\ Alive => Proto[board.fw] <= Proto[app]]_vars

Quiet == Ready /\ br.proto # 0 /\ Alive /\ Settled

\* What the panel offers is what the daemon holds, or is about to offer again.
NoDeadOffer == Quiet /\ board.staged => br.man = board.ver \/ br.failed

\* A pending approval is spent on an attempt at what it approved, counted
\* towards its limit, given up at the limit, dropped for a release that moved
\* on, or replaced by a new one, and never just lost.
KeepsNote ==
  note.ver # None /\ note' # note =>
    \/ work.kind = "selfupd" /\ work'.id = work.id
    \/ work'.kind # "idle" /\ work'.id = note.id /\ work'.ver = note.ver
    \/ note' = [note EXCEPT !.tries = @ + 1]
    \/ note' = NoNote /\ (LastTry(note) \/ feed # note.ver)
    \/ note'.ver # None /\ note'.id # note.id /\ note'.id = work'.id

ConsentKept == [][KeepsNote]_vars

\* An approval does not hang: it is spent, lost, or waiting in the note after a
\* try that found no feed, unless the board no longer boots.
ConsentSettles ==
  \A id \in 1 .. MaxTaps :
    id \in Live ~> id \notin Live \/ (note.id = id /\ note.tries > 0) \/ ~Alive

VersionOrNone == Versions \cup {None}

Boards == [fw : VersionOrNone, st : States, ver : VersionOrNone, staged : BOOLEAN,
           check : BOOLEAN, tap : Nat, prompt : VersionOrNone, confirm : VersionOrNone,
           latched : BOOLEAN, seen : States]

Bridges == [proto : Nat, heard : BOOLEAN, fw : VersionOrNone, man : VersionOrNone,
            upd : VersionOrNone, asked : BOOLEAN, failed : BOOLEAN, report : BOOLEAN]

Works == [kind : {"idle", "selfupd", "download", "flash"}, ver : VersionOrNone,
          upd : VersionOrNone, id : Nat, tried : BOOLEAN]

Notes == [ver : VersionOrNone, tries : 0 .. ResumeTries - 1, id : Nat]

FromBoard == [t : {"hello", "pref", "ota_query", "ota_flash"}, fw : VersionOrNone,
              id : Nat, proto : Nat]

FromDaemon == [t : {"welcome", "ota_avail", "ota_none", "ota_error", "ota_begin",
                    "ota_resume"}, ver : VersionOrNone]

TypeOK ==
  /\ feed \in Versions /\ app \in Versions
  /\ board \in Boards
  /\ link \in {"closed", "probing", "open"}
  /\ br \in Bridges /\ work \in Works /\ note \in Notes
  /\ offer \in VersionOrNone /\ known \in VersionOrNone /\ owed \in BOOLEAN
  /\ toBoard \in Seq(FromDaemon) /\ toDaemon \in Seq(FromBoard)
  /\ taps \in 0 .. MaxTaps /\ writes \subseteq 1 .. taps /\ faults \in 0 .. MaxFaults
=============================================================================
