--------------------------- MODULE PairUpdateProof ---------------------------
(***************************************************************************)
(* That one tap buys at most one write, that an approval is never just     *)
(* lost, that the app goes first and that a resumed install respects the   *)
(* protocol guard, proved for any releases, protocols, number of taps and  *)
(* faults, and any length of the cable's buffers.                          *)
(***************************************************************************)
EXTENDS PairUpdate, SequenceTheorems, TLAPS

\* What a connection's messages say of the board they come from.
Speaks == \A i \in DOMAIN toDaemon : Alive /\ toDaemon[i].proto = Proto[board.fw]

\* Only an approval carries a tap, and each tap is in one place: on its way to
\* the daemon, in the daemon's hands, or in the note; in the two last while
\* the app is replaced.
Carried == \A i \in DOMAIN toDaemon : toDaemon[i].id # 0 <=> toDaemon[i].t = "ota_flash"

OnePlace ==
  /\ \A i, j \in DOMAIN toDaemon : i # j /\ toDaemon[i].id # 0 => toDaemon[i].id # toDaemon[j].id
  /\ \A i \in DOMAIN toDaemon : toDaemon[i].id # 0 => toDaemon[i].id \notin {board.tap, work.id, note.id}
  /\ board.tap # 0 => board.tap \notin {work.id, note.id}
  /\ work.id # 0 /\ work.id = note.id => work.kind = "selfupd"

Unspent == Live \subseteq 1 .. taps /\ Live \cap writes = {}

\* An install that is under way has an approval and a release.
WorkSound(w) ==
  /\ w.kind = "idle" => w = Idle
  /\ w.kind # "idle" => w.id # 0 /\ w.ver # None
  /\ w.kind = "selfupd" => w.tried /\ w.upd # None

NoteSound(n) == n.ver = None <=> n.id = 0

\* The app comes first: no manifest is held that is ahead of the app, without
\* the app's own update.
AppFirst(a, b, w) ==
  HasBuild => /\ w.kind = "idle" /\ b.man > a => b.upd # None
              /\ w.kind \in {"download", "flash"} /\ w.ver > a => w.tried

Working == WorkSound(work) /\ NoteSound(note) /\ AppFirst(app, br, work)

IInv == TypeOK /\ Speaks /\ Carried /\ OnePlace /\ Unspent /\ Working

-----------------------------------------------------------------------------
(* Messages under way.                                                     *)

\* One message more.
LEMMA OneMore ==
  ASSUME NEW S, NEW q \in Seq(S), NEW m \in S
  PROVE  /\ q \o <<m>> \in Seq(S)
         /\ DOMAIN (q \o <<m>>) = 1 .. Len(q) + 1
         /\ \A i \in 1 .. Len(q) : (q \o <<m>>)[i] = q[i]
         /\ (q \o <<m>>)[Len(q) + 1] = m
<1>1. <<m>> \in Seq(S) /\ Len(<<m>>) = 1 /\ <<m>>[1] = m
  OBVIOUS
<1>2. /\ q \o <<m>> \in Seq(S) /\ Len(q \o <<m>>) = Len(q) + 1
      /\ \A i \in 1 .. Len(q) + 1 :
           (q \o <<m>>)[i] = IF i <= Len(q) THEN q[i] ELSE <<m>>[i - Len(q)]
  BY <1>1, ConcatProperties
<1>3. Len(q) \in Nat
  BY LenProperties
<1>4. DOMAIN (q \o <<m>>) = 1 .. Len(q) + 1
  BY <1>2, LenProperties
<1> QED BY <1>1, <1>2, <1>3, <1>4

\* What is left is what was there, some way on.
Suffix(q, r) == \E k \in Nat : \A i \in DOMAIN r : i + k \in DOMAIN q /\ r[i] = q[i + k]

LEMMA SuffixSelf == ASSUME NEW S, NEW q \in Seq(S) PROVE Suffix(q, q)
<1>1. DOMAIN q \subseteq Nat
  BY LenProperties
<1>2. \A i \in DOMAIN q : i + 0 \in DOMAIN q /\ q[i] = q[i + 0]
  BY <1>1
<1> QED BY <1>2 DEF Suffix

LEMMA SuffixEmpty == ASSUME NEW q PROVE Suffix(q, <<>>)
BY DEF Suffix

LEMMA SuffixTail ==
  ASSUME NEW S, NEW q \in Seq(S), q # <<>>
  PROVE  /\ Suffix(q, Tail(q)) /\ Tail(q) \in Seq(S) /\ Head(q) \in S
         /\ 1 \in DOMAIN q /\ Head(q) = q[1]
         /\ \A i \in DOMAIN Tail(q) : i + 1 \in DOMAIN q /\ i + 1 # 1 /\ Tail(q)[i] = q[i + 1]
<1>1. /\ Tail(q) \in Seq(S) /\ Len(Tail(q)) = Len(q) - 1 /\ Head(q) \in S /\ Head(q) = q[1]
      /\ \A i \in 1 .. Len(Tail(q)) : Tail(q)[i] = q[i + 1]
  BY HeadTailProperties
<1>2. Len(q) \in Nat \ {0} /\ DOMAIN q = 1 .. Len(q) /\ DOMAIN Tail(q) = 1 .. Len(Tail(q))
  BY <1>1, LenProperties, EmptySeq
<1>3. \A i \in DOMAIN Tail(q) : i + 1 \in DOMAIN q /\ i + 1 # 1 /\ Tail(q)[i] = q[i + 1]
  BY <1>1, <1>2
<1> QED BY <1>1, <1>2, <1>3 DEF Suffix

LEMMA SuffixSub ==
  ASSUME NEW S, NEW q \in Seq(S), NEW n \in 1 .. Len(q)
  PROVE  Suffix(q, SubSeq(q, n + 1, Len(q))) /\ SubSeq(q, n + 1, Len(q)) \in Seq(S)
<1> DEFINE r == SubSeq(q, n + 1, Len(q))
<1>1. Len(q) \in Nat /\ DOMAIN q = 1 .. Len(q)
  BY LenProperties
<1>2. r \in Seq(S)
  BY <1>1, SubSeqProperties
<1>3. DOMAIN r = 1 .. Len(q) - n /\ \A i \in 1 .. Len(q) - n : r[i] = q[i + n]
  <2>1. /\ n + 1 \in Int /\ Len(q) \in Int /\ \A i \in n + 1 .. Len(q) : q[i] \in S
        /\ Len(q) - (n + 1) + 1 = Len(q) - n
    BY <1>1
  <2>2. /\ Len(r) = IF n + 1 <= Len(q) THEN Len(q) - (n + 1) + 1 ELSE 0
        /\ \A i \in 1 .. Len(q) - (n + 1) + 1 : r[i] = q[(n + 1) + i - 1]
    BY <2>1, SubSeqProperties
  <2>3. Len(r) = Len(q) - n
    <3>1. Len(r) = IF n + 1 <= Len(q) THEN Len(q) - (n + 1) + 1 ELSE 0
      BY <2>2
    <3>2. n \in Nat /\ n <= Len(q) /\ Len(q) \in Nat
      BY <1>1
    <3> HIDE DEF r
    <3> QED BY <3>1, <3>2
  <2>4. \A i \in 1 .. Len(q) - n : (n + 1) + i - 1 = i + n
    BY <1>1
  <2>5. \A i \in 1 .. Len(q) - n : r[i] = q[i + n]
    <3> HIDE DEF r
    <3> QED BY <2>1, <2>2, <2>4
  <2> QED BY <1>2, <2>3, <2>5, LenProperties
<1>4. \A i \in DOMAIN r : i + n \in DOMAIN q /\ r[i] = q[i + n]
  BY <1>1, <1>3
<1>5. n \in Nat
  BY <1>1
<1> QED BY <1>2, <1>4, <1>5 DEF Suffix

-----------------------------------------------------------------------------
(* What the board's operators do to its record.                            *)

LEMMA PowerOnType ==
  ASSUME NEW fw \in VersionOrNone
  PROVE  PowerOn(fw) \in Boards /\ PowerOn(fw).fw = fw /\ PowerOn(fw).tap = 0
BY DEF PowerOn, Boards, VersionOrNone, States, None

\* A message from the daemon leaves the firmware and the tap alone.
LEMMA ReceiveType ==
  ASSUME NEW b \in Boards, NEW m \in FromDaemon
  PROVE  Receive(b, m) \in Boards /\ Receive(b, m).fw = b.fw /\ Receive(b, m).tap = b.tap
<1>1. \A st \in States :
        Unstaged(b, st) \in Boards /\ Unstaged(b, st).fw = b.fw /\ Unstaged(b, st).tap = b.tap
  BY DEF Unstaged, Boards, VersionOrNone, None
<1>2. {"idle", "failed"} \subseteq States
  BY DEF States
<1>3. CASE m.t \in {"ota_none", "ota_error"}
  BY <1>1, <1>2, <1>3 DEF Receive
<1>4. CASE m.t = "welcome"
  BY <1>4 DEF Receive, Boards
<1>5. CASE m.t \in {"ota_avail", "ota_resume"}
  BY <1>5 DEF Receive, Boards, FromDaemon, States
<1>6. CASE m.t = "ota_begin"
  BY <1>6 DEF Receive
<1> QED BY <1>3, <1>4, <1>5, <1>6 DEF FromDaemon

\* The requests are served: the tap is gone from the board.
LEMMA RequestsType ==
  ASSUME NEW b \in Boards, b.tap # 0 \/ b.check
  PROVE  Requests(b) \in Boards /\ Requests(b).fw = b.fw /\ Requests(b).tap = 0
<1> DEFINE clear == [b EXCEPT !.check = FALSE, !.tap = 0]
<1>1. clear \in Boards /\ clear.fw = b.fw /\ clear.tap = 0
  BY DEF Boards
<1>2. \A st \in States :
        /\ [clear EXCEPT !.st = st] \in Boards /\ [clear EXCEPT !.st = st].fw = b.fw
        /\ [clear EXCEPT !.st = st].tap = 0
        /\ Unstaged(clear, st) \in Boards /\ Unstaged(clear, st).fw = b.fw
        /\ Unstaged(clear, st).tap = 0
  BY <1>1 DEF Unstaged, Boards, VersionOrNone, None
<1>3. {"downloading", "failed", "checking"} \subseteq States
  BY DEF States
<1> HIDE DEF clear
<1>4. CASE b.tap # 0
  <2>1. Requests(b) = [clear EXCEPT !.st = IF b.staged THEN "downloading" ELSE "failed"]
    BY <1>4 DEF Requests, clear
  <2> QED BY <2>1, <1>2, <1>3
<1>5. CASE b.tap = 0
  <2>1. Requests(b) = Unstaged(clear, "checking")
    BY <1>5 DEF Requests, clear
  <2> QED BY <2>1, <1>2, <1>3
<1> QED BY <1>4, <1>5

\* The timer and the user's taps on anything but "yes" leave the tap alone.
LEMMA TickType ==
  ASSUME NEW b \in Boards, NEW busy \in BOOLEAN, NEW late \in BOOLEAN
  PROVE  /\ Tick(b, busy, late) \in Boards
         /\ Tick(b, busy, late).fw = b.fw /\ Tick(b, busy, late).tap = b.tap
<1> DEFINE p == PromptStep(b, busy)
           after == IF Announces(b) THEN "idle"
                    ELSE IF late /\ b.st = "downloading" /\ b.seen = b.st THEN "failed"
                    ELSE b.st
           saw == IF b.st \in {"failed", "downloading"} THEN b.st ELSE "idle"
           lifted == b.st = "failed" \/ (~(b.st = "available") /\ b.prompt # None)
           latched == b.latched /\ ~lifted
<1>1. latched \in BOOLEAN
  OBVIOUS
<1>2. p \in {[b EXCEPT !.prompt = b.ver, !.latched = TRUE],
             [b EXCEPT !.prompt = None, !.latched = latched], b}
  BY DEF PromptStep
<1>3. p \in Boards /\ p.fw = b.fw /\ p.tap = b.tap
  <2> HIDE DEF p, latched
  <2> QED BY <1>1, <1>2 DEF Boards, VersionOrNone
<1>4. after \in States /\ saw \in States
  BY DEF Boards, States
<1>5. Tick(b, busy, late) = [p EXCEPT !.st = after, !.seen = saw]
  BY DEF Tick
<1> HIDE DEF p, after, saw
<1> QED BY <1>3, <1>4, <1>5 DEF Boards

LEMMA ButtonType ==
  ASSUME NEW b \in Boards
  PROVE  \A c \in {TapLater(b), OpenConfirm(b), ConfirmNo(b), TapCheck(b), CheckTimesOut(b)} :
           c \in Boards /\ c.fw = b.fw /\ c.tap = b.tap
BY DEF TapLater, OpenConfirm, ConfirmNo, TapCheck, CheckTimesOut, Boards, VersionOrNone, States

LEMMA YesType ==
  ASSUME NEW b \in Boards, NEW id \in Nat
  PROVE  \A c \in {TapNow(b, id), ConfirmYes(b, id)} :
           c \in Boards /\ c.fw = b.fw /\ c.tap = id
BY DEF TapNow, ConfirmYes, Boards, VersionOrNone

-----------------------------------------------------------------------------
(* What the daemon's operators do to its record.                           *)

LEMMA NewBridgeType ==
  ASSUME NEW report \in BOOLEAN
  PROVE  NewBridge(report) \in Bridges /\ NewBridge(report).man = None
BY DEF NewBridge, Bridges, VersionOrNone, None

LEMMA IdleType == Idle \in Works /\ Idle.kind = "idle" /\ Idle.id = 0 /\ Idle.ver = None
BY DEF Idle, Works, VersionOrNone, None

LEMMA NoNoteType == NoNote \in Notes /\ NoNote.ver = None /\ NoNote.id = 0
BY BoundAssumption DEF NoNote, Notes, VersionOrNone, None

LEMMA OtaResetType ==
  ASSUME NEW b \in Bridges
  PROVE  /\ OtaReset(b) \in Bridges /\ OtaReset(b).man = None
         /\ OtaReset(b).proto = b.proto /\ OtaReset(b).upd = b.upd
BY DEF OtaReset, Bridges, VersionOrNone

LEMMA MessageType ==
  ASSUME NEW v \in VersionOrNone
  PROVE  {Welcome, OtaNone, OtaError, OtaAvail(v), OtaBegin(v), OtaResume(v)} \subseteq FromDaemon
BY DEF Welcome, OtaNone, OtaError, OtaAvail, OtaBegin, OtaResume, FromDaemon, VersionOrNone, None

\* A query's answer: what is held is what the feed gave, on a board that is not
\* ahead, and never ahead of an app that has nothing to be replaced by.
LEMMA AnswerType ==
  ASSUME NEW b \in Bridges, NEW cur \in VersionOrNone,
         NEW a \in Versions, NEW f \in VersionOrNone, NEW s \in VersionOrNone
  PROVE  LET r == Answer(b, a, cur, f, s)
         IN  /\ r.br \in Bridges /\ r.msg \in FromDaemon
             /\ r.br.proto = b.proto
             /\ r.br.man \in {None, f}
             /\ r.br.man # None => b.proto <= Proto[a]
             /\ HasBuild /\ r.br.man > a => r.br.upd # None
<1> DEFINE fw == IF b.heard THEN b.fw ELSE cur
           heard == [b EXCEPT !.asked = TRUE, !.failed = FALSE, !.heard = TRUE, !.fw = fw]
           upd == AppAvailable(a, s)
           found == [heard EXCEPT !.upd = upd]
           r == Answer(b, a, cur, f, s)
           ahead == Ahead(b, a) \/ (f # None /\ Floor[f] > Proto[a])
<1>1. fw \in VersionOrNone /\ upd \in VersionOrNone
  BY DEF AppAvailable, Bridges, VersionOrNone
<1>2. heard \in Bridges /\ heard.proto = b.proto
  <2> HIDE DEF fw
  <2> QED BY <1>1 DEF Bridges
<1>3. found \in Bridges /\ found.proto = b.proto /\ found.upd = upd
  <2> HIDE DEF heard, upd
  <2> QED BY <1>1, <1>2 DEF Bridges
<1>4. heard = [b EXCEPT !.asked = TRUE, !.failed = FALSE, !.heard = TRUE,
                        !.fw = IF b.heard THEN @ ELSE cur]
  BY DEF Bridges
<1>5. /\ ahead => r = [br |-> OtaReset(heard), msg |-> OtaNone]
      /\ ~ahead /\ ~Newer(f, cur) => r = [br |-> [found EXCEPT !.man = None], msg |-> OtaNone]
      /\ ~ahead /\ Newer(f, cur) /\ Unpaired(a, f, s) => r = [br |-> OtaReset(found), msg |-> OtaNone]
      /\ ~ahead /\ Newer(f, cur) /\ ~Unpaired(a, f, s)
           => r = [br |-> [found EXCEPT !.man = f], msg |-> OtaAvail(f)]
  BY <1>4 DEF Answer
<1>6. OtaNone \in FromDaemon /\ OtaAvail(f) \in FromDaemon
  BY MessageType
<1>7. None \in VersionOrNone /\ ~(None > a)
  BY VersionAssumption DEF VersionOrNone, None, Versions
<1> HIDE DEF heard, found, r
<1>8. CASE ahead
  <2>1. r.br = OtaReset(heard) /\ r.msg = OtaNone
    BY <1>5, <1>8
  <2> HIDE DEF ahead
  <2> QED BY <2>1, <1>2, <1>6, <1>7, OtaResetType DEF r
<1>9. CASE ~ahead /\ ~Newer(f, cur)
  <2>1. r.br = [found EXCEPT !.man = None] /\ r.msg = OtaNone
    BY <1>5, <1>9
  <2>2. r.br \in Bridges /\ r.br.proto = b.proto /\ r.br.man = None
    BY <2>1, <1>3, <1>7 DEF Bridges
  <2> QED BY <2>1, <2>2, <1>6, <1>7 DEF r
<1>10. CASE ~ahead /\ Newer(f, cur) /\ Unpaired(a, f, s)
  <2>1. r.br = OtaReset(found) /\ r.msg = OtaNone
    BY <1>5, <1>10
  <2> HIDE DEF ahead
  <2> QED BY <2>1, <1>3, <1>6, <1>7, OtaResetType DEF r
<1>11. CASE ~ahead /\ Newer(f, cur) /\ ~Unpaired(a, f, s)
  <2>1. r.br = [found EXCEPT !.man = f] /\ r.msg = OtaAvail(f)
    BY <1>5, <1>11
  <2>2. r.br \in Bridges /\ r.br.proto = b.proto /\ r.br.man = f /\ r.br.upd = upd
    BY <2>1, <1>3 DEF Bridges
  <2>3. b.proto <= Proto[a]
    <3>1. b.proto \in Nat /\ Proto[a] \in Nat
      BY ProtoAssumption DEF Bridges
    <3> QED BY <1>11, <3>1 DEF Ahead
  <2>4. HasBuild /\ f > a => upd # None
    BY <1>11 DEF Unpaired, Newer
  <2> HIDE DEF ahead, upd
  <2> QED BY <2>1, <2>2, <2>3, <2>4, <1>6 DEF r
<1> QED BY <1>8, <1>9, <1>10, <1>11 DEF r

\* What a call leaves behind, whichever way it ends.
Sound(a, r) ==
  /\ r.br \in Bridges /\ r.note \in Notes /\ r.work \in Works
  /\ r.out \in Seq(FromDaemon)
  /\ WorkSound(r.work) /\ NoteSound(r.note) /\ AppFirst(a, r.br, r.work)
  /\ r.work.id # 0 /\ r.work.id = r.note.id => r.work.kind = "selfupd"

LEMMA StoppedSound ==
  ASSUME NEW a \in Versions, NEW b \in Bridges, NEW n \in Notes, NoteSound(n),
         NEW out \in Seq(FromDaemon), AppFirst(a, b, Idle)
  PROVE  Sound(a, Result(b, n, Idle, out))
BY IdleType DEF Sound, Result, WorkSound

LEMMA ResetFirst ==
  ASSUME NEW a \in Versions, NEW b \in Bridges
  PROVE  AppFirst(a, OtaReset(b), Idle)
BY OtaResetType, VersionAssumption DEF AppFirst, Idle, None, Versions

\* An approval is put to work for the manifest held, or refused.
LEMMA FlashType ==
  ASSUME NEW a \in Versions, NEW b \in Bridges, NEW n \in Notes, NoteSound(n),
         NEW id \in Nat \ {0}, AppFirst(a, b, Idle), n.id # id
  PROVE  LET r == FlashStart(b, n, id)
         IN  /\ Sound(a, r)
             /\ r.work # Idle => r.work.id = id /\ r.work.ver = b.man
             /\ r.work = Idle => b.man = None
             /\ r.note = n \/ (r.note.id = id /\ r.work.id = id /\ r.note.ver # None)
<1> DEFINE r == FlashStart(b, n, id)
<1> SUFFICES /\ Sound(a, r)
             /\ r.work # Idle => r.work.id = id /\ r.work.ver = b.man
             /\ r.work = Idle => b.man = None
             /\ r.note = n \/ (r.note.id = id /\ r.work.id = id /\ r.note.ver # None)
  OBVIOUS
<1>1. CASE b.man # None /\ b.upd # None
  <2> DEFINE nt == [ver |-> b.man, tries |-> 0, id |-> id]
             wk == [kind |-> "selfupd", ver |-> b.man, upd |-> b.upd, id |-> id, tried |-> TRUE]
             bb == [b EXCEPT !.upd = None]
  <2>1. r = Result(bb, nt, wk, <<>>)
    BY <1>1 DEF FlashStart
  <2>2. nt \in Notes /\ wk \in Works /\ bb \in Bridges /\ <<>> \in Seq(FromDaemon)
    BY BoundAssumption DEF Notes, Works, Bridges, VersionOrNone
  <2>3. WorkSound(wk) /\ NoteSound(nt) /\ AppFirst(a, bb, wk)
    BY <1>1 DEF WorkSound, NoteSound, AppFirst
  <2>4. wk # Idle /\ wk.kind = "selfupd" /\ wk.id = id /\ wk.ver = b.man
        /\ nt.id = id /\ nt.ver = b.man
    BY IdleType
  <2> HIDE DEF nt, wk, bb
  <2> HIDE DEF r
  <2> QED BY <1>1, <2>1, <2>2, <2>3, <2>4 DEF Sound, Result
<1>2. CASE b.man = None
  <2>1. r = Result(b, n, Idle, <<OtaError>>)
    BY <1>2 DEF FlashStart
  <2>2. <<OtaError>> \in Seq(FromDaemon)
    BY MessageType DEF VersionOrNone
  <2>3. Sound(a, r)
    BY <2>1, <2>2, StoppedSound
  <2> HIDE DEF r
  <2> QED BY <1>2, <2>1, <2>3 DEF Result
<1>3. CASE b.man # None /\ b.upd = None
  <2> DEFINE wk == [Idle EXCEPT !.kind = "download", !.ver = b.man, !.id = id]
  <2>1. r = Result(b, n, wk, <<>>)
    BY <1>3 DEF FlashStart
  <2>2. wk \in Works /\ wk.kind = "download" /\ wk.id = id /\ wk.ver = b.man
    BY <1>3, IdleType DEF Works, Bridges
  <2>3. wk # Idle
    BY <2>2, IdleType
  <2>4. HasBuild => ~(b.man > a)
    BY <1>3, IdleType DEF AppFirst
  <2>6. <<>> \in Seq(FromDaemon)
    OBVIOUS
  <2> HIDE DEF wk
  <2>5. WorkSound(wk) /\ AppFirst(a, b, wk)
    BY <1>3, <2>2, <2>3, <2>4 DEF WorkSound, AppFirst
  <2> HIDE DEF r
  <2> QED BY <1>3, <2>1, <2>2, <2>3, <2>5, <2>6 DEF Sound, Result
<1> QED BY <1>1, <1>2, <1>3

\* The noted approval is picked up, or counted, or given up.
LEMMA ResumeType ==
  ASSUME NEW a \in Versions, NEW b \in Bridges, NEW n \in Notes, NoteSound(n),
         AppFirst(a, b, Idle), NEW f \in VersionOrNone, NEW s \in VersionOrNone
  PROVE  LET r == Resume(b, a, n, f, s)
         IN  /\ Sound(a, r)
             /\ r.note.id \in {0, n.id} /\ r.work.id \in {0, n.id}
             /\ r.work # Idle => /\ n.ver # None /\ r.work.id = n.id /\ r.work.ver = n.ver
                                 /\ b.proto <= Proto[a]
             /\ r.work = Idle /\ r.note # n =>
                  \/ r.note = [n EXCEPT !.tries = @ + 1]
                  \/ r.note = NoNote /\ (LastTry(n) \/ (f # None /\ f # n.ver))
<1> DEFINE x == Answer(b, a, b.fw, f, s)
           q == x.br
           go == FlashStart(q, Spent(n), n.id)
           r == Resume(b, a, n, f, s)
<1>1. /\ q \in Bridges /\ x.msg \in FromDaemon /\ q.man \in {None, f}
      /\ q.man # None => b.proto <= Proto[a]
      /\ HasBuild /\ q.man > a => q.upd # None
  BY AnswerType DEF Bridges
<1>2. /\ n.ver = None => r = Result(b, n, Idle, <<>>)
      /\ n.ver # None /\ q.man = None /\ LastTry(n)
           => r = Result(OtaReset(q), NoNote, Idle, <<x.msg, OtaError>>)
      /\ n.ver # None /\ q.man = None /\ ~LastTry(n)
           => r = Result(OtaReset(q), TriedOnce(n), Idle, <<x.msg>>)
      /\ n.ver # None /\ q.man # None /\ MovedOn(q, n)
           => r = Result(OtaReset(q), NoNote, Idle, <<x.msg>>)
      /\ n.ver # None /\ q.man # None /\ ~MovedOn(q, n)
           => r = [go EXCEPT !.out = <<x.msg, OtaResume(n.ver)>> \o @]
  BY DEF Resume
<1>3. n.id \in Nat /\ n.ver \in VersionOrNone /\ n.tries \in 0 .. ResumeTries - 1
  BY DEF Notes
<1>4. /\ OtaError \in FromDaemon /\ OtaResume(n.ver) \in FromDaemon
  BY <1>3, MessageType
<1>5. /\ <<>> \in Seq(FromDaemon) /\ <<x.msg>> \in Seq(FromDaemon)
      /\ <<x.msg, OtaError>> \in Seq(FromDaemon)
      /\ <<x.msg, OtaResume(n.ver)>> \in Seq(FromDaemon)
  BY <1>1, <1>4
<1>6. AppFirst(a, OtaReset(q), Idle) /\ OtaReset(q) \in Bridges
  BY <1>1, ResetFirst, OtaResetType
<1>7. NoNote \in Notes /\ NoteSound(NoNote) /\ NoNote.id = 0
  BY NoNoteType DEF NoteSound
<1> HIDE DEF x, q, go, r
<1>8. CASE n.ver = None
  <2>1. r = Result(b, n, Idle, <<>>)
    BY <1>2, <1>8
  <2>2. Sound(a, r)
    BY <2>1, <1>5, StoppedSound
  <2> QED BY <2>1, <2>2, IdleType DEF r, Result
<1>9. CASE n.ver # None /\ q.man = None /\ LastTry(n)
  <2>1. r = Result(OtaReset(q), NoNote, Idle, <<x.msg, OtaError>>)
    BY <1>2, <1>9
  <2>2. Sound(a, r)
    BY <2>1, <1>5, <1>6, <1>7, StoppedSound
  <2> QED BY <2>1, <2>2, <1>7, <1>9, IdleType DEF r, Result
<1>10. CASE n.ver # None /\ q.man = None /\ ~LastTry(n)
  <2>1. r = Result(OtaReset(q), TriedOnce(n), Idle, <<x.msg>>)
    BY <1>2, <1>10
  <2>2. TriedOnce(n) \in Notes /\ TriedOnce(n).ver = n.ver /\ TriedOnce(n).id = n.id
    <3>1. n.tries + 1 \in 0 .. ResumeTries - 1
      BY <1>3, <1>10, BoundAssumption DEF LastTry
    <3> QED BY <3>1 DEF TriedOnce, Notes
  <2>3. NoteSound(TriedOnce(n))
    BY <2>2 DEF NoteSound
  <2>4. Sound(a, r)
    BY <2>1, <2>2, <2>3, <1>5, <1>6, StoppedSound
  <2>5. TriedOnce(n) = [n EXCEPT !.tries = @ + 1]
    BY DEF TriedOnce
  <2>6. r.note = TriedOnce(n) /\ r.work = Idle
    BY <2>1 DEF Result
  <2> HIDE DEF r
  <2>7. r.note.id = n.id /\ r.work.id = 0 /\ r.note = [n EXCEPT !.tries = @ + 1]
    BY <2>2, <2>5, <2>6, IdleType
  <2> QED BY <2>4, <2>6, <2>7 DEF r
<1>11. CASE n.ver # None /\ q.man # None /\ MovedOn(q, n)
  <2>1. r = Result(OtaReset(q), NoNote, Idle, <<x.msg>>)
    BY <1>2, <1>11
  <2>2. Sound(a, r)
    BY <2>1, <1>5, <1>6, <1>7, StoppedSound
  <2>3. f # None /\ f # n.ver
    BY <1>1, <1>11 DEF MovedOn
  <2> QED BY <2>1, <2>2, <2>3, <1>7, IdleType DEF r, Result
<1>12. CASE n.ver # None /\ q.man # None /\ ~MovedOn(q, n)
  <2>1. r = [go EXCEPT !.out = <<x.msg, OtaResume(n.ver)>> \o @]
    BY <1>2, <1>12
  <2>2. n.id \in Nat \ {0} /\ q.man = n.ver
    BY <1>3, <1>12 DEF NoteSound, MovedOn
  <2>3. AppFirst(a, q, Idle)
    BY <1>1, IdleType DEF AppFirst
  <2>4. /\ Sound(a, go)
        /\ go.work # Idle => go.work.id = n.id /\ go.work.ver = q.man
        /\ go.work = Idle => q.man = None
        /\ go.note = NoNote \/ go.note.id = n.id
    BY <1>1, <1>7, <2>2, <2>3, FlashType DEF go, Spent
  <2>5. r.br = go.br /\ r.note = go.note /\ r.work = go.work
        /\ r.out = <<x.msg, OtaResume(n.ver)>> \o go.out
    <3>1. go \in [br : {go.br}, note : {go.note}, work : {go.work}, out : {go.out}]
      BY DEF go, FlashStart, Result
    <3> QED BY <2>1, <3>1
  <2>6. r.out \in Seq(FromDaemon)
    BY <1>5, <2>4, <2>5, ConcatProperties DEF Sound
  <2>7. Sound(a, r)
    BY <2>4, <2>5, <2>6 DEF Sound
  <2> QED BY <1>1, <1>7, <1>12, <2>2, <2>4, <2>5, <2>7 DEF r
<1> QED BY <1>8, <1>9, <1>10, <1>11, <1>12

LEMMA GreetingType == ASSUME NEW b \in Bridges PROVE Greeting(b) \in Seq(FromDaemon)
<1>1. Welcome \in FromDaemon /\ OtaError \in FromDaemon
  BY MessageType DEF VersionOrNone
<1> QED BY <1>1 DEF Greeting

-----------------------------------------------------------------------------
(* Approvals move, are lost, or are spent.                                 *)

Placed == Speaks /\ Carried /\ OnePlace

\* What a step may do to the approvals.
Consents ==
  \/ Live' \subseteq Live /\ taps' = taps /\ writes' = writes
  \/ /\ work.kind = "flash" /\ work.id \in Live /\ writes' = writes \cup {work.id}
     /\ Live' \subseteq Live \ {work.id} /\ taps' = taps
  \/ /\ taps < MaxTaps /\ taps' = taps + 1
     /\ Live' = Live \cup {taps + 1} /\ writes' = writes

LEMMA UnspentStep == ASSUME TypeOK, Unspent, Consents PROVE Unspent'
<1>1. taps \in Nat /\ writes \subseteq 1 .. taps /\ Live \subseteq 1 .. taps
  BY BoundAssumption DEF TypeOK, Unspent
<1>2. CASE taps' = taps + 1 /\ Live' = Live \cup {taps + 1} /\ writes' = writes
  <2>1. taps + 1 \notin writes /\ 1 .. taps \subseteq 1 .. taps' /\ taps + 1 \in 1 .. taps'
    BY <1>1, <1>2
  <2> QED BY <1>1, <1>2, <2>1 DEF Unspent
<1>3. CASE Live' \subseteq Live /\ taps' = taps /\ writes' = writes
  BY <1>1, <1>3 DEF Unspent
<1>4. CASE /\ writes' = writes \cup {work.id}
           /\ Live' \subseteq Live \ {work.id} /\ taps' = taps
  BY <1>1, <1>4 DEF Unspent
<1> QED BY <1>2, <1>3, <1>4 DEF Consents

\* An approval never comes back: what is in the places the daemon and the board
\* keep it was there before.
LEMMA Loses ==
  ASSUME TypeOK, toDaemon' \in Seq(FromBoard), Placed,
         Suffix(toDaemon, toDaemon'),
         board'.fw = board.fw \/ toDaemon' = <<>>,
         board'.tap \in {0, board.tap},
         work'.id \in {0, work.id, note.id}, note'.id \in {0, work.id, note.id},
         work'.id # 0 /\ work'.id = note'.id => work'.kind = "selfupd"
  PROVE  Placed' /\ Live' \subseteq Live
<1>1. PICK k \in Nat : \A i \in DOMAIN toDaemon' :
                         i + k \in DOMAIN toDaemon /\ toDaemon'[i] = toDaemon[i + k]
  BY DEF Suffix
<1>2. DOMAIN toDaemon' \subseteq Nat
  BY LenProperties
<1>3. Speaks'
  BY <1>1 DEF Placed, Speaks, Alive
<1>4. Carried'
  BY <1>1 DEF Placed, Carried
<1>5. OnePlace'
  <2>1. \A i, j \in DOMAIN toDaemon' :
          i # j /\ toDaemon'[i].id # 0 => toDaemon'[i].id # toDaemon'[j].id
    <3> SUFFICES ASSUME NEW i \in DOMAIN toDaemon', NEW j \in DOMAIN toDaemon', i # j,
                        toDaemon'[i].id # 0
                 PROVE  toDaemon'[i].id # toDaemon'[j].id
      OBVIOUS
    <3>1. i + k # j + k
      BY <1>2
    <3> QED BY <1>1, <3>1 DEF Placed, OnePlace
  <2>2. \A i \in DOMAIN toDaemon' : toDaemon'[i].id # 0 =>
           toDaemon'[i].id \notin {board.tap, work.id, note.id}
    BY <1>1 DEF Placed, OnePlace
  <2>3. board'.tap # 0 => board'.tap \notin {work'.id, note'.id}
    BY DEF Placed, OnePlace
  <2> QED BY <2>1, <2>2, <2>3 DEF OnePlace
<1>6. Live' \subseteq Live
  <2>1. Ids(toDaemon)' \subseteq Ids(toDaemon)
    BY <1>1 DEF Ids
  <2> QED BY <2>1 DEF Live
<1> QED BY <1>3, <1>4, <1>5, <1>6 DEF Placed

\* The board says one thing more, and hands over the tap if it is an approval.
LEMMA Says ==
  ASSUME TypeOK, Placed, Alive, NEW m \in FromBoard, toDaemon' = toDaemon \o <<m>>,
         m.proto = Proto[board.fw], m.id # 0 <=> m.t = "ota_flash",
         m.id \in {0, board.tap}, board'.fw = board.fw,
         board'.tap \in {0, board.tap}, m.id # 0 => board'.tap = 0,
         work' = work, note' = note
  PROVE  Placed' /\ Live' \subseteq Live
<1> DEFINE n == Len(toDaemon) + 1
<1>1. /\ DOMAIN toDaemon = 1 .. Len(toDaemon) /\ Len(toDaemon) \in Nat
      /\ DOMAIN toDaemon' = 1 .. n
      /\ \A i \in 1 .. Len(toDaemon) : toDaemon'[i] = toDaemon[i]
      /\ toDaemon'[n] = m
  BY OneMore, LenProperties DEF TypeOK
<1>2. \A i \in DOMAIN toDaemon' : i = n \/ (i \in DOMAIN toDaemon /\ toDaemon'[i] = toDaemon[i])
  BY <1>1
<1>3. n \in DOMAIN toDaemon' /\ n \notin DOMAIN toDaemon
  BY <1>1
<1> HIDE DEF n
<1>4. Speaks'
  BY <1>1, <1>2 DEF Placed, Speaks, Alive
<1>5. Carried'
  BY <1>1, <1>2 DEF Placed, Carried
<1>6. OnePlace'
  <2>1. \A i, j \in DOMAIN toDaemon' :
          i # j /\ toDaemon'[i].id # 0 => toDaemon'[i].id # toDaemon'[j].id
    BY <1>1, <1>2 DEF Placed, OnePlace
  <2>2. \A i \in DOMAIN toDaemon' : toDaemon'[i].id # 0 =>
           toDaemon'[i].id \notin {board'.tap, work'.id, note'.id}
    BY <1>1, <1>2 DEF Placed, OnePlace
  <2>3. board'.tap # 0 => board'.tap \notin {work'.id, note'.id}
    BY DEF Placed, OnePlace
  <2>4. work'.id # 0 /\ work'.id = note'.id => work'.kind = "selfupd"
    BY DEF Placed, OnePlace
  <2> QED BY <2>1, <2>2, <2>3, <2>4 DEF OnePlace
<1>7. Live' \subseteq Live
  <2>1. Ids(toDaemon)' \subseteq Ids(toDaemon) \cup ({m.id} \ {0})
    BY <1>1, <1>2 DEF Ids
  <2> QED BY <2>1 DEF Live
<1> QED BY <1>4, <1>5, <1>6, <1>7 DEF Placed

\* A write takes its approval, and everything under way to the daemon.
LEMMA Spends ==
  ASSUME TypeOK, Placed, Working, work.kind = "flash", work' = Idle, note' = note,
         toDaemon' = <<>>, board'.tap = 0,
         writes' = writes \cup {work.id}, taps' = taps
  PROVE  Placed' /\ Consents
<1>1. work.id # 0 /\ work.id # note.id /\ work.id \in Live
  BY DEF Working, WorkSound, Placed, OnePlace, Live
<1>2. Placed'
  BY IdleType DEF Placed, Speaks, Carried, OnePlace
<1>3. Ids(toDaemon)' = {}
  BY DEF Ids
<1>4. Live' \subseteq Live \ {work.id}
  BY <1>1, <1>3, IdleType DEF Live
<1> QED BY <1>1, <1>2, <1>4 DEF Consents

\* SendToDaemon's two ways.
LEMMA Sends ==
  ASSUME TypeOK, NEW m, SendToDaemon(<<m>>)
  PROVE  toDaemon' \in {toDaemon, toDaemon \o <<m>>}
BY DEF SendToDaemon

\* What the invariant asks of a step, apart from the types.
Keeps == Placed' /\ Working' /\ Consents /\ KeepsNote /\ HoldsResume

LEMMA KeepsInv == ASSUME IInv, TypeOK', Keeps PROVE IInv'
BY UnspentStep DEF IInv, Keeps, Placed

\* Steps that leave the approvals and the installs alone.
LEMMA Quietly ==
  ASSUME IInv, toDaemon' \in Seq(FromBoard), Suffix(toDaemon, toDaemon'),
         board'.fw = board.fw \/ toDaemon' = <<>>, board'.tap \in {0, board.tap},
         work' = work, note' = note, taps' = taps, writes' = writes, app' = app,
         br'.man = br.man /\ br'.upd = br.upd
  PROVE  Keeps
<1>1. Placed' /\ Live' \subseteq Live
  BY Loses DEF IInv, Placed, OnePlace
<1>2. Working'
  BY DEF IInv, Working, WorkSound, NoteSound, AppFirst
<1> QED BY <1>1, <1>2 DEF Keeps, Consents, KeepsNote, HoldsResume

-----------------------------------------------------------------------------
(* The steps.  First what many of them share.                              *)

LEMMA SendsToBoard ==
  ASSUME TypeOK, NEW out \in Seq(FromDaemon), SendToBoard(out)
  PROVE  toBoard' \in Seq(FromDaemon)
BY ConcatProperties DEF SendToBoard, TypeOK

LEMMA AliveVersion ==
  ASSUME TypeOK, Alive
  PROVE  board.fw \in Versions /\ Proto[board.fw] \in Nat \ {0}
<1>1. board.fw \in Versions
  BY DEF TypeOK, Boards, Alive, VersionOrNone
<1> QED BY <1>1, ProtoAssumption

\* What the board says is stamped with its protocol, and only an approval
\* carries a tap.
LEMMA SaysType ==
  ASSUME TypeOK, Alive, NEW id \in Nat \ {0}
  PROVE  LET p == Proto[board.fw]
         IN  /\ {Hello(board.fw, p), Pref(p), OtaQuery(board.fw, p), OtaFlash(id, p)} \subseteq FromBoard
             /\ \A m \in {Hello(board.fw, p), Pref(p), OtaQuery(board.fw, p)} :
                  m.proto = p /\ m.id = 0 /\ m.t # "ota_flash"
             /\ OtaFlash(id, p).proto = p /\ OtaFlash(id, p).id = id /\ OtaFlash(id, p).t = "ota_flash"
BY AliveVersion DEF Hello, Pref, OtaQuery, OtaFlash, FromBoard, VersionOrNone, None

LEMMA Nothing ==
  /\ None \in VersionOrNone /\ <<>> \in Seq(FromDaemon) /\ <<>> \in Seq(FromBoard)
  /\ \A q : Suffix(q, <<>>)
BY SuffixEmpty DEF VersionOrNone

\* The end of a connection, whatever else is cleared with it.
LEMMA Disconnects ==
  ASSUME IInv, Disconnect, note' \in {note, NoNote}, app' \in Versions,
         board'.tap \in {0, board.tap}
  PROVE  /\ link' = "closed" /\ br' \in Bridges /\ work' = Idle /\ work' \in Works
         /\ offer' \in VersionOrNone /\ toDaemon' = <<>> /\ toDaemon' \in Seq(FromBoard)
         /\ note' \in Notes
         /\ Working' /\ Placed' /\ Live' \subseteq Live
<1>1. /\ link' = "closed" /\ br' = NewBridge(FALSE) /\ work' = Idle /\ offer' = None
      /\ toDaemon' = <<>>
  BY DEF Disconnect
<1>2. br' \in Bridges /\ br'.man = None
  BY <1>1, NewBridgeType
<1>3. note' \in Notes /\ NoteSound(note') /\ note'.id \in {0, note.id}
  BY NoNoteType DEF IInv, TypeOK, Working, NoteSound
<1>4. Working'
  <2>1. ~(None > app')
    BY VersionAssumption DEF None, Versions
  <2>2. WorkSound(work') /\ AppFirst(app', br', work')
    BY <1>1, <1>2, <2>1, IdleType DEF WorkSound, AppFirst
  <2> QED BY <1>3, <2>2 DEF Working, WorkSound, NoteSound, AppFirst
<1>5. toDaemon' \in Seq(FromBoard) /\ Suffix(toDaemon, toDaemon')
  BY <1>1, Nothing
<1>6. work'.id = 0
  BY <1>1, IdleType
<1>7. Placed' /\ Live' \subseteq Live
  BY <1>1, <1>3, <1>5, <1>6, Loses DEF IInv, Placed
<1> QED BY <1>1, <1>2, <1>3, <1>4, <1>5, <1>7, IdleType, Nothing

-----------------------------------------------------------------------------
(* The feed, the probe and the connection.                                 *)

LEMMA PublishStep == ASSUME IInv, Publish PROVE TypeOK' /\ Keeps
<1>1. /\ feed' \in Versions
      /\ UNCHANGED <<board, app, link, br, work, offer, note, known, owed, toBoard, toDaemon,
                     taps, writes, faults>>
  BY VersionAssumption DEF Publish, daemon, IInv, TypeOK, Versions
<1>2. TypeOK'
  BY <1>1 DEF IInv, TypeOK
<1>3. Suffix(toDaemon, toDaemon')
  BY <1>1, SuffixSelf DEF IInv, TypeOK
<1>4. board'.tap = board.tap /\ board'.fw = board.fw /\ br'.man = br.man /\ br'.upd = br.upd
  BY <1>1
<1>5. Keeps
  BY <1>1, <1>2, <1>3, <1>4, Quietly DEF TypeOK
<1> QED BY <1>2, <1>5

LEMMA ProbeStep == ASSUME IInv, Probe PROVE TypeOK' /\ Keeps
<1>1. /\ link' = "probing" /\ toDaemon' = <<>> /\ SendToBoard(<<Welcome>>)
      /\ UNCHANGED <<feed, board, app, br, work, offer, note, known, owed, taps, writes, faults>>
  BY DEF Probe
<1>2. <<Welcome>> \in Seq(FromDaemon)
  BY MessageType, Nothing
<1>3. toBoard' \in Seq(FromDaemon)
  BY <1>1, <1>2, SendsToBoard DEF IInv
<1>4. TypeOK'
  BY <1>1, <1>3, Nothing DEF IInv, TypeOK
<1>5. board'.tap = board.tap /\ board'.fw = board.fw /\ br'.man = br.man /\ br'.upd = br.upd
  BY <1>1
<1>6. Suffix(toDaemon, toDaemon') /\ toDaemon' \in Seq(FromBoard)
  BY <1>1, Nothing
<1>7. Keeps
  BY <1>1, <1>5, <1>6, Quietly
<1> QED BY <1>4, <1>7

\* A new Bridge holds no manifest.
LEMMA NewBridgeKeeps ==
  ASSUME IInv, Placed', Live' \subseteq Live, br'.man = None,
         app' = app, work' = work, note' = note, taps' = taps, writes' = writes
  PROVE  Keeps
<1>1. ~(None > app)
  BY VersionAssumption DEF IInv, TypeOK, None, Versions
<1>2. Working'
  BY <1>1 DEF IInv, Working, WorkSound, NoteSound, AppFirst
<1> QED BY <1>2 DEF Keeps, Consents, KeepsNote, HoldsResume

LEMMA ProbeAnsweredStep == ASSUME IInv, ProbeAnswered PROVE TypeOK' /\ Keeps
<1>1. /\ link' = "open" /\ br' = NewBridge(FALSE) /\ owed' = FALSE
      /\ SendToBoard(Greeting(NewBridge(owed))) /\ offer' = known
      /\ UNCHANGED <<feed, board, app, work, note, known, taps, writes, faults>>
  BY DEF ProbeAnswered
<1>2. PICK n \in 1 .. Len(toDaemon) : toDaemon' = SubSeq(toDaemon, n + 1, Len(toDaemon))
  BY DEF ProbeAnswered
<1>3. Suffix(toDaemon, toDaemon') /\ toDaemon' \in Seq(FromBoard)
  BY <1>2, SuffixSub DEF IInv, TypeOK
<1>4. Greeting(NewBridge(owed)) \in Seq(FromDaemon)
  BY NewBridgeType, GreetingType DEF IInv, TypeOK
<1>5. toBoard' \in Seq(FromDaemon)
  BY <1>1, <1>4, SendsToBoard DEF IInv
<1>6. br' \in Bridges /\ br'.man = None
  BY <1>1, NewBridgeType
<1>7. TypeOK'
  BY <1>1, <1>3, <1>5, <1>6 DEF IInv, TypeOK
<1>8. board'.tap = board.tap /\ board'.fw = board.fw
  BY <1>1
<1>9. Placed' /\ Live' \subseteq Live
  BY <1>1, <1>3, <1>8, Loses DEF IInv, Placed, OnePlace
<1>10. Keeps
  BY <1>1, <1>6, <1>9, NewBridgeKeeps
<1> QED BY <1>7, <1>10

LEMMA ProbeSilentStep == ASSUME IInv, ProbeSilent PROVE TypeOK' /\ Keeps
<1>1. /\ link' = "open" /\ br' = NewBridge(owed) /\ owed' = FALSE
      /\ board' = PowerOn(board.fw) /\ toBoard' = <<>> /\ toDaemon = <<>>
      /\ toDaemon' = IF Alive THEN <<Hello(board.fw, Proto[board.fw])>> ELSE <<>>
      /\ UNCHANGED <<feed, app, work, offer, note, known, taps, writes, faults>>
  BY DEF ProbeSilent, Restart
<1>2. board' \in Boards /\ board'.fw = board.fw /\ board'.tap = 0
  BY <1>1, PowerOnType DEF IInv, TypeOK, Boards
<1>3. br' \in Bridges /\ br'.man = None
  BY <1>1, NewBridgeType DEF IInv, TypeOK
<1>4. toDaemon' \in Seq(FromBoard) /\ Placed' /\ Live' \subseteq Live
  <2>1. CASE Alive
    <3> DEFINE m == Hello(board.fw, Proto[board.fw])
    <3>1. /\ m \in FromBoard /\ m.proto = Proto[board.fw] /\ m.id = 0 /\ m.t # "ota_flash"
      BY <2>1, SaysType DEF IInv
    <3> HIDE DEF m
    <3>2. toDaemon' = <<m>> /\ <<>> \o <<m>> = <<m>>
      BY <1>1, <2>1 DEF m
    <3>3. <<m>> \in Seq(FromBoard)
      BY <3>1
    <3>4. toDaemon' = toDaemon \o <<m>>
      BY <1>1, <3>2
    <3>5. Placed' /\ Live' \subseteq Live
      BY <1>1, <1>2, <2>1, <3>1, <3>4, Says DEF IInv, Placed
    <3> QED BY <3>2, <3>3, <3>5
  <2>2. CASE ~Alive
    <3>1. toDaemon' = <<>>
      BY <1>1, <2>2
    <3>2. Placed' /\ Live' \subseteq Live
      BY <1>1, <1>2, <3>1, Nothing, Loses DEF IInv, Placed, OnePlace
    <3> QED BY <3>1, <3>2, Nothing
  <2> QED BY <2>1, <2>2
<1>5. TypeOK'
  BY <1>1, <1>2, <1>3, <1>4, Nothing DEF IInv, TypeOK
<1>6. Keeps
  BY <1>1, <1>3, <1>4, NewBridgeKeeps
<1> QED BY <1>5, <1>6

-----------------------------------------------------------------------------
(* The daemon's handlers.                                                  *)

LEMMA FetchType ==
  ASSUME TypeOK, NEW f \in Fetch
  PROVE  f \in VersionOrNone /\ (f # None => f = feed)
BY DEF Fetch, TypeOK, VersionOrNone

\* What is resumed, on a board that has been heard.
LEMMA ResumesWell ==
  ASSUME IInv, work = Idle, NEW b \in Bridges, AppFirst(app, b, Idle),
         b.proto = Proto[board.fw], NEW f \in Fetch, NEW s \in Fetch,
         Take(Resume(b, app, note, f, s)),
         toDaemon' \in Seq(FromBoard), Suffix(toDaemon, toDaemon'),
         board' = board, app' = app, taps' = taps, writes' = writes
  PROVE  /\ br' \in Bridges /\ note' \in Notes /\ work' \in Works
         /\ Resume(b, app, note, f, s).out \in Seq(FromDaemon)
         /\ Keeps
<1> DEFINE r == Resume(b, app, note, f, s)
<1>1. br' = r.br /\ note' = r.note /\ work' = r.work
  BY DEF Take
<1>2. f \in VersionOrNone /\ s \in VersionOrNone /\ (f # None => f = feed)
  BY FetchType DEF IInv
<1>3. app \in Versions /\ note \in Notes /\ NoteSound(note)
  BY DEF IInv, TypeOK, Working
<1>4. /\ Sound(app, r)
      /\ r.note.id \in {0, note.id} /\ r.work.id \in {0, note.id}
      /\ r.work # Idle => /\ note.ver # None /\ r.work.id = note.id /\ r.work.ver = note.ver
                          /\ b.proto <= Proto[app]
      /\ r.work = Idle /\ r.note # note =>
           \/ r.note = [note EXCEPT !.tries = @ + 1]
           \/ r.note = NoNote /\ (LastTry(note) \/ (f # None /\ f # note.ver))
  BY <1>2, <1>3, ResumeType
<1> HIDE DEF r
<1>5. /\ br' \in Bridges /\ note' \in Notes /\ work' \in Works /\ r.out \in Seq(FromDaemon)
      /\ Working'
  BY <1>1, <1>4 DEF Sound, Working, WorkSound, NoteSound, AppFirst
<1>6. Placed' /\ Live' \subseteq Live
  <2>1. work'.id # 0 /\ work'.id = note'.id => work'.kind = "selfupd"
    BY <1>1, <1>4 DEF Sound
  <2>2. work'.id \in {0, note.id} /\ note'.id \in {0, note.id}
    BY <1>1, <1>4
  <2> QED BY <2>1, <2>2, Loses DEF IInv, Placed
<1>7. work'.kind # "idle" <=> work' # Idle
  BY <1>1, <1>4, IdleType DEF Sound, WorkSound
<1>8. KeepsNote
  BY <1>1, <1>2, <1>4, <1>7 DEF KeepsNote
<1>9. HoldsResume
  BY <1>1, <1>4, <1>7 DEF HoldsResume
<1> QED BY <1>5, <1>6, <1>8, <1>9 DEF Keeps, Consents, r

LEMMA LearnStep == ASSUME IInv, Learn PROVE TypeOK' /\ Keeps
<1>1. /\ toDaemon # <<>> /\ work = Idle
      /\ UNCHANGED <<offer, toDaemon, feed, board, app, link, known, owed, taps, writes, faults>>
  BY DEF Learn, Ready, DaemonStep
<1> DEFINE b == [br EXCEPT !.proto = Head(toDaemon).proto]
<1>2. PICK f \in Fetch, s \in Fetch :
        Take(Resume(b, app, note, f, s)) /\ SendToBoard(Resume(b, app, note, f, s).out)
  BY DEF Learn
<1>3. Head(toDaemon) \in FromBoard /\ Head(toDaemon).proto = Proto[board.fw]
  BY <1>1, SuffixTail DEF IInv, TypeOK, Speaks
<1>4. b \in Bridges /\ b.proto = Proto[board.fw] /\ b.man = br.man /\ b.upd = br.upd
  BY <1>3 DEF IInv, TypeOK, Bridges, FromBoard
<1>5. AppFirst(app, b, Idle)
  BY <1>1, <1>4 DEF IInv, Working, AppFirst
<1>6. toDaemon' \in Seq(FromBoard) /\ Suffix(toDaemon, toDaemon')
  BY <1>1, SuffixSelf DEF IInv, TypeOK
<1> HIDE DEF b
<1>7. /\ br' \in Bridges /\ note' \in Notes /\ work' \in Works
      /\ Resume(b, app, note, f, s).out \in Seq(FromDaemon)
      /\ Keeps
  BY <1>1, <1>2, <1>4, <1>5, <1>6, ResumesWell
<1>8. toBoard' \in Seq(FromDaemon)
  BY <1>2, <1>7, SendsToBoard DEF IInv
<1>9. TypeOK'
  BY <1>1, <1>7, <1>8 DEF IInv, TypeOK
<1> QED BY <1>7, <1>9

LEMMA HandleHelloStep == ASSUME IInv, HandleHello PROVE TypeOK' /\ Keeps
<1> DEFINE m == Head(toDaemon)
           b == [br EXCEPT !.proto = m.proto, !.heard = TRUE, !.fw = m.fw, !.report = FALSE]
<1>1. /\ toDaemon # <<>> /\ work = Idle /\ toDaemon' = Tail(toDaemon)
      /\ offer' = m.fw /\ known' = m.fw
      /\ UNCHANGED <<feed, board, app, link, owed, taps, writes, faults>>
  BY DEF HandleHello, Ready
<1>2. PICK f \in Fetch, s \in Fetch :
        /\ Take(Resume(b, app, note, f, s))
        /\ SendToBoard(Greeting(br) \o Resume(b, app, note, f, s).out)
  BY DEF HandleHello
<1>3. /\ m \in FromBoard /\ m.proto = Proto[board.fw]
      /\ Suffix(toDaemon, toDaemon') /\ toDaemon' \in Seq(FromBoard)
  BY <1>1, SuffixTail DEF IInv, TypeOK, Speaks
<1>4. m.fw \in VersionOrNone /\ m.proto \in Nat
  BY <1>3 DEF FromBoard
<1> HIDE DEF m
<1>5. b \in Bridges /\ b.proto = Proto[board.fw] /\ b.man = br.man /\ b.upd = br.upd
  BY <1>3, <1>4 DEF IInv, TypeOK, Bridges
<1>6. AppFirst(app, b, Idle)
  BY <1>1, <1>5 DEF IInv, Working, AppFirst
<1> HIDE DEF b
<1>7. /\ br' \in Bridges /\ note' \in Notes /\ work' \in Works
      /\ Resume(b, app, note, f, s).out \in Seq(FromDaemon)
      /\ Keeps
  BY <1>1, <1>2, <1>3, <1>5, <1>6, ResumesWell
<1>8. Greeting(br) \o Resume(b, app, note, f, s).out \in Seq(FromDaemon)
  BY <1>7, GreetingType, ConcatProperties DEF IInv, TypeOK
<1>9. toBoard' \in Seq(FromDaemon)
  BY <1>2, <1>8, SendsToBoard DEF IInv
<1>10. TypeOK'
  BY <1>1, <1>3, <1>4, <1>7, <1>9 DEF IInv, TypeOK
<1> QED BY <1>7, <1>10

\* A query keeps everything but the manifest held, which it answers with.
LEMMA AnswersWell ==
  ASSUME IInv, NEW cur \in VersionOrNone, NEW f \in Fetch, NEW s \in Fetch, work = Idle,
         br' = Answer(br, app, cur, f, s).br, SendToBoard(<<Answer(br, app, cur, f, s).msg>>),
         toDaemon' \in Seq(FromBoard), Suffix(toDaemon, toDaemon'),
         board' = board, app' = app, work' = work, note' = note, taps' = taps, writes' = writes
  PROVE  br' \in Bridges /\ toBoard' \in Seq(FromDaemon) /\ Keeps
<1> DEFINE a == Answer(br, app, cur, f, s)
<1>1. f \in VersionOrNone /\ s \in VersionOrNone /\ br \in Bridges /\ app \in Versions
  BY FetchType DEF IInv, TypeOK
<1>2. /\ a.br \in Bridges /\ a.msg \in FromDaemon
      /\ HasBuild /\ a.br.man > app => a.br.upd # None
  BY <1>1, AnswerType
<1> HIDE DEF a
<1>3. toBoard' \in Seq(FromDaemon)
  <2>1. <<a.msg>> \in Seq(FromDaemon)
    BY <1>2
  <2> QED BY <2>1, SendsToBoard DEF IInv, a
<1>4. br' \in Bridges /\ (HasBuild /\ br'.man > app => br'.upd # None)
  BY <1>2 DEF a
<1>5. Working'
  BY <1>4, IdleType DEF IInv, Working, WorkSound, NoteSound, AppFirst
<1>6. Placed' /\ Live' \subseteq Live
  BY Loses, IdleType DEF IInv, Placed
<1> QED BY <1>3, <1>4, <1>5, <1>6 DEF Keeps, Consents, KeepsNote, HoldsResume

LEMMA HandleQueryStep == ASSUME IInv, HandleQuery PROVE TypeOK' /\ Keeps
<1> DEFINE cur == Head(toDaemon).fw
<1>1. /\ toDaemon # <<>> /\ work = Idle /\ toDaemon' = Tail(toDaemon) /\ known' = cur
      /\ UNCHANGED <<feed, board, app, link, work, offer, note, owed, taps, writes, faults>>
  BY DEF HandleQuery, Ready
<1>2. PICK f \in Fetch, s \in Fetch :
        /\ br' = Answer(br, app, cur, f, s).br
        /\ SendToBoard(<<Answer(br, app, cur, f, s).msg>>)
  BY DEF HandleQuery
<1>3. /\ Head(toDaemon) \in FromBoard
      /\ Suffix(toDaemon, toDaemon') /\ toDaemon' \in Seq(FromBoard)
  BY <1>1, SuffixTail DEF IInv, TypeOK
<1>6. cur \in VersionOrNone
  BY <1>3 DEF FromBoard
<1> HIDE DEF cur
<1>4. br' \in Bridges /\ toBoard' \in Seq(FromDaemon) /\ Keeps
  BY <1>1, <1>2, <1>3, <1>6, AnswersWell
<1>5. TypeOK'
  BY <1>1, <1>3, <1>4, <1>6 DEF IInv, TypeOK
<1> QED BY <1>4, <1>5

LEMMA OfferIfNewerStep == ASSUME IInv, OfferIfNewer PROVE TypeOK' /\ Keeps
<1>1. /\ work = Idle /\ offer' = None
      /\ UNCHANGED <<toDaemon, work, note, feed, board, app, link, known, owed, taps, writes, faults>>
  BY DEF OfferIfNewer, DaemonStep
<1>2. toDaemon' \in Seq(FromBoard) /\ Suffix(toDaemon, toDaemon')
  BY <1>1, SuffixSelf DEF IInv, TypeOK
<1>3. br' \in Bridges /\ toBoard' \in Seq(FromDaemon) /\ Keeps
  <2>1. CASE UNCHANGED <<br, toBoard>>
    <3>1. Keeps
      BY <1>1, <1>2, <2>1, Quietly
    <3> QED BY <2>1, <3>1 DEF IInv, TypeOK
  <2>2. ASSUME NEW f \in Fetch, NEW s \in Fetch,
               br' = Answer(br, app, offer, f, s).br,
               SendToBoard(<<Answer(br, app, offer, f, s).msg>>)
        PROVE  br' \in Bridges /\ toBoard' \in Seq(FromDaemon) /\ Keeps
    <3>1. offer \in VersionOrNone
      BY DEF IInv, TypeOK
    <3> QED BY <1>1, <1>2, <2>2, <3>1, AnswersWell
  <2> QED BY <2>1, <2>2 DEF OfferIfNewer
<1>4. TypeOK'
  BY <1>1, <1>3, Nothing DEF IInv, TypeOK
<1> QED BY <1>3, <1>4

LEMMA RetryOfferStep == ASSUME IInv, RetryOffer PROVE TypeOK' /\ Keeps
<1>1. /\ work = Idle
      /\ UNCHANGED <<toDaemon, work, offer, note, feed, board, app, link, known, owed, taps,
                     writes, faults>>
  BY DEF RetryOffer, Ready, DaemonStep
<1>2. toDaemon' \in Seq(FromBoard) /\ Suffix(toDaemon, toDaemon')
  BY <1>1, SuffixSelf DEF IInv, TypeOK
<1>3. PICK f \in Fetch, s \in Fetch :
        /\ br' = Answer(br, app, br.fw, f, s).br
        /\ SendToBoard(<<Answer(br, app, br.fw, f, s).msg>>)
  BY DEF RetryOffer
<1>4. br.fw \in VersionOrNone
  BY DEF IInv, TypeOK, Bridges
<1>5. br' \in Bridges /\ toBoard' \in Seq(FromDaemon) /\ Keeps
  BY <1>1, <1>2, <1>3, <1>4, AnswersWell
<1>6. TypeOK'
  BY <1>1, <1>5 DEF IInv, TypeOK
<1> QED BY <1>5, <1>6

LEMMA HandlePrefStep == ASSUME IInv, HandlePref PROVE TypeOK' /\ Keeps
<1>1. /\ toDaemon # <<>> /\ toDaemon' = Tail(toDaemon)
      /\ UNCHANGED <<toBoard, br, work, offer, note, feed, board, app, link, known, owed, taps,
                     writes, faults>>
  BY DEF HandlePref, DaemonStep
<1>2. toDaemon' \in Seq(FromBoard) /\ Suffix(toDaemon, toDaemon')
  BY <1>1, SuffixTail DEF IInv, TypeOK
<1>3. TypeOK'
  BY <1>1, <1>2 DEF IInv, TypeOK
<1>4. Keeps
  BY <1>1, <1>2, Quietly
<1> QED BY <1>3, <1>4

\* The approval goes from the line to the daemon's hands, past the note.
LEMMA HandleFlashStep == ASSUME IInv, HandleFlash PROVE TypeOK' /\ Keeps
<1> DEFINE id == Head(toDaemon).id
           r == FlashStart(br, note, id)
<1>1. /\ toDaemon # <<>> /\ work = Idle /\ toDaemon' = Tail(toDaemon)
      /\ Head(toDaemon).t = "ota_flash"
      /\ br' = r.br /\ note' = r.note /\ work' = r.work /\ SendToBoard(r.out)
      /\ UNCHANGED <<offer, feed, board, app, link, known, owed, taps, writes, faults>>
  BY DEF HandleFlash, Ready, DaemonStep, Take
<1>2. /\ toDaemon \in Seq(FromBoard) /\ 1 \in DOMAIN toDaemon /\ Head(toDaemon) = toDaemon[1]
      /\ Head(toDaemon) \in FromBoard
      /\ Suffix(toDaemon, toDaemon') /\ toDaemon' \in Seq(FromBoard)
      /\ \A i \in DOMAIN toDaemon' : /\ i + 1 \in DOMAIN toDaemon /\ i + 1 # 1
                                     /\ toDaemon'[i] = toDaemon[i + 1]
  BY <1>1, SuffixTail DEF IInv, TypeOK
<1>3. /\ id \in Nat \ {0} /\ id \notin {board.tap, work.id, note.id} /\ id \in Ids(toDaemon)
  BY <1>1, <1>2 DEF IInv, Carried, OnePlace, FromBoard, Ids
<1> HIDE DEF id
<1>4. AppFirst(app, br, Idle) /\ br \in Bridges /\ note \in Notes /\ NoteSound(note) /\ app \in Versions
  BY <1>1 DEF IInv, TypeOK, Working
<1>5. /\ Sound(app, r)
      /\ r.work # Idle => r.work.id = id /\ r.work.ver = br.man
      /\ r.note = note \/ (r.note.id = id /\ r.work.id = id /\ r.note.ver # None)
  BY <1>3, <1>4, FlashType
<1> HIDE DEF r
<1>6. /\ br' \in Bridges /\ note' \in Notes /\ work' \in Works /\ Working'
  BY <1>1, <1>5 DEF Sound, Working, WorkSound, NoteSound, AppFirst
<1>7. toBoard' \in Seq(FromDaemon)
  BY <1>1, <1>5, SendsToBoard DEF IInv, Sound
<1>8. TypeOK'
  BY <1>1, <1>2, <1>6, <1>7 DEF IInv, TypeOK
<1>9. /\ work'.id \in {0, id} /\ note'.id \in {note.id, id}
      /\ work'.id # 0 /\ work'.id = note'.id => work'.kind = "selfupd"
  BY <1>1, <1>5, IdleType DEF Sound
<1>10. \A i \in DOMAIN toDaemon' : toDaemon'[i].id # 0 => toDaemon'[i].id # id
  <2> SUFFICES ASSUME NEW i \in DOMAIN toDaemon', toDaemon'[i].id # 0
               PROVE  toDaemon'[i].id # id
    OBVIOUS
  <2>1. toDaemon[1].id = id
    BY <1>2 DEF id
  <2> QED BY <1>2, <2>1 DEF IInv, OnePlace
<1>11. Placed'
  <2>1. Speaks' /\ Carried'
    BY <1>1, <1>2 DEF IInv, Speaks, Carried, Alive
  <2>2. \A i, j \in DOMAIN toDaemon' :
          i # j /\ toDaemon'[i].id # 0 => toDaemon'[i].id # toDaemon'[j].id
    <3> SUFFICES ASSUME NEW i \in DOMAIN toDaemon', NEW j \in DOMAIN toDaemon', i # j,
                        toDaemon'[i].id # 0
                 PROVE  toDaemon'[i].id # toDaemon'[j].id
      OBVIOUS
    <3>1. i + 1 # j + 1
      BY <1>2, LenProperties
    <3> QED BY <1>2, <3>1 DEF IInv, OnePlace
  <2>3. \A i \in DOMAIN toDaemon' : toDaemon'[i].id # 0 =>
           toDaemon'[i].id \notin {board'.tap, work'.id, note'.id}
    BY <1>1, <1>2, <1>9, <1>10 DEF IInv, OnePlace
  <2>4. board'.tap # 0 => board'.tap \notin {work'.id, note'.id}
    BY <1>1, <1>3, <1>9 DEF IInv, OnePlace
  <2> QED BY <1>9, <2>1, <2>2, <2>3, <2>4 DEF Placed, OnePlace
<1>12. Live' \subseteq Live
  <2>1. Ids(toDaemon)' \subseteq Ids(toDaemon)
    BY <1>2 DEF Ids
  <2> QED BY <1>1, <1>3, <1>9, <2>1 DEF Live
<1>13. KeepsNote
  BY <1>1, <1>3, <1>5 DEF KeepsNote
<1>14. HoldsResume
  <2>1. work'.kind # "idle" => work'.id = id
    BY <1>1, <1>5, IdleType
  <2> QED BY <1>3, <2>1 DEF HoldsResume
<1> QED BY <1>1, <1>6, <1>8, <1>11, <1>12, <1>13, <1>14 DEF Keeps, Consents

-----------------------------------------------------------------------------
(* The blocking steps of an install.                                       *)

LEMMA SelfUpdatedStep == ASSUME IInv, SelfUpdated PROVE TypeOK' /\ Keeps
<1>1. /\ work.kind = "selfupd" /\ app' = work.upd /\ Disconnect /\ owed' = FALSE
      /\ UNCHANGED <<feed, board, note, known, toBoard, taps, writes, faults>>
  BY DEF SelfUpdated
<1>2. app' \in Versions /\ note' \in {note, NoNote} /\ board'.tap = board.tap
  BY <1>1 DEF IInv, TypeOK, Works, Working, WorkSound, VersionOrNone
<1>3. /\ link' = "closed" /\ br' \in Bridges /\ work' = Idle /\ work' \in Works
      /\ offer' \in VersionOrNone /\ toDaemon' \in Seq(FromBoard) /\ note' \in Notes
      /\ Working' /\ Placed' /\ Live' \subseteq Live
  BY <1>1, <1>2, Disconnects
<1>4. TypeOK'
  BY <1>1, <1>2, <1>3 DEF IInv, TypeOK
<1>5. Keeps
  BY <1>1, <1>3, IdleType DEF Keeps, Consents, KeepsNote, HoldsResume
<1> QED BY <1>4, <1>5

\* What leaves the kind of work behind it.
LEMMA SelfUpdateFailsStep == ASSUME IInv, SelfUpdateFails PROVE TypeOK' /\ Keeps
<1>1. /\ work.kind = "selfupd" /\ note' = NoNote /\ work' = [work EXCEPT !.kind = "download"]
      /\ UNCHANGED <<toBoard, toDaemon, br, offer, feed, board, app, link, known, owed, taps,
                     writes, faults>>
  BY DEF SelfUpdateFails, DaemonStep
<1>2. /\ work' \in Works /\ work'.kind = "download" /\ work'.id = work.id
      /\ work'.ver = work.ver /\ work'.tried = work.tried
  BY <1>1 DEF IInv, TypeOK, Works
<1>3. note' \in Notes /\ note'.ver = None /\ note'.id = 0
  BY <1>1, NoNoteType
<1>4. work.id # 0 /\ work.ver # None /\ work.tried
  BY <1>1 DEF IInv, Working, WorkSound
<1>5. WorkSound(work') /\ NoteSound(note') /\ AppFirst(app', br', work')
  BY <1>2, <1>3, <1>4 DEF WorkSound, NoteSound, AppFirst
<1>6. Working'
  BY <1>5 DEF Working, WorkSound, NoteSound, AppFirst
<1>7. toDaemon' \in Seq(FromBoard) /\ Suffix(toDaemon, toDaemon')
  BY <1>1, SuffixSelf DEF IInv, TypeOK
<1>8. TypeOK'
  BY <1>1, <1>2, <1>3 DEF IInv, TypeOK
<1>9. Placed' /\ Live' \subseteq Live
  BY <1>1, <1>2, <1>3, <1>4, <1>7, Loses DEF IInv, Placed
<1> QED BY <1>1, <1>2, <1>6, <1>8, <1>9 DEF Keeps, Consents, KeepsNote, HoldsResume

LEMMA DownloadFailsStep == ASSUME IInv, DownloadFails PROVE TypeOK' /\ Keeps
<1>1. /\ work.kind = "download" /\ br' = OtaReset(br) /\ work' = Idle
      /\ SendToBoard(<<OtaError>>)
      /\ UNCHANGED <<toDaemon, offer, note, feed, board, app, link, known, owed, taps, writes,
                     faults>>
  BY DEF DownloadFails, DaemonStep
<1>2. <<OtaError>> \in Seq(FromDaemon)
  BY MessageType, Nothing
<1>3. toBoard' \in Seq(FromDaemon)
  BY <1>1, <1>2, SendsToBoard DEF IInv
<1>4. br' \in Bridges /\ br'.man = None
  BY <1>1, OtaResetType DEF IInv, TypeOK
<1>5. TypeOK'
  BY <1>1, <1>3, <1>4, IdleType DEF IInv, TypeOK
<1>6. ~(None > app)
  BY VersionAssumption DEF IInv, TypeOK, None, Versions
<1>7. Working'
  BY <1>1, <1>4, <1>6, IdleType DEF IInv, Working, WorkSound, NoteSound, AppFirst
<1>8. toDaemon' \in Seq(FromBoard) /\ Suffix(toDaemon, toDaemon')
  BY <1>1, SuffixSelf DEF IInv, TypeOK
<1>9. Placed' /\ Live' \subseteq Live
  BY <1>1, <1>8, IdleType, Loses DEF IInv, Placed
<1> QED BY <1>1, <1>5, <1>7, <1>9, IdleType DEF Keeps, Consents, KeepsNote, HoldsResume

LEMMA DownloadedStep == ASSUME IInv, Downloaded PROVE TypeOK' /\ Keeps
<1>1. /\ work.kind = "download" /\ br' = OtaReset(br) /\ work' = [work EXCEPT !.kind = "flash"]
      /\ SendToBoard(<<OtaBegin(work.ver)>>)
      /\ UNCHANGED <<toDaemon, offer, note, feed, board, app, link, known, owed, taps, writes,
                     faults>>
  BY DEF Downloaded, DaemonStep
<1>2. /\ work' \in Works /\ work'.kind = "flash" /\ work'.id = work.id
      /\ work'.ver = work.ver /\ work'.tried = work.tried /\ work.ver \in VersionOrNone
  BY <1>1 DEF IInv, TypeOK, Works
<1>3. OtaBegin(work.ver) \in FromDaemon
  BY <1>2, MessageType
<1>4. <<OtaBegin(work.ver)>> \in Seq(FromDaemon)
  BY <1>3
<1>5. toBoard' \in Seq(FromDaemon)
  BY <1>1, <1>4, SendsToBoard DEF IInv
<1>6. br' \in Bridges
  BY <1>1, OtaResetType DEF IInv, TypeOK
<1>7. TypeOK'
  BY <1>1, <1>2, <1>5, <1>6 DEF IInv, TypeOK
<1>8. Working'
  BY <1>1, <1>2 DEF IInv, Working, WorkSound, NoteSound, AppFirst
<1>9. toDaemon' \in Seq(FromBoard) /\ Suffix(toDaemon, toDaemon')
  BY <1>1, SuffixSelf DEF IInv, TypeOK
<1>10. work.id = note.id => work.id = 0
  BY <1>1 DEF IInv, OnePlace
<1>11. Placed' /\ Live' \subseteq Live
  BY <1>1, <1>2, <1>9, <1>10, Loses DEF IInv, Placed
<1> QED BY <1>1, <1>2, <1>7, <1>8, <1>11 DEF Keeps, Consents, KeepsNote, HoldsResume

\* A write into slot0, whatever it leaves there.
LEMMA WriteStep ==
  ASSUME IInv, work.kind = "flash", NEW fw \in {None, work.ver}, Restart(fw), Disconnect,
         writes' = writes \cup {work.id}, taps' = taps, note' = note, app' = app, feed' = feed,
         known' = known, owed' \in BOOLEAN, faults' \in 0 .. MaxFaults
  PROVE  TypeOK' /\ Keeps
<1>1. board' = PowerOn(fw) /\ toBoard' = <<>> /\ fw \in VersionOrNone
  BY DEF Restart, IInv, TypeOK, Works, VersionOrNone
<1>2. board' \in Boards /\ board'.tap = 0
  BY <1>1, PowerOnType
<1>3. /\ link' = "closed" /\ br' \in Bridges /\ work' = Idle /\ work' \in Works
      /\ offer' \in VersionOrNone /\ toDaemon' = <<>> /\ toDaemon' \in Seq(FromBoard)
      /\ note' \in Notes /\ Working'
  BY <1>2, Disconnects DEF IInv, TypeOK
<1>4. Placed' /\ Consents
  BY <1>2, <1>3, Spends DEF IInv, Placed
<1>5. work.id \in 1 .. taps
  <2>1. work.id \in Live
    BY DEF IInv, Working, WorkSound, Live
  <2> QED BY <2>1 DEF IInv, Unspent
<1>6. TypeOK'
  BY <1>1, <1>2, <1>3, <1>5, Nothing DEF IInv, TypeOK
<1>7. Keeps
  BY <1>3, <1>4 DEF Keeps, KeepsNote, HoldsResume
<1> QED BY <1>6, <1>7

LEMMA FaultType == ASSUME TypeOK, Fault PROVE faults' \in 0 .. MaxFaults
BY BoundAssumption DEF TypeOK, Fault

LEMMA FlashedStep == ASSUME IInv, Flashed PROVE TypeOK' /\ Keeps
BY WriteStep DEF Flashed, IInv, TypeOK

\* A connection that ends with no write.
LEMMA EndStep ==
  ASSUME IInv, Disconnect, board' \in Boards, board'.tap \in {0, board.tap},
         toBoard' \in Seq(FromDaemon), app' \in Versions,
         writes' = writes, taps' = taps, note' = note, feed' = feed,
         known' = known, owed' \in BOOLEAN, faults' \in 0 .. MaxFaults
  PROVE  TypeOK' /\ Keeps
<1>1. /\ link' = "closed" /\ br' \in Bridges /\ work' = Idle /\ work' \in Works
      /\ offer' \in VersionOrNone /\ toDaemon' \in Seq(FromBoard) /\ note' \in Notes
      /\ Working' /\ Placed' /\ Live' \subseteq Live
  BY Disconnects
<1>2. TypeOK'
  BY <1>1 DEF IInv, TypeOK
<1>3. Keeps
  BY <1>1, IdleType DEF Keeps, Consents, KeepsNote, HoldsResume
<1> QED BY <1>2, <1>3

LEMMA RestartsSame ==
  ASSUME TypeOK, Restart(board.fw)
  PROVE  /\ board' \in Boards /\ board'.tap = 0 /\ board'.fw = board.fw
         /\ toBoard' = <<>> /\ toBoard' \in Seq(FromDaemon)
BY PowerOnType, Nothing DEF Restart, TypeOK, Boards

LEMMA FlashFailsStep == ASSUME IInv, FlashFails PROVE TypeOK' /\ Keeps
<1>1. /\ work.kind = "flash" /\ Fault /\ Disconnect /\ owed' = TRUE
      /\ UNCHANGED <<feed, app, note, known, taps>>
  BY DEF FlashFails
<1>2. faults' \in 0 .. MaxFaults /\ app' \in Versions
  BY <1>1, FaultType DEF IInv, TypeOK
<1>3. CASE Restart(board.fw) /\ UNCHANGED writes
  <2>1. board' \in Boards /\ board'.tap = 0 /\ toBoard' \in Seq(FromDaemon)
    BY <1>3, RestartsSame DEF IInv
  <2> QED BY <1>1, <1>2, <1>3, <2>1, EndStep
<1>4. ASSUME NEW fw \in {None, work.ver}, Restart(fw), writes' = writes \cup {work.id}
      PROVE  TypeOK' /\ Keeps
  BY <1>1, <1>2, <1>4, WriteStep
<1> QED BY <1>3, <1>4 DEF FlashFails

-----------------------------------------------------------------------------
(* Faults.                                                                 *)

LEMMA DaemonCrashStep == ASSUME IInv, DaemonCrash PROVE TypeOK' /\ Keeps
<1>1. /\ Fault /\ Disconnect /\ owed' = FALSE /\ UNCHANGED <<feed, note, known, taps>>
      /\ app' \in IF work.kind = "selfupd" THEN {app, work.upd} ELSE {app}
  BY DEF DaemonCrash
<1>2. faults' \in 0 .. MaxFaults
  BY <1>1, FaultType DEF IInv
<1>3. app' \in Versions
  BY <1>1 DEF IInv, TypeOK, Works, Working, WorkSound, VersionOrNone
<1>4. ASSUME work.kind = "flash", NEW fw \in {None, work.ver}, Restart(fw),
             writes' = writes \cup {work.id}
      PROVE  TypeOK' /\ Keeps
  <2>1. app' = app
    BY <1>1, <1>4
  <2> QED BY <1>1, <1>2, <1>4, <2>1, WriteStep
<1>5. CASE UNCHANGED <<board, writes>> /\ toBoard' \in {toBoard, <<>>}
  <2>1. board' \in Boards /\ board'.tap = board.tap /\ toBoard' \in Seq(FromDaemon)
    BY <1>5, Nothing DEF IInv, TypeOK
  <2> QED BY <1>1, <1>2, <1>3, <1>5, <2>1, EndStep
<1> QED BY <1>4, <1>5 DEF DaemonCrash

LEMMA LinkLostStep == ASSUME IInv, LinkLost PROVE TypeOK' /\ Keeps
<1>1. /\ Fault /\ Disconnect /\ UNCHANGED <<feed, app, note, known, owed, taps, writes>>
  BY DEF LinkLost
<1>2. faults' \in 0 .. MaxFaults /\ app' \in Versions /\ owed' \in BOOLEAN
  BY <1>1, FaultType DEF IInv, TypeOK
<1>3. board' \in Boards /\ board'.tap \in {0, board.tap} /\ toBoard' \in Seq(FromDaemon)
  <2>1. CASE Restart(board.fw)
    BY <2>1, RestartsSame DEF IInv
  <2>2. CASE UNCHANGED board /\ toBoard' \in {toBoard, <<>>}
    BY <2>2, Nothing DEF IInv, TypeOK
  <2> QED BY <2>1, <2>2 DEF LinkLost
<1> QED BY <1>1, <1>2, <1>3, EndStep

\* One more word from the board, with no approval in it.
LEMMA ChatsWell ==
  ASSUME IInv, Alive, NEW m \in FromBoard, m.proto = Proto[board.fw], m.id = 0,
         m.t # "ota_flash", toDaemon' \in {toDaemon, toDaemon \o <<m>>},
         board'.fw = board.fw, board'.tap \in {0, board.tap},
         br' = br, work' = work, note' = note, app' = app, taps' = taps, writes' = writes
  PROVE  toDaemon' \in Seq(FromBoard) /\ Keeps
<1>1. CASE toDaemon' = toDaemon
  <2>1. toDaemon' \in Seq(FromBoard) /\ Suffix(toDaemon, toDaemon')
    BY <1>1, SuffixSelf DEF IInv, TypeOK
  <2> QED BY <2>1, Quietly
<1>2. CASE toDaemon' = toDaemon \o <<m>>
  <2>1. toDaemon' \in Seq(FromBoard)
    BY <1>2, OneMore DEF IInv, TypeOK
  <2>2. Placed' /\ Live' \subseteq Live
    BY <1>2, Says DEF IInv, Placed
  <2>3. Working'
    BY DEF IInv, Working, WorkSound, NoteSound, AppFirst
  <2> QED BY <2>1, <2>2, <2>3 DEF Keeps, Consents, KeepsNote, HoldsResume
<1> QED BY <1>1, <1>2

LEMMA BoardResetsStep == ASSUME IInv, BoardResets PROVE TypeOK' /\ Keeps
<1> DEFINE m == Hello(board.fw, Proto[board.fw])
<1>1. /\ Alive /\ Fault /\ Restart(board.fw) /\ SendToDaemon(<<m>>)
      /\ UNCHANGED <<feed, app, link, br, work, offer, note, known, owed, taps, writes>>
  BY DEF BoardResets, daemon
<1>2. m \in FromBoard /\ m.proto = Proto[board.fw] /\ m.id = 0 /\ m.t # "ota_flash"
  BY <1>1, SaysType DEF IInv
<1> HIDE DEF m
<1>3. toDaemon' \in {toDaemon, toDaemon \o <<m>>}
  BY <1>1, Sends DEF IInv
<1>4. /\ board' \in Boards /\ board'.tap = 0 /\ board'.fw = board.fw
      /\ toBoard' \in Seq(FromDaemon) /\ faults' \in 0 .. MaxFaults
  BY <1>1, RestartsSame, FaultType DEF IInv
<1>5. toDaemon' \in Seq(FromBoard) /\ Keeps
  BY <1>1, <1>2, <1>3, <1>4, ChatsWell
<1>6. TypeOK'
  BY <1>1, <1>4, <1>5 DEF IInv, TypeOK
<1> QED BY <1>5, <1>6

-----------------------------------------------------------------------------
(* The board and its user.                                                 *)

LEMMA SendsNothing == ASSUME SendToDaemon(<<>>) PROVE toDaemon' = toDaemon
BY DEF SendToDaemon

LEMMA BoardReceivesStep == ASSUME IInv, BoardReceives PROVE TypeOK' /\ Keeps
<1> DEFINE m == Head(toBoard)
           pref == Pref(Proto[board.fw])
<1>1. /\ Alive /\ toBoard # <<>> /\ board' = Receive(board, m) /\ toBoard' = Tail(toBoard)
      /\ SendToDaemon(ReplyTo(m, Proto[board.fw]))
      /\ UNCHANGED <<feed, app, link, br, work, offer, note, known, owed, taps, writes, faults>>
  BY DEF BoardReceives, BoardStep, daemon
<1>2. m \in FromDaemon /\ toBoard' \in Seq(FromDaemon)
  BY <1>1, SuffixTail DEF IInv, TypeOK
<1>3. board' \in Boards /\ board'.fw = board.fw /\ board'.tap = board.tap
  BY <1>1, <1>2, ReceiveType DEF IInv, TypeOK
<1>4. pref \in FromBoard /\ pref.proto = Proto[board.fw] /\ pref.id = 0 /\ pref.t # "ota_flash"
  BY <1>1, SaysType DEF IInv
<1>5. toDaemon' \in {toDaemon, toDaemon \o <<pref>>}
  <2>1. ReplyTo(m, Proto[board.fw]) \in {<<pref>>, <<>>}
    BY DEF ReplyTo
  <2> HIDE DEF pref, m
  <2>2. CASE ReplyTo(m, Proto[board.fw]) = <<pref>>
    BY <1>1, <2>2, Sends DEF IInv
  <2>3. CASE ReplyTo(m, Proto[board.fw]) = <<>>
    BY <1>1, <2>3, SendsNothing
  <2> QED BY <2>1, <2>2, <2>3
<1> HIDE DEF m, pref
<1>6. toDaemon' \in Seq(FromBoard) /\ Keeps
  BY <1>1, <1>3, <1>4, <1>5, ChatsWell
<1>7. TypeOK'
  BY <1>1, <1>2, <1>3, <1>6 DEF IInv, TypeOK
<1> QED BY <1>6, <1>7

LEMMA ServeRequestsStep == ASSUME IInv, ServeRequests PROVE TypeOK' /\ Keeps
<1> DEFINE p == Proto[board.fw]
<1>1. /\ Alive /\ (board.tap # 0 \/ board.check) /\ board' = Requests(board)
      /\ SendToDaemon(Asks(board, p))
      /\ UNCHANGED <<toBoard, feed, app, link, br, work, offer, note, known, owed, taps, writes,
                     faults>>
  BY DEF ServeRequests, BoardStep, daemon
<1>2. board' \in Boards /\ board'.fw = board.fw /\ board'.tap = 0
  BY <1>1, RequestsType DEF IInv, TypeOK
<1>3. board.tap \in Nat
  BY DEF IInv, TypeOK, Boards
<1>4. toDaemon' \in Seq(FromBoard) /\ Keeps
  <2>1. CASE board.tap # 0 /\ board.staged
    <3> DEFINE m == OtaFlash(board.tap, p)
    <3>1. Asks(board, p) = <<m>>
      BY <2>1 DEF Asks
    <3>2. m \in FromBoard /\ m.proto = p /\ m.id = board.tap /\ m.t = "ota_flash"
      BY <1>1, <1>3, <2>1, SaysType DEF IInv
    <3> HIDE DEF m
    <3>3. CASE toDaemon' = toDaemon
      <4>1. toDaemon' \in Seq(FromBoard) /\ Suffix(toDaemon, toDaemon')
        BY <3>3, SuffixSelf DEF IInv, TypeOK
      <4> QED BY <1>1, <1>2, <4>1, Quietly
    <3>4. CASE toDaemon' = toDaemon \o <<m>>
      <4>1. toDaemon' \in Seq(FromBoard)
        BY <3>2, <3>4, OneMore DEF IInv, TypeOK
      <4>2. Placed' /\ Live' \subseteq Live
        BY <1>1, <1>2, <2>1, <3>2, <3>4, Says DEF IInv, Placed
      <4>3. Working'
        BY <1>1 DEF IInv, Working, WorkSound, NoteSound, AppFirst
      <4> QED BY <1>1, <4>1, <4>2, <4>3 DEF Keeps, Consents, KeepsNote, HoldsResume
    <3> QED BY <1>1, <3>1, <3>3, <3>4, Sends DEF IInv
  <2>2. CASE board.tap # 0 /\ ~board.staged
    <3>1. toDaemon' = toDaemon
      BY <1>1, <2>2, SendsNothing DEF Asks
    <3>2. toDaemon' \in Seq(FromBoard) /\ Suffix(toDaemon, toDaemon')
      BY <3>1, SuffixSelf DEF IInv, TypeOK
    <3> QED BY <1>1, <1>2, <3>2, Quietly
  <2>3. CASE board.tap = 0
    <3> DEFINE m == OtaQuery(board.fw, p)
    <3>1. Asks(board, p) = <<m>>
      BY <1>1, <2>3 DEF Asks
    <3>2. m \in FromBoard /\ m.proto = p /\ m.id = 0 /\ m.t # "ota_flash"
      BY <1>1, SaysType DEF IInv
    <3> HIDE DEF m
    <3>3. toDaemon' \in {toDaemon, toDaemon \o <<m>>}
      BY <1>1, <3>1, Sends DEF IInv
    <3> QED BY <1>1, <1>2, <3>2, <3>3, ChatsWell
  <2> QED BY <2>1, <2>2, <2>3
<1>5. TypeOK'
  BY <1>1, <1>2, <1>4 DEF IInv, TypeOK
<1> QED BY <1>4, <1>5

\* Steps of the board's own, without the line.
LEMMA OnItsOwn ==
  ASSUME IInv, board' \in Boards, board'.fw = board.fw, board'.tap = board.tap,
         UNCHANGED <<toBoard, toDaemon>>, BoardStep
  PROVE  TypeOK' /\ Keeps
<1>1. UNCHANGED <<toBoard, toDaemon, feed, app, link, br, work, offer, note, known, owed, taps,
                  writes, faults>>
  BY DEF BoardStep, daemon
<1>2. toDaemon' \in Seq(FromBoard) /\ Suffix(toDaemon, toDaemon')
  BY <1>1, SuffixSelf DEF IInv, TypeOK
<1>3. TypeOK'
  BY <1>1 DEF IInv, TypeOK
<1>4. Keeps
  BY <1>1, <1>2, Quietly
<1> QED BY <1>3, <1>4

LEMMA CheckTimeoutStep == ASSUME IInv, CheckTimeout PROVE TypeOK' /\ Keeps
BY OnItsOwn, ButtonType DEF CheckTimeout, IInv, TypeOK

LEMMA TicksStep == ASSUME IInv, Ticks PROVE TypeOK' /\ Keeps
<1>1. PICK busy \in BOOLEAN, late \in BOOLEAN : board' = Tick(board, busy, late)
  BY DEF Ticks
<1>2. board' \in Boards /\ board'.fw = board.fw /\ board'.tap = board.tap
  BY <1>1, TickType DEF IInv, TypeOK
<1>3. UNCHANGED <<toBoard, toDaemon>> /\ BoardStep
  BY DEF Ticks
<1> QED BY <1>2, <1>3, OnItsOwn

LEMMA UserElseStep == ASSUME IInv, UserElse PROVE TypeOK' /\ Keeps
BY OnItsOwn, ButtonType DEF UserElse, IInv, TypeOK

LEMMA PingStep == ASSUME IInv, Ping PROVE TypeOK' /\ Keeps
<1> DEFINE m == Pref(Proto[board.fw])
<1>1. /\ Alive /\ SendToDaemon(<<m>>)
      /\ UNCHANGED <<board, toBoard, feed, app, link, br, work, offer, note, known, owed, taps,
                     writes, faults>>
  BY DEF Ping, BoardStep, daemon
<1>2. m \in FromBoard /\ m.proto = Proto[board.fw] /\ m.id = 0 /\ m.t # "ota_flash"
  BY <1>1, SaysType DEF IInv
<1> HIDE DEF m
<1>3. toDaemon' \in {toDaemon, toDaemon \o <<m>>}
  BY <1>1, Sends DEF IInv
<1>4. toDaemon' \in Seq(FromBoard) /\ Keeps
  BY <1>1, <1>2, <1>3, ChatsWell
<1>5. TypeOK'
  BY <1>1, <1>4 DEF IInv, TypeOK
<1> QED BY <1>4, <1>5

LEMMA ApproveStep == ASSUME IInv, Approve PROVE TypeOK' /\ Keeps
<1>1. /\ board.tap = 0 /\ taps < MaxTaps /\ taps' = taps + 1
      /\ UNCHANGED <<feed, app, link, br, work, offer, note, known, owed, toBoard, toDaemon,
                     writes, faults>>
  BY DEF Approve, daemon
<1>2. taps \in Nat /\ taps' \in 0 .. MaxTaps /\ writes \subseteq 1 .. taps'
  BY <1>1, BoundAssumption DEF IInv, TypeOK
<1>3. taps' \in Nat \ {0}
  BY <1>1, <1>2
<1>4. board' \in Boards /\ board'.fw = board.fw /\ board'.tap = taps'
  <2>1. board \in Boards
    BY DEF IInv, TypeOK
  <2>2. board' \in {TapNow(board, taps'), ConfirmYes(board, taps')}
    BY DEF Approve
  <2> QED BY <1>3, <2>1, <2>2, YesType
<1>5. TypeOK'
  BY <1>1, <1>2, <1>4 DEF IInv, TypeOK
<1>6. taps' \notin Live
  BY <1>1, <1>2 DEF IInv, Unspent
<1>7. \A i \in DOMAIN toDaemon : toDaemon[i].id # 0 => toDaemon[i].id # taps'
  BY <1>3, <1>6 DEF Live, Ids
<1>8. taps' \notin {work.id, note.id}
  BY <1>3, <1>6 DEF Live
<1>9. Placed'
  BY <1>1, <1>4, <1>7, <1>8 DEF IInv, Placed, Speaks, Carried, OnePlace, Alive
<1>10. Live' = Live \cup {taps + 1}
  BY <1>1, <1>3, <1>4 DEF Live
<1>11. Working'
  BY <1>1 DEF IInv, Working, WorkSound, NoteSound, AppFirst
<1> QED BY <1>1, <1>5, <1>9, <1>10, <1>11 DEF Keeps, Consents, KeepsNote, HoldsResume

-----------------------------------------------------------------------------
(* Together.                                                               *)

LEMMA InitIInv == Init => IInv
<1> SUFFICES ASSUME Init PROVE IInv
  OBVIOUS
<1>1. PICK fw \in FirstFws : board = PowerOn(fw)
  BY DEF Init
<1>2. fw \in VersionOrNone
  BY VersionAssumption DEF VersionOrNone
<1>3. board \in Boards /\ board.tap = 0
  BY <1>1, <1>2, PowerOnType
<1>4. br \in Bridges /\ br.man = None /\ work = Idle /\ note = NoNote
  BY NewBridgeType DEF Init
<1>5. TypeOK
  <2>1. feed \in Versions /\ app \in Versions
    BY VersionAssumption DEF Init
  <2>2. taps \in 0 .. MaxTaps /\ writes \subseteq 1 .. taps /\ faults \in 0 .. MaxFaults
    BY BoundAssumption DEF Init
  <2>3. /\ link \in {"closed", "probing", "open"} /\ offer \in VersionOrNone
        /\ known \in VersionOrNone /\ owed \in BOOLEAN
        /\ toBoard \in Seq(FromDaemon) /\ toDaemon \in Seq(FromBoard)
    BY Nothing DEF Init
  <2> QED BY <1>3, <1>4, <2>1, <2>2, <2>3, IdleType, NoNoteType DEF TypeOK
<1>6. Speaks /\ Carried
  BY DEF Init, Speaks, Carried
<1>7. OnePlace
  BY <1>3, <1>4, IdleType DEF Init, OnePlace
<1>8. Unspent
  <2>1. Ids(toDaemon) = {}
    BY DEF Init, Ids
  <2> QED BY <1>3, <1>4, <2>1, IdleType, NoNoteType DEF Init, Unspent, Live
<1>9. Working
  <2>1. ~(None > app)
    BY VersionAssumption DEF Init, None, Versions
  <2> QED BY <1>4, <2>1, IdleType, NoNoteType DEF Working, WorkSound, NoteSound, AppFirst
<1> QED BY <1>5, <1>6, <1>7, <1>8, <1>9 DEF IInv

LEMMA StepKeeps == ASSUME IInv, Next PROVE IInv' /\ Keeps
<1>1. TypeOK' /\ Keeps
  <2>1. CASE Publish
    BY <2>1, PublishStep
  <2>2. CASE Connection
    BY <2>2, ProbeStep, ProbeAnsweredStep, ProbeSilentStep DEF Connection
  <2>3. CASE Handlers
    BY <2>3, LearnStep, HandleHelloStep, HandleQueryStep, HandleFlashStep, HandlePrefStep,
       OfferIfNewerStep, RetryOfferStep DEF Handlers
  <2>4. CASE Install
    BY <2>4, SelfUpdatedStep, SelfUpdateFailsStep, DownloadFailsStep, DownloadedStep,
       FlashedStep, FlashFailsStep DEF Install
  <2>5. CASE Faults
    BY <2>5, DaemonCrashStep, LinkLostStep, BoardResetsStep DEF Faults
  <2>6. CASE TheBoard
    BY <2>6, BoardReceivesStep, ServeRequestsStep, CheckTimeoutStep, TicksStep, PingStep
       DEF TheBoard
  <2>7. CASE User
    BY <2>7, ApproveStep, UserElseStep DEF User
  <2> QED BY <2>1, <2>2, <2>3, <2>4, <2>5, <2>6, <2>7 DEF Next
<1> QED BY <1>1, KeepsInv

LEMMA StutterKeeps == ASSUME IInv, UNCHANGED vars PROVE IInv' /\ Keeps
<1>1. UNCHANGED <<feed, board, app, link, br, work, offer, note, known, owed, toBoard, toDaemon,
                  taps, writes, faults>>
  BY DEF vars, daemon
<1>2. TypeOK'
  BY <1>1 DEF IInv, TypeOK
<1>3. toDaemon' \in Seq(FromBoard) /\ Suffix(toDaemon, toDaemon')
  BY <1>1, SuffixSelf DEF IInv, TypeOK
<1>4. Keeps
  BY <1>1, <1>3, Quietly
<1> QED BY <1>2, <1>4, KeepsInv

\* The invariant holds, and every step keeps what it should.
LEMMA Invariance == IInv /\ [Next]_vars => IInv' /\ Keeps
BY StepKeeps, StutterKeeps

\* Every record and message has its shape: versions are published ones, the
\* tries of a note stay below the limit, what was written was approved.
THEOREM TypeCorrect == Spec => []TypeOK
<1>1. IInv => TypeOK
  BY DEF IInv
<1> QED BY <1>1, InitIInv, Invariance, PTL DEF Spec

\* An approval is at one place, unspent, and never comes back.
THEOREM OneTapOnePlace == Spec => [](OnePlace /\ Unspent)
<1>1. IInv => OnePlace /\ Unspent
  BY DEF IInv
<1> QED BY <1>1, InitIInv, Invariance, PTL DEF Spec

\* One tap buys at most one write, across self-updates, crashes, lost links,
\* failed downloads and retried resumes; nothing is written without a tap.
THEOREM OneTapOneWrite == Spec => ImplementsConsent
<1>1. Init => Consent!Init
  <2> SUFFICES ASSUME Init PROVE Consent!Init
    OBVIOUS
  <2>1. PICK fw \in FirstFws : board = PowerOn(fw)
    BY DEF Init
  <2>2. board.tap = 0
    BY <2>1 DEF PowerOn
  <2>3. Ids(toDaemon) = {}
    BY DEF Init, Ids
  <2>4. Live = {}
    BY <2>2, <2>3, IdleType, NoNoteType DEF Init, Live
  <2> QED BY <2>4 DEF Init, Consent!Init
<1>2. Keeps => [Consent!Next]_(Consent!vars)
  <2> SUFFICES ASSUME Consents PROVE Consent!Next
    BY DEF Keeps
  <2>1. CASE Live' \subseteq Live /\ taps' = taps /\ writes' = writes
    BY <2>1 DEF Consent!Next, Consent!Lose
  <2>2. CASE /\ work.id \in Live /\ writes' = writes \cup {work.id}
             /\ Live' \subseteq Live \ {work.id} /\ taps' = taps
    BY <2>2 DEF Consent!Next, Consent!Spend
  <2>3. CASE /\ taps < MaxTaps /\ taps' = taps + 1
             /\ Live' = Live \cup {taps + 1} /\ writes' = writes
    BY <2>3 DEF Consent!Next, Consent!Approve
  <2> QED BY <2>1, <2>2, <2>3 DEF Consents
<1> QED BY <1>1, <1>2, InitIInv, Invariance, PTL DEF Spec, ImplementsConsent, Consent!Spec

\* An approval in the note is put to work, counted, given up at its limit,
\* dropped for a release that moved on, or replaced, and never just lost.
THEOREM NoteIsKept == Spec => ConsentKept
<1>1. Keeps => KeepsNote
  BY DEF Keeps
<1> QED BY <1>1, InitIInv, Invariance, PTL DEF Spec, ConsentKept

\* No resumed install starts on a board that speaks a newer protocol.
THEOREM ResumeHeld == Spec => ResumeIsHeld
<1>1. Keeps => HoldsResume
  BY DEF Keeps
<1> QED BY <1>1, InitIInv, Invariance, PTL DEF Spec, ResumeIsHeld

\* No write puts the board ahead of the app without the app's own update
\* having been tried.
THEOREM AppBeforeBoard == Spec => AppGoesFirst
<1>1. IInv /\ Keeps => (HasBuild /\ Writes /\ work.ver > app => work.tried)
  <2> SUFFICES ASSUME IInv, Keeps, HasBuild, writes' # writes, work.ver > app
               PROVE  work.tried
    BY DEF Writes
  <2>1. work.kind = "flash"
    BY DEF Keeps, Consents
  <2> QED BY <2>1 DEF IInv, Working, AppFirst
<1> QED BY <1>1, InitIInv, Invariance, PTL DEF Spec, AppGoesFirst

-----------------------------------------------------------------------------
(* What the panel offers: the invariant behind NoDeadOffer.                *)

\* A message that says whether there is something to install, and one that
\* names what.
Status(m) == m.t \in {"ota_avail", "ota_resume", "ota_none", "ota_error"}
Named(m) == m.t \in {"ota_avail", "ota_resume"}

Agrees(b, v) == b.man = v \/ b.failed

\* The last status in q is one the Bridge b stands by; there is none; the board
\* is greeted after it.
LastAt(q, i) == Status(q[i]) /\ \A j \in DOMAIN q : j > i => ~Status(q[j])

StoodBy(q, b) == \A i \in DOMAIN q : LastAt(q, i) /\ Named(q[i]) => Agrees(b, q[i].ver)

Silent(q) == \A i \in DOMAIN q : ~Status(q[i])

Greets(q) == \E i \in DOMAIN q : q[i].t = "welcome" /\ \A j \in DOMAIN q : j > i => ~Status(q[j])

\* What the board will show once it has read the line.
Honest == /\ StoodBy(toBoard, br)
          /\ Silent(toBoard) /\ board.staged => Agrees(br, board.ver)

\* Something under way will have the daemon say it anew.
Asked == \E i \in DOMAIN toDaemon : toDaemon[i].t \in {"ota_query", "ota_flash"}

Asking == \/ Greets(toBoard)
          \/ Silent(toBoard) /\ board.check
          \/ Asked
          \/ work.kind # "idle"

Offered == link = "open" => Honest \/ Asking

LEMMA ConcatSays ==
  ASSUME NEW q \in Seq(FromDaemon), NEW r \in Seq(FromDaemon), NEW b
  PROVE  /\ ~Silent(r) /\ StoodBy(r, b) => StoodBy(q \o r, b) /\ ~Silent(q \o r)
         /\ Silent(r) /\ StoodBy(q, b) => StoodBy(q \o r, b)
         /\ Silent(q \o r) => Silent(q)
         /\ Greets(r) => Greets(q \o r)
         /\ Silent(r) /\ Greets(q) => Greets(q \o r)
<1> DEFINE c == q \o r
           n == Len(q)
           m == Len(r)
<1>1. /\ n \in Nat /\ m \in Nat /\ DOMAIN q = 1 .. n /\ DOMAIN r = 1 .. m
      /\ DOMAIN c = 1 .. n + m
      /\ \A i \in 1 .. n + m : c[i] = IF i <= n THEN q[i] ELSE r[i - n]
  BY ConcatProperties, LenProperties
<1> HIDE DEF c, n, m
<1>2. \A i \in 1 .. n : i \in DOMAIN c /\ c[i] = q[i]
  BY <1>1
<1>3. \A i \in 1 .. m : i + n \in DOMAIN c /\ c[i + n] = r[i]
  <2> SUFFICES ASSUME NEW i \in 1 .. m PROVE i + n \in DOMAIN c /\ c[i + n] = r[i]
    OBVIOUS
  <2>1. i + n \in 1 .. n + m /\ ~(i + n <= n) /\ (i + n) - n = i
    BY <1>1
  <2> QED BY <1>1, <2>1
<1>4. \A i \in DOMAIN c : i \in 1 .. n \/ \E k \in 1 .. m : i = k + n
  <2> SUFFICES ASSUME NEW i \in DOMAIN c, i \notin 1 .. n PROVE \E k \in 1 .. m : i = k + n
    OBVIOUS
  <2>1. i - n \in 1 .. m /\ i = (i - n) + n
    BY <1>1
  <2> QED BY <2>1
<1>5. \A i \in 1 .. m : LastAt(c, i + n) <=> LastAt(r, i)
  <2> SUFFICES ASSUME NEW i \in 1 .. m PROVE LastAt(c, i + n) <=> LastAt(r, i)
    OBVIOUS
  <2>1. ASSUME LastAt(c, i + n) PROVE LastAt(r, i)
    <3>1. \A j \in 1 .. m : j > i => j + n > i + n
      BY <1>1
    <3> QED BY <1>1, <1>3, <2>1, <3>1 DEF LastAt
  <2>2. ASSUME LastAt(r, i) PROVE LastAt(c, i + n)
    <3> SUFFICES ASSUME NEW j \in DOMAIN c, j > i + n PROVE ~Status(c[j])
      BY <1>3, <2>2 DEF LastAt
    <3>1. j \notin 1 .. n
      BY <1>1
    <3>2. PICK k \in 1 .. m : j = k + n
      BY <1>4, <3>1
    <3>3. k > i
      BY <1>1, <3>2
    <3> QED BY <1>1, <1>3, <2>2, <3>2, <3>3 DEF LastAt
  <2> QED BY <2>1, <2>2
<1>6. \A i \in 1 .. n : LastAt(c, i) => LastAt(q, i) /\ Silent(r)
  <2> SUFFICES ASSUME NEW i \in 1 .. n, LastAt(c, i) PROVE LastAt(q, i) /\ Silent(r)
    OBVIOUS
  <2>1. \A k \in 1 .. m : k + n > i
    BY <1>1
  <2> QED BY <1>1, <1>2, <1>3, <2>1 DEF LastAt, Silent
<1>7. ~Silent(r) => ~Silent(c)
  BY <1>1, <1>3 DEF Silent
<1>8. ~Silent(r) /\ StoodBy(r, b) => StoodBy(c, b)
  <2> SUFFICES ASSUME ~Silent(r), StoodBy(r, b), NEW i \in DOMAIN c, LastAt(c, i), Named(c[i])
               PROVE  Agrees(b, c[i].ver)
    BY DEF StoodBy
  <2>1. PICK k \in 1 .. m : i = k + n
    BY <1>4, <1>6
  <2> QED BY <1>1, <1>3, <1>5, <2>1 DEF StoodBy
<1>9. Silent(r) /\ StoodBy(q, b) => StoodBy(c, b)
  <2> SUFFICES ASSUME Silent(r), StoodBy(q, b), NEW i \in DOMAIN c, LastAt(c, i), Named(c[i])
               PROVE  Agrees(b, c[i].ver)
    BY DEF StoodBy
  <2>1. i \in 1 .. n
    BY <1>1, <1>3, <1>4 DEF Silent, LastAt
  <2> QED BY <1>1, <1>2, <1>6, <2>1 DEF StoodBy
<1>10. Silent(c) => Silent(q)
  BY <1>1, <1>2 DEF Silent
<1>11. Greets(r) => Greets(c)
  <2> SUFFICES ASSUME NEW i \in 1 .. m, r[i].t = "welcome",
                      \A j \in 1 .. m : j > i => ~Status(r[j])
               PROVE  Greets(c)
    BY <1>1 DEF Greets
  <2>1. \A j \in DOMAIN c : j > i + n => ~Status(c[j])
    <3> SUFFICES ASSUME NEW j \in DOMAIN c, j > i + n PROVE ~Status(c[j])
      OBVIOUS
    <3>1. j \notin 1 .. n
      BY <1>1
    <3>2. PICK k \in 1 .. m : j = k + n
      BY <1>4, <3>1
    <3>3. k > i
      BY <1>1, <3>2
    <3> QED BY <1>3, <3>2, <3>3
  <2> QED BY <1>3, <2>1 DEF Greets
<1>12. Silent(r) /\ Greets(q) => Greets(c)
  <2> SUFFICES ASSUME Silent(r), NEW i \in 1 .. n, q[i].t = "welcome",
                      \A j \in 1 .. n : j > i => ~Status(q[j])
               PROVE  Greets(c)
    BY <1>1 DEF Greets
  <2>1. \A j \in DOMAIN c : j > i => ~Status(c[j])
    <3> SUFFICES ASSUME NEW j \in DOMAIN c, j > i PROVE ~Status(c[j])
      OBVIOUS
    <3>1. CASE j \in 1 .. n
      BY <1>2, <3>1
    <3>2. ASSUME NEW k \in 1 .. m, j = k + n PROVE ~Status(c[j])
      BY <1>1, <1>3, <3>2 DEF Silent
    <3> QED BY <1>4, <3>1, <3>2
  <2> QED BY <1>2, <2>1 DEF Greets
<1> QED BY <1>7, <1>8, <1>9, <1>10, <1>11, <1>12 DEF c

LEMMA TailSays ==
  ASSUME NEW q \in Seq(FromDaemon), q # <<>>, NEW b
  PROVE  /\ StoodBy(q, b) => StoodBy(Tail(q), b)
         /\ Silent(Tail(q)) /\ ~Status(Head(q)) => Silent(q)
         /\ Silent(Tail(q)) /\ StoodBy(q, b) /\ Named(Head(q)) => Agrees(b, Head(q).ver)
         /\ Silent(q) => Silent(Tail(q)) /\ ~Status(Head(q))
         /\ Greets(q) => Greets(Tail(q)) \/ (Head(q).t = "welcome" /\ Silent(Tail(q)))
<1> DEFINE r == Tail(q)
           n == Len(q)
<1>1. /\ n \in Nat \ {0} /\ DOMAIN q = 1 .. n /\ DOMAIN r = 1 .. n - 1
      /\ Head(q) = q[1] /\ \A i \in 1 .. n - 1 : r[i] = q[i + 1]
  BY HeadTailProperties, LenProperties, EmptySeq
<1> HIDE DEF r, n
<1>2. \A j \in DOMAIN q : j = 1 \/ \E k \in DOMAIN r : j = k + 1
  <2> SUFFICES ASSUME NEW j \in DOMAIN q, j # 1 PROVE \E k \in DOMAIN r : j = k + 1
    OBVIOUS
  <2>1. j - 1 \in DOMAIN r /\ j = (j - 1) + 1
    BY <1>1
  <2> QED BY <2>1
<1>3. \A i \in DOMAIN r : i + 1 \in DOMAIN q /\ i + 1 > 1 /\ r[i] = q[i + 1]
  BY <1>1
<1>4. \A i, k \in DOMAIN r : k + 1 > i + 1 <=> k > i
  BY <1>1
<1>5. StoodBy(q, b) => StoodBy(r, b)
  <2> SUFFICES ASSUME StoodBy(q, b), NEW i \in DOMAIN r, LastAt(r, i), Named(r[i])
               PROVE  Agrees(b, r[i].ver)
    BY DEF StoodBy
  <2>1. \A j \in DOMAIN q : j > i + 1 => ~Status(q[j])
    <3> SUFFICES ASSUME NEW j \in DOMAIN q, j > i + 1 PROVE ~Status(q[j])
      OBVIOUS
    <3>1. j # 1
      BY <1>1
    <3>2. PICK k \in DOMAIN r : j = k + 1
      BY <1>2, <3>1
    <3> QED BY <1>3, <1>4, <3>2 DEF LastAt
  <2>2. LastAt(q, i + 1)
    BY <1>3, <2>1 DEF LastAt
  <2> QED BY <1>3, <2>2 DEF StoodBy
<1>6. Silent(r) /\ ~Status(q[1]) => Silent(q)
  BY <1>2, <1>3 DEF Silent
<1>7. Silent(r) /\ StoodBy(q, b) /\ Named(q[1]) => Agrees(b, q[1].ver)
  <2> SUFFICES ASSUME Silent(r), StoodBy(q, b), Named(q[1]) PROVE Agrees(b, q[1].ver)
    OBVIOUS
  <2>1. 1 \in DOMAIN q /\ Status(q[1])
    BY <1>1 DEF Named, Status
  <2>2. \A j \in DOMAIN q : j > 1 => ~Status(q[j])
    BY <1>2, <1>3 DEF Silent
  <2> QED BY <2>1, <2>2 DEF StoodBy, LastAt
<1>8. Silent(q) => Silent(r) /\ ~Status(q[1])
  BY <1>1, <1>3 DEF Silent
<1>9. Greets(q) => Greets(r) \/ (q[1].t = "welcome" /\ Silent(r))
  <2> SUFFICES ASSUME NEW i \in DOMAIN q, q[i].t = "welcome",
                      \A j \in DOMAIN q : j > i => ~Status(q[j])
               PROVE  Greets(r) \/ (q[1].t = "welcome" /\ Silent(r))
    BY DEF Greets
  <2>1. CASE i = 1
    BY <1>3, <2>1 DEF Silent
  <2>2. CASE i # 1
    <3>1. PICK k \in DOMAIN r : i = k + 1
      BY <1>2, <2>2
    <3>2. \A j \in DOMAIN r : j > k => ~Status(r[j])
      BY <1>3, <1>4, <3>1
    <3> QED BY <1>3, <3>1, <3>2 DEF Greets
  <2> QED BY <2>1, <2>2
<1> QED BY <1>1, <1>5, <1>6, <1>7, <1>8, <1>9 DEF r

\* Short lines.
LEMMA OneSays ==
  ASSUME NEW m \in FromDaemon, NEW b, Status(m), Named(m) => Agrees(b, m.ver)
  PROVE  <<m>> \in Seq(FromDaemon) /\ ~Silent(<<m>>) /\ StoodBy(<<m>>, b)
<1>1. DOMAIN <<m>> = {1} /\ <<m>>[1] = m
  OBVIOUS
<1> QED BY <1>1 DEF Silent, StoodBy, LastAt

LEMMA TwoSay ==
  ASSUME NEW k \in FromDaemon, NEW m \in FromDaemon, NEW b, Status(m), Named(m) => Agrees(b, m.ver)
  PROVE  <<k, m>> \in Seq(FromDaemon) /\ ~Silent(<<k, m>>) /\ StoodBy(<<k, m>>, b)
<1>1. DOMAIN <<k, m>> = {1, 2} /\ <<k, m>>[1] = k /\ <<k, m>>[2] = m
  OBVIOUS
<1>2. \A i \in {1, 2} : LastAt(<<k, m>>, i) => i = 2
  BY <1>1 DEF LastAt
<1> QED BY <1>1, <1>2 DEF Silent, StoodBy


\* A greeting that owes no report ends in the welcome; one that does, in an
\* error.
LEMMA GreetingSays ==
  ASSUME NEW b \in Bridges, NEW c
  PROVE  \/ Greets(Greeting(b)) /\ Silent(Greeting(b))
         \/ ~Silent(Greeting(b)) /\ StoodBy(Greeting(b), c)
<1>1. CASE b.report
  <2>1. Status(OtaError) /\ ~Named(OtaError)
    BY DEF Status, Named, OtaError
  <2> QED BY <1>1, <2>1, TwoSay, MessageType, Nothing DEF Greeting
<1>2. CASE ~b.report
  <2>1. DOMAIN <<Welcome>> = {1} /\ <<Welcome>>[1] = Welcome
    OBVIOUS
  <2>2. Welcome.t = "welcome" /\ ~Status(Welcome)
    BY DEF Welcome, Status
  <2>3. Greets(<<Welcome>>) /\ Silent(<<Welcome>>)
    BY <2>1, <2>2 DEF Greets, Silent
  <2>4. Greeting(b) = <<Welcome>>
    BY <1>2 DEF Greeting
  <2> QED BY <2>3, <2>4
<1> QED BY <1>1, <1>2 DEF Bridges

\* Every answer is a status the Bridge stands by.
LEMMA AnswerSays ==
  ASSUME NEW b \in Bridges, NEW a, NEW cur, NEW f, NEW s
  PROVE  LET r == Answer(b, a, cur, f, s)
         IN  Status(r.msg) /\ (Named(r.msg) => Agrees(r.br, r.msg.ver))
<1> DEFINE heard == [b EXCEPT !.asked = TRUE, !.failed = FALSE, !.heard = TRUE,
                              !.fw = IF b.heard THEN @ ELSE cur]
           found == [heard EXCEPT !.upd = AppAvailable(a, s)]
           r == Answer(b, a, cur, f, s)
<1>1. \/ r.msg = OtaNone
      \/ r.msg = OtaAvail(f) /\ r.br = [found EXCEPT !.man = f]
  BY DEF Answer
<1>2. Status(OtaNone) /\ ~Named(OtaNone)
  BY DEF Status, Named, OtaNone
<1>3. Status(OtaAvail(f)) /\ OtaAvail(f).ver = f
  BY DEF Status, OtaAvail
<1>4. [found EXCEPT !.man = f].man = f
  BY DEF Bridges
<1> HIDE DEF r, found
<1> QED BY <1>1, <1>2, <1>3, <1>4 DEF r, Agrees

\* A flash that does not start says so; one that does keeps the manifest.
LEMMA FlashSays ==
  ASSUME NEW b \in Bridges, NEW n, NEW id
  PROVE  LET r == FlashStart(b, n, id)
         IN  /\ r.work.kind = "idle" => r.out = <<OtaError>>
             /\ r.work.kind # "idle" => r.out = <<>>
             /\ r.work.kind = "idle" <=> b.man = None
             /\ r.br.man = b.man /\ r.br.failed = b.failed
BY DEF FlashStart, Result, Idle, Bridges

\* A resume says nothing if nothing was noted, and ends in a status otherwise.
LEMMA ResumeSays ==
  ASSUME NEW b \in Bridges, NEW a \in Versions, NEW n \in Notes,
         NEW f \in VersionOrNone, NEW s \in VersionOrNone
  PROVE  LET r == Resume(b, a, n, f, s)
         IN  \/ r.out = <<>> /\ r.br = b /\ r.work = Idle
             \/ ~Silent(r.out) /\ StoodBy(r.out, r.br)
<1> DEFINE x == Answer(b, a, b.fw, f, s)
           q == x.br
           go == FlashStart(q, Spent(n), n.id)
           r == Resume(b, a, n, f, s)
<1>1. q \in Bridges /\ x.msg \in FromDaemon
  BY AnswerType DEF Bridges
<1>2. /\ n.ver = None => r = Result(b, n, Idle, <<>>)
      /\ n.ver # None /\ q.man = None /\ LastTry(n)
           => r = Result(OtaReset(q), NoNote, Idle, <<x.msg, OtaError>>)
      /\ n.ver # None /\ q.man = None /\ ~LastTry(n)
           => r = Result(OtaReset(q), TriedOnce(n), Idle, <<x.msg>>)
      /\ n.ver # None /\ q.man # None /\ MovedOn(q, n)
           => r = Result(OtaReset(q), NoNote, Idle, <<x.msg>>)
      /\ n.ver # None /\ q.man # None /\ ~MovedOn(q, n)
           => r = [go EXCEPT !.out = <<x.msg, OtaResume(n.ver)>> \o @]
  BY DEF Resume
<1>3. Status(x.msg) /\ OtaError \in FromDaemon /\ Status(OtaError) /\ ~Named(OtaError)
  BY AnswerSays, MessageType, Nothing DEF Status, Named, OtaError
<1>4. OtaReset(q).failed
  BY <1>1 DEF OtaReset, Bridges
<1>5. <<x.msg>> \in Seq(FromDaemon) /\ ~Silent(<<x.msg>>) /\ StoodBy(<<x.msg>>, OtaReset(q))
  BY <1>1, <1>3, <1>4, OneSays DEF Agrees
<1>6. ~Silent(<<x.msg, OtaError>>) /\ StoodBy(<<x.msg, OtaError>>, OtaReset(q))
  BY <1>1, <1>3, TwoSay
<1> HIDE DEF x, q, go, r
<1>7. CASE n.ver = None
  <2>1. r.out = <<>> /\ r.br = b /\ r.work = Idle
    BY <1>2, <1>7 DEF Result
  <2> QED BY <2>1 DEF r
<1>8. CASE n.ver # None /\ (q.man = None \/ MovedOn(q, n))
  <2>1. r.br = OtaReset(q) /\ r.out \in {<<x.msg, OtaError>>, <<x.msg>>}
    BY <1>2, <1>8 DEF Result
  <2> QED BY <1>5, <1>6, <2>1 DEF r
<1>9. CASE n.ver # None /\ q.man # None /\ ~MovedOn(q, n)
  <2>1. go.out = <<>> /\ go.br.man = q.man
    BY <1>1, <1>9, FlashSays DEF go
  <2>2. go.br.man = n.ver
    BY <1>9, <2>1 DEF MovedOn
  <2>3. go \in [br : {go.br}, note : {go.note}, work : {go.work}, out : {go.out}]
    BY DEF go, FlashStart, Result
  <2>4. n.ver \in VersionOrNone
    BY DEF Notes
  <2>5. OtaResume(n.ver) \in FromDaemon /\ Status(OtaResume(n.ver)) /\ OtaResume(n.ver).ver = n.ver
    BY <2>4, MessageType DEF Status, OtaResume
  <2>6. /\ <<x.msg, OtaResume(n.ver)>> \in Seq(FromDaemon)
        /\ ~Silent(<<x.msg, OtaResume(n.ver)>>)
        /\ StoodBy(<<x.msg, OtaResume(n.ver)>>, go.br)
    BY <1>1, <2>2, <2>5, TwoSay DEF Agrees
  <2>7. r.br = go.br /\ r.out = <<x.msg, OtaResume(n.ver)>> \o go.out
    BY <1>2, <1>9, <2>3
  <2>8. <<x.msg, OtaResume(n.ver)>> \o <<>> = <<x.msg, OtaResume(n.ver)>>
    BY <2>6, ConcatEmptySeq
  <2> QED BY <2>1, <2>6, <2>7, <2>8 DEF r
<1> QED BY <1>7, <1>8, <1>9

\* What the board's operators do to the offer it holds.
LEMMA ReceiveSays ==
  ASSUME NEW b \in Boards, NEW m \in FromDaemon
  PROVE  LET c == Receive(b, m)
         IN  /\ c.staged /\ Status(m) => Named(m) /\ c.ver = m.ver
             /\ ~Status(m) => c.staged = b.staged /\ c.ver = b.ver
             /\ b.check => c.check
             /\ m.t = "welcome" => c.check
<1>1. CASE m.t \in {"ota_none", "ota_error"}
  BY <1>1 DEF Receive, Unstaged, Boards, Status
<1>2. CASE m.t = "welcome"
  BY <1>2 DEF Receive, Boards, Status
<1>3. CASE m.t \in {"ota_avail", "ota_resume"}
  BY <1>3 DEF Receive, Boards, Status, Named
<1>4. CASE m.t = "ota_begin"
  BY <1>4 DEF Receive, Status
<1> QED BY <1>1, <1>2, <1>3, <1>4 DEF FromDaemon

LEMMA RequestsSay ==
  ASSUME NEW b \in Boards
  PROVE  /\ b.tap # 0 => Requests(b).staged = b.staged /\ Requests(b).ver = b.ver
         /\ b.tap = 0 /\ b.check => ~Requests(b).staged
BY DEF Requests, Unstaged, Boards

\* Nothing else touches it.
SameOffer(b, c) == c.staged = b.staged /\ c.ver = b.ver /\ (b.check => c.check)

LEMMA TickSays ==
  ASSUME NEW b \in Boards, NEW busy, NEW late
  PROVE  SameOffer(b, Tick(b, busy, late))
<1> DEFINE p == PromptStep(b, busy)
           latched == b.latched /\ ~(b.st = "failed" \/ (~(b.st = "available") /\ b.prompt # None))
           after == IF Announces(b) THEN "idle"
                    ELSE IF late /\ b.st = "downloading" /\ b.seen = b.st THEN "failed"
                    ELSE b.st
           saw == IF b.st \in {"failed", "downloading"} THEN b.st ELSE "idle"
<1>1. p \in {[b EXCEPT !.prompt = b.ver, !.latched = TRUE],
             [b EXCEPT !.prompt = None, !.latched = latched], b}
  BY DEF PromptStep
<1>2. p.staged = b.staged /\ p.ver = b.ver /\ p.check = b.check
  <2> HIDE DEF p, latched
  <2> QED BY <1>1 DEF Boards
<1>3. Tick(b, busy, late) = [p EXCEPT !.st = after, !.seen = saw]
  BY DEF Tick
<1>4. [p EXCEPT !.st = after, !.seen = saw].staged = p.staged
      /\ [p EXCEPT !.st = after, !.seen = saw].ver = p.ver
      /\ [p EXCEPT !.st = after, !.seen = saw].check = p.check
  <2> HIDE DEF latched, after, saw
  <2>1. p = [b EXCEPT !.prompt = p.prompt, !.latched = p.latched]
    <3> HIDE DEF p
    <3> QED BY <1>1 DEF Boards
  <2> HIDE DEF p
  <2> QED BY <2>1 DEF Boards
<1> HIDE DEF p, after, saw
<1> QED BY <1>2, <1>3, <1>4 DEF SameOffer

LEMMA ButtonSays ==
  ASSUME NEW b \in Boards, NEW id
  PROVE  \A c \in {TapLater(b), OpenConfirm(b), ConfirmNo(b), TapCheck(b), CheckTimesOut(b),
                   TapNow(b, id), ConfirmYes(b, id)} : SameOffer(b, c)
BY DEF TapLater, OpenConfirm, ConfirmNo, TapCheck, CheckTimesOut, TapNow, ConfirmYes, Boards, SameOffer

-----------------------------------------------------------------------------
(* The ways a step can end with the offer accounted for.                   *)

\* The daemon has just said it.
LEMMA Spoken ==
  ASSUME TypeOK, NEW out \in Seq(FromDaemon), SendToBoard(out), ~Silent(out), StoodBy(out, br')
  PROVE  Offered'
<1>1. toBoard' = toBoard \o out
  BY DEF SendToBoard
<1>2. StoodBy(toBoard', br') /\ ~Silent(toBoard')
  BY <1>1, ConcatSays DEF TypeOK
<1> QED BY <1>2 DEF Offered, Honest

\* The board has been started over, and holds no offer.
LEMMA StartedOver ==
  ASSUME NEW fw, Restart(fw)
  PROVE  Offered'
<1>1. toBoard' = <<>> /\ ~board'.staged
  BY DEF Restart, PowerOn
<1> QED BY <1>1 DEF Offered, Honest, StoodBy

\* Nothing the offer depends on has changed, except for more to come.
LEMMA Stays ==
  ASSUME TypeOK, Offered, link' = link, SameOffer(board, board'), toBoard' = toBoard,
         br'.man = br.man, br'.failed = br.failed,
         work.kind # "idle" => work'.kind # "idle", Asked => Asked'
  PROVE  Offered'
<1> SUFFICES ASSUME link = "open" PROVE Honest' \/ Asking'
  BY DEF Offered
<1>1. \A v : Agrees(br, v) <=> Agrees(br', v)
  BY DEF Agrees
<1>2. Honest => Honest'
  BY <1>1 DEF Honest, StoodBy, SameOffer
<1>3. Asking => Asking'
  BY DEF Asking, SameOffer
<1> QED BY <1>2, <1>3 DEF Offered

\* What was asked stays on the line while nothing is read.
LEMMA StaysAsked ==
  ASSUME TypeOK, NEW m \in FromBoard, toDaemon' \in {toDaemon, toDaemon \o <<m>>}
  PROVE  Asked => Asked'
<1>1. CASE toDaemon' = toDaemon
  BY <1>1 DEF Asked
<1>2. CASE toDaemon' = toDaemon \o <<m>>
  <2>1. \A i \in DOMAIN toDaemon : i \in DOMAIN toDaemon' /\ toDaemon'[i] = toDaemon[i]
    <3>2. DOMAIN toDaemon' = 1 .. Len(toDaemon) + 1 /\ \A i \in 1 .. Len(toDaemon) : toDaemon'[i] = toDaemon[i]
      BY <1>2, OneMore DEF TypeOK
    <3>3. DOMAIN toDaemon = 1 .. Len(toDaemon) /\ Len(toDaemon) \in Nat
      BY LenProperties DEF TypeOK
    <3> QED BY <3>2, <3>3
  <2> QED BY <2>1 DEF Asked
<1> QED BY <1>1, <1>2

-----------------------------------------------------------------------------
(* The steps, once more.                                                   *)

LEMMA ConnectionOffers == ASSUME IInv, Offered, Connection PROVE Offered'
<1>1. CASE Probe
  BY <1>1 DEF Probe, Offered
<1>2. CASE ProbeAnswered
  <2> DEFINE g == Greeting(NewBridge(owed))
  <2>1. SendToBoard(g) /\ NewBridge(owed) \in Bridges
    BY <1>2, NewBridgeType DEF ProbeAnswered, IInv, TypeOK
  <2>2. g \in Seq(FromDaemon) /\ (Greets(g) \/ (~Silent(g) /\ StoodBy(g, br')))
    BY <2>1, GreetingType, GreetingSays
  <2> HIDE DEF g
  <2>3. CASE Greets(g)
    <3>1. Greets(toBoard')
      BY <2>1, <2>2, <2>3, ConcatSays DEF SendToBoard, IInv, TypeOK
    <3> QED BY <3>1 DEF Offered, Asking
  <2>4. CASE ~Silent(g) /\ StoodBy(g, br')
    BY <2>1, <2>2, <2>4, Spoken DEF IInv
  <2> QED BY <2>2, <2>3, <2>4
<1>3. CASE ProbeSilent
  BY <1>3, StartedOver DEF ProbeSilent
<1> QED BY <1>1, <1>2, <1>3 DEF Connection

LEMMA LearnOffers == ASSUME IInv, Offered, Learn PROVE Offered'
<1>1. /\ toDaemon # <<>> /\ work = Idle
      /\ UNCHANGED <<toDaemon, board, app, link>>
  BY DEF Learn, Ready, DaemonStep
<1> DEFINE b == [br EXCEPT !.proto = Head(toDaemon).proto]
<1>2. PICK f \in Fetch, s \in Fetch :
        Take(Resume(b, app, note, f, s)) /\ SendToBoard(Resume(b, app, note, f, s).out)
  BY DEF Learn
<1>3. Head(toDaemon) \in FromBoard
  BY <1>1, SuffixTail DEF IInv, TypeOK
<1>4. b \in Bridges /\ b.man = br.man /\ b.failed = br.failed
  BY <1>3 DEF IInv, TypeOK, Bridges, FromBoard
<1>5. f \in VersionOrNone /\ s \in VersionOrNone /\ note \in Notes /\ NoteSound(note) /\ app \in Versions
  BY FetchType DEF IInv, TypeOK, Working
<1>6. AppFirst(app, b, Idle)
  <2>1. b.upd = br.upd
    BY DEF IInv, TypeOK, Bridges
  <2> QED BY <1>1, <1>4, <2>1 DEF IInv, Working, AppFirst
<1> HIDE DEF b
<1> DEFINE r == Resume(b, app, note, f, s)
<1>7. r.out \in Seq(FromDaemon)
  BY <1>4, <1>5, <1>6, ResumeType DEF Sound
<1>8. br' = r.br /\ work' = r.work /\ toBoard' = toBoard \o r.out
  BY <1>2 DEF Take, SendToBoard
<1>9. \/ r.out = <<>> /\ r.br = b /\ r.work = Idle
      \/ ~Silent(r.out) /\ StoodBy(r.out, r.br)
  BY <1>4, <1>5, ResumeSays
<1>10. SendToBoard(r.out)
  BY <1>2
<1> HIDE DEF r
<1>11. CASE r.out = <<>> /\ r.br = b
  <2>1. toBoard' = toBoard
    BY <1>8, <1>11, ConcatEmptySeq DEF IInv, TypeOK
  <2>2. br'.man = br.man /\ br'.failed = br.failed
    BY <1>4, <1>8, <1>11
  <2>3. SameOffer(board, board') /\ (Asked => Asked') /\ work.kind = "idle"
    BY <1>1, IdleType DEF SameOffer, Asked
  <2> QED BY <1>1, <2>1, <2>2, <2>3, Stays DEF IInv
<1>12. CASE ~Silent(r.out) /\ StoodBy(r.out, r.br)
  BY <1>7, <1>8, <1>10, <1>12, Spoken DEF IInv
<1> QED BY <1>9, <1>11, <1>12

LEMMA HandleHelloOffers == ASSUME IInv, Offered, HandleHello PROVE Offered'
<1> DEFINE m == Head(toDaemon)
           b == [br EXCEPT !.proto = m.proto, !.heard = TRUE, !.fw = m.fw, !.report = FALSE]
           g == Greeting(br)
<1>1. toDaemon # <<>> /\ work = Idle /\ app' = app /\ board' = board
  BY DEF HandleHello, Ready
<1>2. PICK f \in Fetch, s \in Fetch :
        /\ Take(Resume(b, app, note, f, s))
        /\ SendToBoard(g \o Resume(b, app, note, f, s).out)
  BY DEF HandleHello
<1>3. m \in FromBoard
  BY <1>1, SuffixTail DEF IInv, TypeOK
<1>4. b \in Bridges /\ b.man = br.man /\ b.upd = br.upd
  BY <1>3 DEF IInv, TypeOK, Bridges, FromBoard
<1>5. f \in VersionOrNone /\ s \in VersionOrNone /\ note \in Notes /\ NoteSound(note) /\ app \in Versions
  BY FetchType DEF IInv, TypeOK, Working
<1>6. AppFirst(app, b, Idle)
  BY <1>1, <1>4 DEF IInv, Working, AppFirst
<1> HIDE DEF b, m
<1> DEFINE r == Resume(b, app, note, f, s)
<1>7. r.out \in Seq(FromDaemon) /\ g \in Seq(FromDaemon) /\ g \o r.out \in Seq(FromDaemon)
  <2>1. r.out \in Seq(FromDaemon) /\ g \in Seq(FromDaemon)
    BY <1>4, <1>5, <1>6, ResumeType, GreetingType DEF Sound, IInv, TypeOK
  <2> HIDE DEF r, g
  <2> QED BY <2>1, ConcatProperties
<1>8. br' = r.br /\ SendToBoard(g \o r.out)
  BY <1>2 DEF Take
<1>9. r.out = <<>> \/ (~Silent(r.out) /\ StoodBy(r.out, r.br))
  BY <1>4, <1>5, ResumeSays
<1>10. Greets(g) \/ (~Silent(g) /\ StoodBy(g, br'))
  BY GreetingSays DEF IInv, TypeOK
<1> HIDE DEF r, g
<1>11. CASE ~Silent(r.out) /\ StoodBy(r.out, r.br)
  <2>1. ~Silent(g \o r.out) /\ StoodBy(g \o r.out, br')
    BY <1>7, <1>8, <1>11, ConcatSays
  <2> QED BY <1>7, <1>8, <2>1, Spoken DEF IInv
<1>12. CASE r.out = <<>>
  <2>1. g \o r.out = g
    BY <1>7, <1>12, ConcatEmptySeq
  <2>2. CASE Greets(g)
    <3>1. Greets(toBoard')
      BY <1>7, <1>8, <2>1, <2>2, ConcatSays DEF SendToBoard, IInv, TypeOK
    <3> QED BY <3>1 DEF Offered, Asking
  <2>3. CASE ~Silent(g) /\ StoodBy(g, br')
    BY <1>7, <1>8, <2>1, <2>3, Spoken DEF IInv
  <2> QED BY <1>10, <2>2, <2>3
<1> QED BY <1>9, <1>11, <1>12

\* An answer to whatever asked for it.
LEMMA AnswerOffers ==
  ASSUME IInv, NEW cur \in VersionOrNone, NEW f \in Fetch, NEW s \in Fetch,
         br' = Answer(br, app, cur, f, s).br, SendToBoard(<<Answer(br, app, cur, f, s).msg>>)
  PROVE  Offered'
<1> DEFINE a == Answer(br, app, cur, f, s)
<1>1. f \in VersionOrNone /\ s \in VersionOrNone /\ br \in Bridges /\ app \in Versions
  BY FetchType DEF IInv, TypeOK
<1>2. a.msg \in FromDaemon /\ Status(a.msg) /\ (Named(a.msg) => Agrees(a.br, a.msg.ver))
  BY <1>1, AnswerType, AnswerSays
<1>3. br' = a.br /\ SendToBoard(<<a.msg>>)
  OBVIOUS
<1> HIDE DEF a
<1> QED BY <1>2, <1>3, OneSays, Spoken DEF IInv

LEMMA QueryOffers == ASSUME IInv, Offered, HandleQuery \/ OfferIfNewer \/ RetryOffer PROVE Offered'
<1>1. CASE HandleQuery
  <2>1. Head(toDaemon) \in FromBoard
    BY <1>1, SuffixTail DEF HandleQuery, IInv, TypeOK
  <2>2. Head(toDaemon).fw \in VersionOrNone
    BY <2>1 DEF FromBoard
  <2> QED BY <1>1, <2>2, AnswerOffers DEF HandleQuery
<1>2. CASE OfferIfNewer
  <2>1. CASE UNCHANGED <<br, toBoard>>
    BY <1>2, <2>1, Stays DEF OfferIfNewer, DaemonStep, SameOffer, Asked, IInv
  <2>2. ASSUME NEW f \in Fetch, NEW s \in Fetch,
               br' = Answer(br, app, offer, f, s).br,
               SendToBoard(<<Answer(br, app, offer, f, s).msg>>)
        PROVE  Offered'
    BY <2>2, AnswerOffers DEF IInv, TypeOK
  <2> QED BY <1>2, <2>1, <2>2 DEF OfferIfNewer
<1>3. CASE RetryOffer
  <2>1. br.fw \in VersionOrNone
    BY DEF IInv, TypeOK, Bridges
  <2> QED BY <1>3, <2>1, AnswerOffers DEF RetryOffer
<1> QED BY <1>1, <1>2, <1>3

\* An approval that is refused is said to be; one that is not is under way.
LEMMA HandleFlashOffers == ASSUME IInv, Offered, HandleFlash PROVE Offered'
<1> DEFINE id == Head(toDaemon).id
           r == FlashStart(br, note, id)
<1>1. /\ br' = r.br /\ work' = r.work /\ SendToBoard(r.out)
  BY DEF HandleFlash, Take
<1>2. /\ r.work.kind = "idle" => r.out = <<OtaError>>
  BY FlashSays DEF IInv, TypeOK
<1> HIDE DEF r
<1>3. CASE r.work.kind = "idle"
  <2>1. OtaError \in FromDaemon /\ Status(OtaError) /\ ~Named(OtaError)
    BY MessageType, Nothing DEF Status, Named, OtaError
  <2> QED BY <1>1, <1>2, <1>3, <2>1, OneSays, Spoken DEF IInv
<1>4. CASE r.work.kind # "idle"
  BY <1>1, <1>4 DEF Offered, Asking
<1> QED BY <1>3, <1>4

LEMMA HandlePrefOffers == ASSUME IInv, Offered, HandlePref PROVE Offered'
<1>1. /\ toDaemon # <<>> /\ Head(toDaemon).t = "pref" /\ toDaemon' = Tail(toDaemon)
      /\ UNCHANGED <<board, link, toBoard, br, work>>
  BY DEF HandlePref, DaemonStep
<1>2. Asked => Asked'
  <2> SUFFICES ASSUME NEW i \in DOMAIN toDaemon, toDaemon[i].t \in {"ota_query", "ota_flash"}
               PROVE  Asked'
    BY DEF Asked
  <2>1. /\ Len(toDaemon) \in Nat \ {0} /\ DOMAIN toDaemon = 1 .. Len(toDaemon)
        /\ DOMAIN toDaemon' = 1 .. Len(toDaemon) - 1 /\ Head(toDaemon) = toDaemon[1]
        /\ \A k \in 1 .. Len(toDaemon) - 1 : toDaemon'[k] = toDaemon[k + 1]
    BY <1>1, HeadTailProperties, LenProperties, EmptySeq DEF IInv, TypeOK
  <2>2. i # 1
    BY <1>1, <2>1
  <2>3. i - 1 \in DOMAIN toDaemon' /\ (i - 1) + 1 = i
    BY <2>1, <2>2
  <2>4. toDaemon'[i - 1] = toDaemon[i]
    BY <2>1, <2>3
  <2> QED BY <2>3, <2>4 DEF Asked
<1> QED BY <1>1, <1>2, Stays DEF SameOffer, IInv

LEMMA InstallOffers == ASSUME IInv, Offered, Install PROVE Offered'
<1>1. CASE SelfUpdated \/ Flashed \/ FlashFails
  BY <1>1 DEF SelfUpdated, Flashed, FlashFails, Disconnect, Offered
<1>2. CASE SelfUpdateFails \/ Downloaded
  <2>1. work'.kind # "idle"
    BY <1>2 DEF SelfUpdateFails, Downloaded, IInv, TypeOK, Works
  <2> QED BY <2>1 DEF Offered, Asking
<1>3. CASE DownloadFails
  <2>1. OtaError \in FromDaemon /\ Status(OtaError) /\ ~Named(OtaError)
    BY MessageType, Nothing DEF Status, Named, OtaError
  <2> QED BY <1>3, <2>1, OneSays, Spoken DEF IInv, DownloadFails
<1> QED BY <1>1, <1>2, <1>3 DEF Install

LEMMA FaultOffers == ASSUME IInv, Offered, Faults PROVE Offered'
<1>1. CASE DaemonCrash \/ LinkLost
  BY <1>1 DEF DaemonCrash, LinkLost, Disconnect, Offered
<1>2. CASE BoardResets
  BY <1>2, StartedOver DEF BoardResets
<1> QED BY <1>1, <1>2 DEF Faults

LEMMA BoardReceivesOffers == ASSUME IInv, Offered, BoardReceives PROVE Offered'
<1> DEFINE m == Head(toBoard)
           pref == Pref(Proto[board.fw])
<1>1. /\ Alive /\ toBoard # <<>> /\ board' = Receive(board, m) /\ toBoard' = Tail(toBoard)
      /\ SendToDaemon(ReplyTo(m, Proto[board.fw])) /\ UNCHANGED <<link, br, work>>
  BY DEF BoardReceives, BoardStep, daemon
<1>2. toBoard \in Seq(FromDaemon) /\ m \in FromDaemon /\ board \in Boards
  BY <1>1, SuffixTail DEF IInv, TypeOK
<1>3. Asked => Asked'
  <2>1. pref \in FromBoard
    BY <1>1, SaysType DEF IInv
  <2>2. ReplyTo(m, Proto[board.fw]) \in {<<pref>>, <<>>}
    BY DEF ReplyTo
  <2> HIDE DEF m, pref
  <2>3. toDaemon' \in {toDaemon, toDaemon \o <<pref>>}
    BY <1>1, <2>2, Sends, SendsNothing DEF IInv
  <2> QED BY <2>1, <2>3, StaysAsked DEF IInv
<1>4. /\ board'.staged /\ Status(m) => Named(m) /\ board'.ver = m.ver
      /\ ~Status(m) => board'.staged = board.staged /\ board'.ver = board.ver
      /\ board.check => board'.check
      /\ m.t = "welcome" => board'.check
  BY <1>1, <1>2, ReceiveSays
<1> HIDE DEF m, pref
<1>5. Silent(toBoard) => Silent(toBoard') /\ ~Status(m)
  BY <1>1, <1>2, TailSays DEF m
<1> SUFFICES ASSUME link = "open", Honest \/ Asking PROVE Honest' \/ Asking'
  BY <1>1 DEF Offered
<1>6. CASE Honest
  <2>1. StoodBy(toBoard', br')
    BY <1>1, <1>2, <1>6, TailSays DEF Honest
  <2>2. ASSUME Silent(toBoard'), board'.staged PROVE Agrees(br', board'.ver)
    <3>1. CASE Status(m)
      BY <1>1, <1>2, <1>4, <1>6, <2>2, <3>1, TailSays DEF Honest, m
    <3>2. CASE ~Status(m)
      BY <1>1, <1>2, <1>4, <1>6, <2>2, <3>2, TailSays DEF Honest, m
    <3> QED BY <3>1, <3>2
  <2> QED BY <2>1, <2>2 DEF Honest
<1>7. CASE Greets(toBoard)
  <2>1. Greets(toBoard') \/ (m.t = "welcome" /\ Silent(toBoard'))
    BY <1>1, <1>2, <1>7, TailSays DEF m
  <2> QED BY <1>4, <2>1 DEF Asking
<1>8. CASE Silent(toBoard) /\ board.check
  BY <1>4, <1>5, <1>8 DEF Asking
<1>9. CASE Asked \/ work.kind # "idle"
  BY <1>1, <1>3, <1>9 DEF Asking
<1> QED BY <1>6, <1>7, <1>8, <1>9 DEF Asking

\* The board asks, or has no offer to show.
LEMMA ServeRequestsOffers == ASSUME IInv, Offered, ServeRequests PROVE Offered'
<1> DEFINE p == Proto[board.fw]
<1>1. /\ Alive /\ (board.tap # 0 \/ board.check) /\ board' = Requests(board)
      /\ SendToDaemon(Asks(board, p)) /\ UNCHANGED <<toBoard, link, br, work>>
  BY DEF ServeRequests, BoardStep, daemon
<1>2. board \in Boards /\ board.tap \in Nat
  BY DEF IInv, TypeOK, Boards
<1> SUFFICES ASSUME link = "open" PROVE Honest' \/ Asking'
  BY <1>1 DEF Offered
<1>3. ASSUME NEW m \in FromBoard, Asks(board, p) = <<m>>, m.t \in {"ota_query", "ota_flash"}
      PROVE  Asking'
  <2>1. <<m>> # <<>> /\ <<m>>[1] = m
    OBVIOUS
  <2>2. Heard(m)
    BY <1>3 DEF Heard
  <2>3. toDaemon' = toDaemon \o <<m>>
    BY <1>1, <1>3, <2>1, <2>2 DEF SendToDaemon
  <2>4. /\ DOMAIN toDaemon' = 1 .. Len(toDaemon) + 1 /\ toDaemon'[Len(toDaemon) + 1] = m
        /\ Len(toDaemon) \in Nat
    BY <2>3, OneMore, LenProperties DEF IInv, TypeOK
  <2>5. Len(toDaemon) + 1 \in DOMAIN toDaemon'
    BY <2>4
  <2> QED BY <1>3, <2>4, <2>5 DEF Asking, Asked
<1>4. CASE board.tap # 0 /\ board.staged
  <2> DEFINE m == OtaFlash(board.tap, p)
  <2>1. Asks(board, p) = <<m>>
    BY <1>4 DEF Asks
  <2>2. m \in FromBoard /\ m.t = "ota_flash"
    BY <1>1, <1>2, <1>4, SaysType DEF IInv
  <2> QED BY <1>3, <2>1, <2>2
<1>5. CASE board.tap # 0 /\ ~board.staged
  <2>1. ~board'.staged /\ toDaemon' = toDaemon
    BY <1>1, <1>2, <1>5, RequestsSay, SendsNothing DEF Asks
  <2>2. Silent(toBoard) => Honest'
    BY <1>1, <2>1 DEF Honest, StoodBy, LastAt, Silent
  <2>3. Honest => Honest'
    BY <1>1, <2>1 DEF Honest
  <2>4. Greets(toBoard) \/ Asked \/ work.kind # "idle" => Asking'
    BY <1>1, <2>1 DEF Asking, Asked
  <2> QED BY <2>2, <2>3, <2>4 DEF Offered, Asking
<1>6. CASE board.tap = 0
  <2> DEFINE m == OtaQuery(board.fw, p)
  <2>1. Asks(board, p) = <<m>>
    BY <1>1, <1>6 DEF Asks
  <2>2. m \in FromBoard /\ m.t = "ota_query"
    <3>1. m \in FromBoard
      BY <1>1, SaysType DEF IInv
    <3> QED BY <3>1 DEF OtaQuery
  <2> QED BY <1>3, <2>1, <2>2
<1> QED BY <1>4, <1>5, <1>6

\* The rest of the board, its user and the feed leave the offer alone.
LEMMA OthersOffer ==
  ASSUME IInv, Offered, CheckTimeout \/ Ticks \/ Ping \/ User \/ Publish
  PROVE  Offered'
<1>1. board \in Boards
  BY DEF IInv, TypeOK
<1>2. UNCHANGED <<toBoard, link, br, work>>
  BY DEF CheckTimeout, Ticks, Ping, User, Approve, UserElse, Publish, BoardStep, daemon
<1>3. SameOffer(board, board')
  <2>1. CASE CheckTimeout
    BY <1>1, <2>1, ButtonSays DEF CheckTimeout
  <2>2. CASE Ticks
    BY <1>1, <2>2, TickSays DEF Ticks
  <2>3. CASE Ping \/ Publish
    BY <2>3 DEF Ping, Publish, SameOffer
  <2>4. CASE Approve
    <3>1. board' \in {TapNow(board, taps'), ConfirmYes(board, taps')}
      BY <2>4 DEF Approve
    <3> QED BY <1>1, <3>1, ButtonSays
  <2>5. CASE UserElse
    <3>1. board' \in {TapLater(board), OpenConfirm(board), ConfirmNo(board), TapCheck(board)}
      BY <2>5 DEF UserElse
    <3> QED BY <1>1, <3>1, ButtonSays
  <2> QED BY <2>1, <2>2, <2>3, <2>4, <2>5 DEF User
<1>4. Asked => Asked'
  <2>1. CASE Ping
    <3>1. Alive /\ SendToDaemon(<<Pref(Proto[board.fw])>>)
      BY <2>1 DEF Ping
    <3>2. Pref(Proto[board.fw]) \in FromBoard
      BY <3>1, SaysType DEF IInv
    <3> QED BY <3>1, <3>2, Sends, StaysAsked DEF IInv
  <2>2. CASE CheckTimeout \/ Ticks \/ User \/ Publish
    <3>1. toDaemon' = toDaemon
      BY <2>2 DEF CheckTimeout, Ticks, User, Approve, UserElse, Publish
    <3> QED BY <3>1 DEF Asked
  <2> QED BY <2>1, <2>2
<1> QED BY <1>1, <1>2, <1>3, <1>4, Stays DEF IInv

LEMMA OfferedKept == IInv /\ Offered /\ [Next]_vars => Offered'
<1> SUFFICES ASSUME IInv, Offered, [Next]_vars PROVE Offered'
  OBVIOUS
<1>1. CASE Next
  <2>1. CASE Handlers
    BY <2>1, LearnOffers, HandleHelloOffers, QueryOffers, HandleFlashOffers, HandlePrefOffers
       DEF Handlers
  <2>2. CASE TheBoard
    BY <2>2, BoardReceivesOffers, ServeRequestsOffers, OthersOffer DEF TheBoard
  <2> QED BY <1>1, <2>1, <2>2, ConnectionOffers, InstallOffers, FaultOffers, OthersOffer DEF Next
<1>2. CASE UNCHANGED vars
  <2>1. UNCHANGED <<board, link, br, work, toBoard, toDaemon>>
    BY <1>2 DEF vars, daemon
  <2>2. SameOffer(board, board') /\ (Asked => Asked')
    BY <2>1 DEF SameOffer, Asked
  <2> QED BY <2>1, <2>2, Stays DEF IInv
<1> QED BY <1>1, <1>2

\* NoDeadOffer: once the line is quiet, what the panel offers is what the
\* daemon holds, or is about to offer again: an offer is never left on the
\* glass that the daemon would answer with an error (bridge.py _on_ota_query,
\* _ota_reset, retry_offer_if_failed; proto.c dispatch, main.c).
THEOREM NoOfferIsDead == Spec => []NoDeadOffer
<1>1. Init => IInv /\ Offered
  BY InitIInv DEF Init, Offered
<1>2. IInv /\ Offered /\ [Next]_vars => IInv' /\ Offered'
  BY Invariance, OfferedKept
<1>3. IInv /\ Offered => NoDeadOffer
  <2> SUFFICES ASSUME IInv, Offered, Quiet, board.staged PROVE Agrees(br, board.ver)
    BY DEF NoDeadOffer, Agrees
  <2>1. /\ link = "open" /\ work.kind = "idle" /\ toBoard = <<>> /\ toDaemon = <<>> /\ ~board.check
    BY IdleType DEF Quiet, Ready, Settled
  <2>2. DOMAIN toBoard = {} /\ DOMAIN toDaemon = {}
    BY <2>1
  <2>3. ~Asking /\ Silent(toBoard)
    BY <2>1, <2>2 DEF Asking, Greets, Asked, Silent
  <2> QED BY <2>1, <2>3 DEF Offered, Honest
<1> QED BY <1>1, <1>2, <1>3, PTL DEF Spec
=============================================================================
