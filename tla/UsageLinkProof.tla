--------------------------- MODULE UsageLinkProof ---------------------------
(***************************************************************************)
(* What holds of the usage link for any readings, names, bounds of time    *)
(* and number of faults: types, that no age is too young, that green by a  *)
(* message is over a host, that dozing and waking do not chase each other, *)
(* that a bye is not taken for a sleeping computer; and, of a link that    *)
(* has been left alone, that what was lost has been said again, that news  *)
(* does not wait for it, and that a desk at work has its face open.        *)
(***************************************************************************)
EXTENDS UsageLink, SequenceTheorems, TLAPS

\* The age by which the board will take the desk to have spoken.
ActiveOf(m) == IF m.active >= 0 THEN m.active ELSE m.age

\* A line that does not make the desk d younger than it is.
Honest(d) ==
  {m \in MsgsDown : m.t = "usage" =>
     /\ m.age >= 0 /\ d.age >= 0 => m.age >= d.age
     /\ ActiveOf(m) >= 0 /\ d.active >= 0 => ActiveOf(m) >= d.active}

LinesHonest == toBoard \in Seq(Honest(desk))
BoardHonest == "torn" \notin missing =>
  /\ board.age >= 0 /\ desk.age >= 0 => board.age >= desk.age
  /\ board.active >= 0 /\ desk.active >= 0 => board.active >= desk.active
LostIsSilent == board.lost => ~board.seen
ByeIsKept == farewell => ~board.lost /\ (board.seen => board.bye)

IInv == TypeOK /\ LinesHonest /\ BoardHonest /\ OkMeansHeard /\ LostIsSilent /\ ByeIsKept

-----------------------------------------------------------------------------
(* The board's operators.                                                  *)

\* A reading stays in the range of ages.
LEMMA GrowType ==
  ASSUME NEW a \in Ages
  PROVE  /\ Grow(a) \in Ages
         /\ \A c \in Ages : c >= 0 => Grow(c) >= 0
         /\ \A c \in Ages : (Grow(a) >= 0 /\ Grow(c) >= 0 /\ (a >= 0 /\ c >= 0 => a >= c)) => Grow(a) >= Grow(c)
BY PanelAssumption DEF Grow, Ages

LEMMA MsgTypes ==
  ASSUME NEW m \in MsgsDown
  PROVE  /\ m.t = "usage" => /\ m.val \in Readings /\ m.stale \in BOOLEAN /\ m.act \in Acts
                             /\ m.age \in Ages /\ m.active \in Ages
         /\ m.t = "session" => m.label \in Names \cup {Nothing}
BY DEF MsgsDown

LEMMA HeardType ==
  ASSUME NEW b \in Boards, NEW m \in MsgsDown
  PROVE  Heard(b, m) \in Boards
<1> DEFINE byes == m.t = "bye"
<1>1. byes \in BOOLEAN
  OBVIOUS
<1>2. 0 \in 0 .. HostTimeout + 1 /\ 0 \in 0 .. AppWait + 1
  BY PanelAssumption
<1> HIDE DEF byes
<1>3. [b EXCEPT !.seen = TRUE, !.heard = 0, !.lost = FALSE, !.bye = byes, !.quiet = 0] \in Boards
  BY <1>1, <1>2 DEF Boards
<1> QED BY <1>3 DEF Heard, byes

LEMMA DispatchType ==
  ASSUME NEW b \in Boards, NEW m \in MsgsDown
  PROVE  Dispatch(b, m) \in Boards
<1>1. CASE m.t = "usage"
  <2> DEFINE h == Heard(b, m)
  <2>1. h \in Boards
    BY HeardType
  <2>2. Show(h, m) \in Boards
    <3> DEFINE st == IF m.stale \/ m.val \in OldSecond THEN "stale" ELSE "ok"
               ac == IF m.active >= 0 THEN m.active ELSE m.age
    <3>1. st \in Statuses /\ ac \in Ages
      BY <1>1, MsgTypes DEF Statuses
    <3>2. /\ m.val \in Readings /\ m.stale \in BOOLEAN /\ m.act \in Acts /\ m.age \in Ages
      BY <1>1, MsgTypes
    <3> HIDE DEF h, st, ac
    <3>3. [h EXCEPT !.have = TRUE, !.val = m.val, !.old = m.stale, !.act = m.act,
                    !.age = m.age, !.active = ac, !.status = st] \in Boards
      BY <2>1, <3>1, <3>2 DEF Boards
    <3> QED BY <3>3 DEF Show, st, ac
  <2> QED BY <1>1, <2>2 DEF Dispatch
<1>2. CASE m.t = "session"
  <2> DEFINE h == Heard(b, m)
  <2>1. h \in Boards
    BY HeardType
  <2>2. [h EXCEPT !.label = m.label] \in Boards
    <3> HIDE DEF h
    <3> QED BY <1>2, <2>1, MsgTypes DEF Boards
  <2> QED BY <1>2, <2>2 DEF Dispatch
<1>3. CASE m.t \notin {"usage", "session"}
  <2> DEFINE h == Heard(b, m)
  <2>1. h \in Boards
    BY HeardType
  <2>2. [h EXCEPT !.status = "error"] \in Boards
    <3> HIDE DEF h
    <3> QED BY <2>1 DEF Boards, Statuses
  <2> QED BY <1>3, <2>1, <2>2 DEF Dispatch
<1> QED BY <1>1, <1>2, <1>3

LEMMA OtherTypes ==
  ASSUME NEW b \in Boards
  PROVE  /\ TimedOut(b) \in Boards /\ Wake(b) \in Boards /\ Elapsed(b) \in Boards
         /\ [b EXCEPT !.due = FALSE] \in Boards
         /\ \A kind \in Dozes : Asleep(b, kind) \in Boards
         /\ \A x \in BOOLEAN : /\ [b EXCEPT !.peek = x] \in Boards
                               /\ [b EXCEPT !.settings = x] \in Boards
                               /\ [b EXCEPT !.busy = x] \in Boards
<1>1. TimedOut(b) \in Boards
  <2> DEFINE hush == ~b.bye
  <2>1. hush \in BOOLEAN /\ "disconnected" \in Statuses /\ 0 \in 0 .. HostTimeout + 1
    BY PanelAssumption DEF Statuses
  <2> HIDE DEF hush
  <2>2. [b EXCEPT !.status = "disconnected", !.seen = FALSE, !.heard = 0, !.lost = hush,
                  !.bye = FALSE] \in Boards
    BY <2>1 DEF Boards
  <2> QED BY <2>2 DEF TimedOut, hush
<1>2. Wake(b) \in Boards
  <2> DEFINE st == IF b.have /\ b.age >= StaleAfter THEN "stale" ELSE b.status
  <2>1. st \in Statuses /\ "no" \in Dozes /\ 0 \in 0 .. AppWait + 1
    BY PanelAssumption DEF Statuses, Boards, Dozes
  <2> HIDE DEF st
  <2>2. [b EXCEPT !.doze = "no", !.peek = FALSE, !.quiet = 0, !.status = st] \in Boards
    BY <2>1 DEF Boards
  <2> QED BY <2>2 DEF Wake, st
<1>3. Elapsed(b) \in Boards
  <2> DEFINE he == IF b.seen /\ b.heard <= HostTimeout THEN b.heard + 1 ELSE b.heard
             qu == IF ~b.have /\ ~b.seen /\ b.doze = "no" /\ b.quiet <= AppWait
                   THEN b.quiet + 1 ELSE b.quiet
             ga == Grow(b.age)
             gc == Grow(b.active)
  <2>1. ga \in Ages /\ gc \in Ages
    BY GrowType DEF Boards
  <2>2. he \in 0 .. HostTimeout + 1
    BY PanelAssumption DEF Boards
  <2>3. qu \in 0 .. AppWait + 1
    BY PanelAssumption DEF Boards
  <2> HIDE DEF he, qu, ga, gc
  <2>4. [b EXCEPT !.due = TRUE, !.peek = FALSE, !.heard = he, !.age = ga, !.active = gc,
                  !.quiet = qu] \in Boards
    BY <2>1, <2>2, <2>3 DEF Boards
  <2> QED BY <2>4 DEF Elapsed, he, qu, ga, gc
<1>4. [b EXCEPT !.due = FALSE] \in Boards
  BY DEF Boards
<1>5. \A kind \in Dozes : Asleep(b, kind) \in Boards
  BY DEF Asleep, Boards
<1>6. \A x \in BOOLEAN : [b EXCEPT !.peek = x] \in Boards
  BY DEF Boards
<1>7. \A x \in BOOLEAN : [b EXCEPT !.settings = x] \in Boards
  BY DEF Boards
<1>8. \A x \in BOOLEAN : [b EXCEPT !.busy = x] \in Boards
  BY DEF Boards
<1> QED BY <1>1, <1>2, <1>3, <1>4, <1>5, <1>6, <1>7, <1>8

LEMMA PowerOnType == PowerOn \in Boards
BY PanelAssumption DEF PowerOn, Boards, Ages, Acts, Statuses, Dozes, Unknown

-----------------------------------------------------------------------------
(* The daemon's operators: whatever they write is honest.                  *)

Sends(s) == [d : Bridges, out : Seq(Honest(s))]

LEMMA PlainHonest ==
  ASSUME NEW s \in Desks, NEW t \in {"time", "pong", "welcome", "status", "bye"}
  PROVE  Plain(t) \in Honest(s)
BY DEF Plain, Honest, MsgsDown

LEMMA NamedHonest ==
  ASSUME NEW s \in Desks
  PROVE  SessionMsg(s.name) \in Honest(s)
BY DEF SessionMsg, Honest, MsgsDown, Desks

LEMMA ReadingHonest ==
  ASSUME NEW s \in Desks, s.val \in Readings
  PROVE  Reading(s) \in Honest(s)
<1> DEFINE old == Stale(s)
<1>1. old \in BOOLEAN
  BY DEF Stale
<1>2. s.act \in Acts /\ s.age \in Ages /\ s.active \in Ages
  BY DEF Desks
<1> DEFINE m == [t |-> "usage", val |-> s.val, stale |-> old, act |-> s.act, age |-> s.age, active |-> s.active]
<1> HIDE DEF old
<1>3. m \in MsgsDown
  BY <1>1, <1>2 DEF MsgsDown
<1>4. /\ m.age >= 0 /\ s.age >= 0 => m.age >= s.age
      /\ ActiveOf(m) >= 0 /\ s.active >= 0 => ActiveOf(m) >= s.active
  BY <1>2, PanelAssumption DEF ActiveOf, Ages
<1>5. m \in Honest(s)
  BY <1>3, <1>4 DEF Honest
<1> QED BY <1>5 DEF Reading, UsageMsg, old

\* Joining what two calls wrote.
LEMMA Joined ==
  ASSUME NEW s \in Desks, NEW a \in Seq(Honest(s)), NEW b \in Seq(Honest(s))
  PROVE  a \o b \in Seq(Honest(s))
OBVIOUS

LEMMA SessionSends ==
  ASSUME NEW d \in Bridges, NEW s \in Desks
  PROVE  Session(d, s) \in Sends(s)
<1> DEFINE e == [d EXCEPT !.told = s.name]
           o == IF s.name # d.told THEN <<SessionMsg(s.name)>> ELSE <<>>
<1>1. e \in Bridges
  BY DEF Bridges, Desks
<1>2. o \in Seq(Honest(s))
  BY NamedHonest
<1> QED BY <1>1, <1>2 DEF Session, Result, Sends

LEMMA UsageSends ==
  ASSUME NEW d \in Bridges, NEW s \in Desks, s.val \in Readings
  PROVE  SendUsage(d, s) \in Sends(s)
<1> DEFINE e == [d EXCEPT !.pushed = Meaning(s)]
           o == IF s.val \in TooLong THEN <<>> ELSE <<Reading(s)>>
           n == Session(e, s)
<1>1. Meaning(s) \in Pushable
  <2>1. Stale(s) \in BOOLEAN /\ s.act \in Acts
    BY DEF Stale, Desks
  <2> QED BY <2>1 DEF Meaning, Pushable
<1>2. e \in Bridges
  BY <1>1 DEF Bridges
<1>3. n \in Sends(s)
  BY <1>2, SessionSends
<1>4. o \in Seq(Honest(s))
  BY ReadingHonest
<1> HIDE DEF e, o, n
<1>5. o \o n.out \in Seq(Honest(s)) /\ n.d \in Bridges
  BY <1>3, <1>4, Joined DEF Sends
<1>6. [d |-> n.d, out |-> o \o n.out] \in Sends(s)
  BY <1>5 DEF Sends
<1> QED BY <1>6 DEF SendUsage, Result, n, o, e

\* One line in front of what a call wrote.
LEMMA Fronted ==
  ASSUME NEW s \in Desks, NEW r \in Sends(s), NEW m \in Honest(s)
  PROVE  Result(r.d, <<m>> \o r.out) \in Sends(s)
<1>1. r.d \in Bridges /\ <<m>> \o r.out \in Seq(Honest(s))
  BY Joined DEF Sends
<1> QED BY <1>1 DEF Result, Sends

LEMMA NothingSent ==
  ASSUME NEW s \in Desks, NEW d \in Bridges
  PROVE  Result(d, <<>>) \in Sends(s)
BY DEF Result, Sends

LEMMA PollSends ==
  ASSUME NEW d \in Bridges, NEW s \in Desks
  PROVE  PollOnce(d, s) \in Sends(s)
<1> DEFINE usage == IF s.val = Broken THEN Result(d, <<Plain("status")>>)
                    ELSE IF s.val = Nothing THEN Result(d, <<>>)
                    ELSE SendUsage(d, s)
<1>1. usage \in Sends(s)
  <2>1. Result(d, <<Plain("status")>>) \in Sends(s)
    <3>1. <<Plain("status")>> \in Seq(Honest(s))
      BY PlainHonest
    <3> QED BY <3>1 DEF Result, Sends
  <2>2. Result(d, <<>>) \in Sends(s)
    BY NothingSent
  <2>3. s.val \notin {Broken, Nothing} => s.val \in Readings
    BY DEF Desks
  <2> QED BY <2>1, <2>2, <2>3, UsageSends
<1>2. Plain("time") \in Honest(s)
  BY PlainHonest
<1> HIDE DEF usage
<1>3. Result(usage.d, <<Plain("time")>> \o usage.out) \in Sends(s)
  BY <1>1, <1>2, Fronted
<1> QED BY <1>3 DEF PollOnce, usage

LEMMA ChangeSends ==
  ASSUME NEW d \in Bridges, NEW s \in Desks
  PROVE  PollIfChanged(d, s) \in Sends(s)
<1>1. s.val \notin {Nothing, Broken} => s.val \in Readings
  BY DEF Desks
<1> QED BY <1>1, NothingSent, UsageSends, SessionSends DEF PollIfChanged

LEMMA GreetSends ==
  ASSUME NEW d \in Bridges, NEW s \in Desks
  PROVE  Greet(d, s) \in Sends(s)
<1> DEFINE e == [d EXCEPT !.told = Nothing]
           polled == PollOnce(e, s)
<1>1. e \in Bridges
  BY DEF Bridges
<1>2. polled \in Sends(s)
  BY <1>1, PollSends
<1>3. Plain("welcome") \in Honest(s)
  BY PlainHonest
<1> HIDE DEF polled
<1>4. Result(polled.d, <<Plain("welcome")>> \o polled.out) \in Sends(s)
  BY <1>2, <1>3, Fronted
<1> QED BY <1>4 DEF Greet, polled

LEMMA MessageSends ==
  ASSUME NEW d \in Bridges, NEW s \in Desks, NEW t \in {"ping", "hello"}
  PROVE  OnMessage(d, s, t) \in Sends(s)
<1>1. OnPing(d) \in Sends(s)
  <2>1. [d EXCEPT !.ping = 0] \in Bridges
    BY PushAssumption DEF Bridges
  <2>2. <<Plain("pong")>> \in Seq(Honest(s))
    BY PlainHonest
  <2> QED BY <2>1, <2>2 DEF OnPing, Result, Sends
<1> QED BY <1>1, GreetSends DEF OnMessage

LEMMA TurnSends ==
  ASSUME NEW d \in Bridges, NEW s \in Desks
  PROVE  Turn(d, s) \in Sends(s)
<1>1. \A e \in Bridges : Heartbeat(e, s) \in Sends(s)
  <2> TAKE e \in Bridges
  <2> DEFINE polled == IF Alive(e) THEN PollOnce(e, s) ELSE Result(e, <<>>)
  <2>1. polled \in Sends(s)
    BY PollSends, NothingSent
  <2> HIDE DEF polled
  <2>2. polled.d \in Bridges /\ polled.out \in Seq(Honest(s))
    BY <2>1 DEF Sends
  <2>3. [polled.d EXCEPT !.poll = PollEvery] \in Bridges
    <3>1. PollEvery \in 0 .. PollEvery
      BY PushAssumption
    <3> QED BY <2>2, <3>1 DEF Bridges
  <2>4. Result([polled.d EXCEPT !.poll = PollEvery], polled.out) \in Sends(s)
    <3> DEFINE next == [polled.d EXCEPT !.poll = PollEvery]
    <3>1. next \in Bridges
      BY <2>3
    <3> HIDE DEF next
    <3>2. Result(next, polled.out) \in Sends(s)
      BY <2>2, <3>1 DEF Result, Sends
    <3> QED BY <3>2 DEF next
  <2>5. Heartbeat(e, s) = Result([polled.d EXCEPT !.poll = PollEvery], polled.out)
    BY DEF Heartbeat, polled
  <2> QED BY <2>4, <2>5
<1>2. \A e \in Bridges : FastTick(e, s) \in Sends(s)
  <2> TAKE e \in Bridges
  <2> DEFINE polled == IF Alive(e) THEN PollIfChanged(e, s) ELSE Result(e, <<>>)
  <2>1. polled \in Sends(s)
    BY ChangeSends, NothingSent
  <2> HIDE DEF polled
  <2>2. polled.d \in Bridges /\ polled.out \in Seq(Honest(s))
    BY <2>1 DEF Sends
  <2>3. [polled.d EXCEPT !.fast = FALSE] \in Bridges
    BY <2>2 DEF Bridges
  <2>4. Result([polled.d EXCEPT !.fast = FALSE], polled.out) \in Sends(s)
    BY <2>2, <2>3 DEF Result, Sends
  <2> QED BY <2>4 DEF FastTick, polled
<1> DEFINE beat == IF d.poll = 0 THEN Heartbeat(d, s) ELSE Result(d, <<>>)
           tick == FastTick(beat.d, s)
<1>3. beat \in Sends(s)
  BY <1>1, NothingSent
<1> HIDE DEF beat
<1>4. beat.d \in Bridges /\ beat.out \in Seq(Honest(s))
  BY <1>3 DEF Sends
<1>5. tick \in Sends(s)
  BY <1>2, <1>4
<1> HIDE DEF tick
<1>6. tick.d \in Bridges /\ beat.out \o tick.out \in Seq(Honest(s))
  BY <1>4, <1>5, Joined DEF Sends
<1>7. Result(tick.d, beat.out \o tick.out) \in Sends(s)
  BY <1>6 DEF Result, Sends
<1> QED BY <1>7 DEF Turn, tick, beat

LEMMA BridgeTypes ==
  /\ NewBridge \in Bridges
  /\ \A d \in Bridges : Later(d) \in Bridges
<1>1. NewBridge \in Bridges
  BY PushAssumption DEF NewBridge, Bridges, Pushable
<1>2. ASSUME NEW d \in Bridges PROVE Later(d) \in Bridges
  <2> DEFINE pi == IF d.ping <= Liveness THEN d.ping + 1 ELSE d.ping
             po == IF d.poll > 0 THEN d.poll - 1 ELSE 0
  <2>1. pi \in 0 .. Liveness + 1 /\ po \in 0 .. PollEvery
    BY PushAssumption DEF Bridges
  <2> HIDE DEF pi, po
  <2>2. [d EXCEPT !.ping = pi, !.poll = po, !.fast = TRUE] \in Bridges
    BY <2>1 DEF Bridges
  <2> QED BY <2>2 DEF Later, pi, po
<1> QED BY <1>1, <1>2

-----------------------------------------------------------------------------
(* Steps.                                                                  *)

\* Sequences over a set are sequences over a larger one.
LEMMA SeqLarger ==
  ASSUME NEW S, NEW T, S \subseteq T, NEW q \in Seq(S)
  PROVE  q \in Seq(T)
OBVIOUS

LEMMA HonestLines == \A d : Honest(d) \subseteq MsgsDown
BY DEF Honest

LEMMA PowerOnSafe ==
  /\ PowerOn.status = "disconnected" /\ PowerOn.lost = FALSE
  /\ PowerOn.age = -1 /\ PowerOn.active = -1
BY DEF PowerOn, Unknown

LEMMA InitInv == Init => IInv
<1> SUFFICES ASSUME Init PROVE IInv
  OBVIOUS
<1>1. desk \in Desks
  <2>1. FirstVals \subseteq Readings \cup {Nothing, Broken} /\ FirstNames \subseteq Names
    BY LinkAssumption
  <2>2. {"idle"} \subseteq Acts \ {"none"}
    BY DEF Acts
  <2>3. FirstAges \subseteq Ages /\ {0} \subseteq Ages
    BY LinkAssumption, PanelAssumption DEF Ages
  <2>4. desk \in [val : FirstVals, name : FirstNames, act : {"idle"}, age : FirstAges, active : {0}]
    BY DEF Init
  <2> QED BY <2>1, <2>2, <2>3, <2>4 DEF Desks
<1>2. TypeOK
  <2>1. board \in Boards /\ bridge \in Bridges /\ daemon \in {"down", "up", "asleep"}
    BY PowerOnType, BridgeTypes DEF Init
  <2>2. toBoard \in Seq(MsgsDown) /\ toDaemon \in Seq({"ping", "hello"})
    BY DEF Init
  <2>3. still \in 0 .. Settling /\ calm \in 0 .. Settling /\ spent \in 0 .. Budget
    BY LinkAssumption, PushAssumption DEF Init, Settling
  <2>4. missing \subseteq Repeated \cup {"torn"} /\ farewell \in BOOLEAN
    BY DEF Init
  <2> QED BY <1>1, <2>1, <2>2, <2>3, <2>4 DEF TypeOK
<1>3. board = PowerOn /\ toBoard = <<>> /\ farewell = FALSE
  BY DEF Init
<1>4. LinesHonest
  BY <1>3 DEF LinesHonest
<1>5. BoardHonest /\ OkMeansHeard /\ LostIsSilent
  BY <1>3, PowerOnSafe DEF BoardHonest, OkMeansHeard, LostIsSilent
<1>6. ByeIsKept
  BY <1>3 DEF ByeIsKept
<1> QED BY <1>2, <1>4, <1>5, <1>6 DEF IInv

\* News makes the desk younger, and so no line or board too young.
LEMMA NewsStep ==
  ASSUME IInv, NEW d \in Desks, DeskHasNews(d), d.age \in {0, desk.age}, d.active = 0
  PROVE  IInv'
<1> USE DEF IInv
<1>1. desk \in Desks /\ desk.age \in Ages /\ desk.active \in Ages
  BY DEF TypeOK, Desks
<1>2. Honest(desk) \subseteq Honest(d)
  <2> SUFFICES ASSUME NEW m \in Honest(desk), m.t = "usage"
               PROVE  /\ m.age >= 0 /\ d.age >= 0 => m.age >= d.age
                      /\ ActiveOf(m) >= 0 /\ d.active >= 0 => ActiveOf(m) >= d.active
    BY DEF Honest
  <2> QED BY DEF Honest
<1>3. LinesHonest'
  BY <1>2, SeqLarger DEF LinesHonest, DeskHasNews, link
<1>4. TypeOK'
  BY PushAssumption DEF TypeOK, DeskHasNews, Happens, Costs, link, Settling
<1>5. BoardHonest'
  BY <1>1 DEF BoardHonest, DeskHasNews
<1>6. (OkMeansHeard /\ LostIsSilent /\ ByeIsKept)'
  BY DEF OkMeansHeard, LostIsSilent, ByeIsKept, DeskHasNews
<1> QED BY <1>3, <1>4, <1>5, <1>6

LEMMA DeskStep == IInv /\ (NewReading \/ Activity \/ NewName) => IInv'
<1> SUFFICES ASSUME IInv, NewReading \/ Activity \/ NewName PROVE IInv'
  OBVIOUS
<1>1. desk \in Desks /\ 0 \in Ages
  BY PanelAssumption DEF IInv, TypeOK, Ages
<1>2. CASE NewReading
  <2>1. PICK v \in (Readings \cup {Nothing, Broken}) \ {desk.val} :
          DeskHasNews([desk EXCEPT !.val = v, !.age = 0, !.active = 0])
    BY <1>2 DEF NewReading
  <2> DEFINE d == [desk EXCEPT !.val = v, !.age = 0, !.active = 0]
  <2>2. d \in Desks /\ d.age = 0 /\ d.active = 0
    BY <1>1 DEF Desks
  <2> HIDE DEF d
  <2> QED BY <2>1, <2>2, NewsStep DEF d
<1>3. CASE Activity
  <2>1. PICK a \in {"idle", "running"} : DeskHasNews([desk EXCEPT !.act = a, !.active = 0])
    BY <1>3 DEF Activity
  <2> DEFINE d == [desk EXCEPT !.act = a, !.active = 0]
  <2>2. d \in Desks /\ d.age = desk.age /\ d.active = 0
    BY <1>1 DEF Desks, Acts
  <2> HIDE DEF d
  <2> QED BY <2>1, <2>2, NewsStep DEF d
<1>4. CASE NewName
  <2>1. PICK n \in Names \ {desk.name} : DeskHasNews([desk EXCEPT !.name = n, !.active = 0])
    BY <1>4 DEF NewName
  <2> DEFINE d == [desk EXCEPT !.name = n, !.active = 0]
  <2>2. d \in Desks /\ d.age = desk.age /\ d.active = 0
    BY <1>1 DEF Desks
  <2> HIDE DEF d
  <2> QED BY <2>1, <2>2, NewsStep DEF d
<1> QED BY <1>2, <1>3, <1>4

\* What the daemon writes is honest, and nothing else changes.
LEMMA DaemonStep == IInv /\ (DaemonReads \/ DaemonPolls) => IInv'
<1> SUFFICES ASSUME IInv, DaemonReads \/ DaemonPolls PROVE IInv'
  OBVIOUS
<1> USE DEF IInv
<1>1. desk \in Desks /\ bridge \in Bridges /\ toDaemon \in Seq({"ping", "hello"})
  BY DEF TypeOK
<1>2. PICK r \in Sends(desk) : Writes(r) /\ toDaemon' \in Seq({"ping", "hello"})
  <2>1. CASE DaemonReads
    <3>1. Head(toDaemon) \in {"ping", "hello"} /\ Tail(toDaemon) \in Seq({"ping", "hello"})
      BY <1>1, <2>1 DEF DaemonReads
    <3> QED BY <1>1, <2>1, <3>1, MessageSends DEF DaemonReads
  <2>2. CASE DaemonPolls
    BY <1>1, <2>2, TurnSends DEF DaemonPolls
  <2> QED BY <2>1, <2>2
<1>3. bridge' \in Bridges /\ toBoard' \in Seq(Honest(desk))
  BY <1>1, <1>2, Joined DEF Sends, Writes, LinesHonest
<1>4. UNCHANGED <<desk, board, daemon, history, spent>>
  BY DEF DaemonReads, DaemonPolls
<1>5. LinesHonest'
  BY <1>3, <1>4 DEF LinesHonest
<1>6. toBoard' \in Seq(MsgsDown)
  BY <1>3, HonestLines, SeqLarger
<1>7. TypeOK'
  BY <1>2, <1>3, <1>4, <1>6 DEF TypeOK, history
<1>8. (BoardHonest /\ OkMeansHeard /\ LostIsSilent /\ ByeIsKept)'
  BY <1>4 DEF BoardHonest, OkMeansHeard, LostIsSilent, ByeIsKept, history
<1> QED BY <1>5, <1>7, <1>8

\* What every line leaves on the board.
LEMMA DispatchHears ==
  ASSUME NEW b \in Boards, NEW m \in MsgsDown
  PROVE  LET n == Dispatch(b, m) IN
         /\ n.seen = TRUE /\ n.lost = FALSE /\ (n.bye <=> m.t = "bye")
         /\ m.t = "usage" => n.age = m.age /\ n.active = ActiveOf(m)
         /\ m.t # "usage" => n.age = b.age /\ n.active = b.active
<1> DEFINE h == Heard(b, m)
           n == Dispatch(b, m)
<1>1. /\ h \in Boards /\ h.seen = TRUE /\ h.lost = FALSE /\ (h.bye <=> m.t = "bye")
      /\ h.age = b.age /\ h.active = b.active
  <2> DEFINE byes == m.t = "bye"
  <2>1. h \in Boards
    BY HeardType
  <2>2. h = [b EXCEPT !.seen = TRUE, !.heard = 0, !.lost = FALSE, !.bye = byes, !.quiet = 0]
    BY DEF Heard
  <2> HIDE DEF h, byes
  <2>3. h.seen = TRUE /\ h.lost = FALSE /\ h.bye = byes /\ h.age = b.age /\ h.active = b.active
    BY <2>2 DEF Boards
  <2> QED BY <2>1, <2>3 DEF byes
<1>2. /\ n.seen = TRUE /\ n.lost = FALSE /\ (n.bye <=> m.t = "bye")
      /\ m.t = "usage" => n.age = m.age /\ n.active = ActiveOf(m)
      /\ m.t # "usage" => n.age = b.age /\ n.active = b.active
  <2> HIDE DEF h
  <2>1. CASE m.t = "usage"
    <3>1. n = Show(h, m)
      BY <2>1 DEF Dispatch, h
    <3> HIDE DEF n
    <3> QED BY <1>1, <2>1, <3>1 DEF Show, Boards, ActiveOf
  <2>2. CASE m.t = "session"
    <3>1. n = [h EXCEPT !.label = m.label]
      BY <2>2 DEF Dispatch, h
    <3> HIDE DEF n
    <3> QED BY <1>1, <2>2, <3>1 DEF Boards
  <2>3. CASE m.t = "status"
    <3>1. n = [h EXCEPT !.status = "error"]
      BY <2>3 DEF Dispatch, h
    <3> HIDE DEF n
    <3> QED BY <1>1, <2>3, <3>1 DEF Boards
  <2>4. CASE m.t \notin {"usage", "session", "status"}
    <3>1. n = h
      BY <2>4 DEF Dispatch, h
    <3> HIDE DEF n
    <3> QED BY <1>1, <2>4, <3>1
  <2> QED BY <2>1, <2>2, <2>3, <2>4
<1> QED BY <1>2

\* A line is heard: an honest one leaves the board no younger than the desk.
LEMMA ReadsStep == IInv /\ BoardReads => IInv'
<1> SUFFICES ASSUME IInv, BoardReads PROVE IInv'
  OBVIOUS
<1> USE DEF IInv
<1> DEFINE m == Head(toBoard)
<1>1. toBoard # <<>> /\ board' = Dispatch(board, m) /\ toBoard' = Tail(toBoard)
      /\ farewell' = (m.t = "bye") /\ missing' = missing \ Marks(m)
      /\ UNCHANGED <<desk, bridge, daemon, toDaemon, still, calm, spent>>
  BY DEF BoardReads
<1>2. m \in Honest(desk) /\ Tail(toBoard) \in Seq(Honest(desk))
  BY <1>1 DEF LinesHonest
<1>3. m \in MsgsDown /\ board \in Boards /\ desk \in Desks
  BY <1>2, HonestLines DEF TypeOK
<1>4. LinesHonest'
  BY <1>1, <1>2 DEF LinesHonest
<1>5. toBoard' \in Seq(MsgsDown)
  BY <1>1, <1>2, HonestLines, SeqLarger
<1>6. farewell' \in BOOLEAN
  <2> DEFINE byes == m.t = "bye"
  <2>1. byes \in BOOLEAN
    OBVIOUS
  <2> HIDE DEF byes
  <2>2. farewell' = byes
    BY <1>1 DEF byes
  <2> QED BY <2>1, <2>2
<1>7. board' \in Boards
  BY <1>1, <1>3, DispatchType
<1>8. TypeOK'
  BY <1>1, <1>5, <1>6, <1>7 DEF TypeOK
<1>9. /\ board'.seen = TRUE /\ board'.lost = FALSE /\ (board'.bye <=> m.t = "bye")
      /\ m.t = "usage" => board'.age = m.age /\ board'.active = ActiveOf(m)
      /\ m.t # "usage" => board'.age = board.age /\ board'.active = board.active
  BY <1>1, <1>3, DispatchHears
<1>10. BoardHonest'
  <2>1. m.t = "usage" => /\ m.age >= 0 /\ desk.age >= 0 => m.age >= desk.age
                         /\ ActiveOf(m) >= 0 /\ desk.active >= 0 => ActiveOf(m) >= desk.active
    BY <1>2 DEF Honest
  <2>2. m.t # "usage" => ("torn" \in missing' <=> "torn" \in missing)
    <3>1. m.t # "torn"
      BY <1>3 DEF MsgsDown
    <3> QED BY <1>1, <3>1 DEF Marks
  <2> QED BY <1>1, <1>9, <2>1, <2>2 DEF BoardHonest
<1>11. (OkMeansHeard /\ LostIsSilent)'
  BY <1>9 DEF OkMeansHeard, LostIsSilent
<1>12. ByeIsKept'
  BY <1>1, <1>9 DEF ByeIsKept
<1> QED BY <1>4, <1>8, <1>10, <1>11, <1>12

\* A step of the board alone that leaves the ages as they are.
LEMMA AloneStep ==
  ASSUME IInv, NEW b \in Boards, board' = b,
         b.age = board.age, b.active = board.active,
         b.status = "ok" => b.seen, b.lost => ~b.seen,
         farewell => ~b.lost /\ (b.seen => b.bye),
         toDaemon' \in Seq({"ping", "hello"}), spent' \in 0 .. Budget,
         UNCHANGED <<desk, bridge, daemon, toBoard, history>>
  PROVE  IInv'
<1> USE DEF IInv
<1>1. TypeOK'
  BY DEF TypeOK, history
<1>2. (LinesHonest /\ BoardHonest)'
  BY DEF LinesHonest, BoardHonest, history
<1>3. (OkMeansHeard /\ LostIsSilent /\ ByeIsKept)'
  BY DEF OkMeansHeard, LostIsSilent, ByeIsKept, history
<1> QED BY <1>1, <1>2, <1>3

LEMMA LoopStep == IInv /\ (BoardPings \/ HostGoesQuiet \/ FallsAsleep \/ WakesUp) => IInv'
<1> SUFFICES ASSUME IInv, BoardPings \/ HostGoesQuiet \/ FallsAsleep \/ WakesUp PROVE IInv'
  OBVIOUS
<1>1. board \in Boards /\ spent \in 0 .. Budget /\ toDaemon \in Seq({"ping", "hello"})
  BY DEF IInv, TypeOK
<1>2. /\ board.status = "ok" => board.seen
      /\ board.lost => ~board.seen
      /\ farewell => ~board.lost /\ (board.seen => board.bye)
  BY DEF IInv, OkMeansHeard, LostIsSilent, ByeIsKept
<1>3. CASE BoardPings
  <2> DEFINE b == [board EXCEPT !.due = FALSE]
  <2>1. b \in Boards
    BY <1>1, OtherTypes
  <2>2. /\ b.age = board.age /\ b.active = board.active /\ b.status = board.status
        /\ b.seen = board.seen /\ b.lost = board.lost /\ b.bye = board.bye
    BY <1>1 DEF Boards
  <2>3. board' = b /\ toDaemon' \in Seq({"ping", "hello"})
    BY <1>1, <1>3 DEF BoardPings
  <2>4. UNCHANGED <<desk, bridge, daemon, toBoard, history, spent>>
    BY <1>3 DEF BoardPings
  <2> HIDE DEF b
  <2> QED BY <1>1, <1>2, <2>1, <2>2, <2>3, <2>4, AloneStep
<1>4. CASE HostGoesQuiet
  <2> DEFINE b == TimedOut(board)
  <2>1. b \in Boards
    BY <1>1, OtherTypes
  <2>2. /\ b.age = board.age /\ b.active = board.active /\ b.status = "disconnected"
        /\ b.seen = FALSE /\ (b.lost <=> ~board.bye)
    BY <1>1 DEF Boards, TimedOut
  <2>3. board.seen /\ board' = b
    BY <1>4 DEF HostGoesQuiet, TimesOut
  <2>4. UNCHANGED <<desk, bridge, daemon, toBoard, toDaemon, history, spent>>
    BY <1>4 DEF HostGoesQuiet, link
  <2> HIDE DEF b
  <2>5. /\ b.status = "ok" => b.seen
        /\ b.lost => ~b.seen
        /\ farewell => ~b.lost /\ (b.seen => b.bye)
    BY <1>2, <2>2, <2>3
  <2> QED BY <1>1, <2>1, <2>2, <2>3, <2>4, <2>5, AloneStep
<1>5. CASE FallsAsleep
  <2>1. PICK kind \in Dozes \ {"no"} : board' = Asleep(board, kind)
    BY <1>5 DEF FallsAsleep
  <2> DEFINE b == Asleep(board, kind)
  <2>2. b \in Boards
    BY <1>1, OtherTypes
  <2>3. /\ b.age = board.age /\ b.active = board.active /\ b.status = board.status
        /\ b.seen = board.seen /\ b.lost = board.lost /\ b.bye = board.bye
    BY <1>1 DEF Boards, Asleep
  <2>4. UNCHANGED <<desk, bridge, daemon, toBoard, toDaemon, history, spent>>
    BY <1>5 DEF FallsAsleep, link
  <2>5. board' = b
    BY <2>1
  <2> HIDE DEF b
  <2> QED BY <1>1, <1>2, <2>2, <2>3, <2>4, <2>5, AloneStep
<1>6. CASE WakesUp
  <2> DEFINE b == Wake(board)
  <2>1. b \in Boards
    BY <1>1, OtherTypes
  <2>2. /\ b.age = board.age /\ b.active = board.active
        /\ b.status = "ok" => board.status = "ok"
        /\ b.seen = board.seen /\ b.lost = board.lost /\ b.bye = board.bye
    <3> DEFINE st == IF board.have /\ board.age >= StaleAfter THEN "stale" ELSE board.status
    <3>1. st = "ok" => board.status = "ok"
      OBVIOUS
    <3> HIDE DEF st
    <3>2. b = [board EXCEPT !.doze = "no", !.peek = FALSE, !.quiet = 0, !.status = st]
      BY DEF Wake, st
    <3> HIDE DEF b
    <3>3. /\ b.age = board.age /\ b.active = board.active /\ b.status = st
          /\ b.seen = board.seen /\ b.lost = board.lost /\ b.bye = board.bye
      BY <1>1, <3>2 DEF Boards
    <3> QED BY <3>1, <3>3
  <2>3. board' = b
    BY <1>6 DEF WakesUp
  <2>4. UNCHANGED <<desk, bridge, daemon, toBoard, toDaemon, history, spent>>
    BY <1>6 DEF WakesUp, link
  <2> HIDE DEF b
  <2> QED BY <1>1, <1>2, <2>1, <2>2, <2>3, <2>4, AloneStep
<1> QED BY <1>3, <1>4, <1>5, <1>6

\* What the owner does changes one flag of the board.
OwnerActs == Taps \/ OpensSettings \/ ClosesSettings \/ UpdateBegins \/ UpdateEnds

LEMMA OwnerStep == IInv /\ OwnerActs => IInv'
<1> SUFFICES ASSUME IInv, OwnerActs PROVE IInv'
  OBVIOUS
<1>1. board \in Boards /\ spent \in 0 .. Budget /\ toDaemon \in Seq({"ping", "hello"})
  BY DEF IInv, TypeOK
<1>2. /\ board.status = "ok" => board.seen
      /\ board.lost => ~board.seen
      /\ farewell => ~board.lost /\ (board.seen => board.bye)
  BY DEF IInv, OkMeansHeard, LostIsSilent, ByeIsKept
<1>3. PICK x \in BOOLEAN : \/ User([board EXCEPT !.peek = x])
                           \/ User([board EXCEPT !.settings = x])
                           \/ User([board EXCEPT !.busy = x])
  BY DEF OwnerActs, Taps, OpensSettings, ClosesSettings, UpdateBegins, UpdateEnds
<1>4. PICK b \in Boards :
        /\ User(b)
        /\ b.age = board.age /\ b.active = board.active /\ b.status = board.status
        /\ b.seen = board.seen /\ b.lost = board.lost /\ b.bye = board.bye
  <2>1. CASE User([board EXCEPT !.peek = x])
    <3> DEFINE b == [board EXCEPT !.peek = x]
    <3>1. b \in Boards
      BY <1>1, OtherTypes
    <3> WITNESS b \in Boards
    <3> QED BY <1>1, <2>1 DEF Boards
  <2>2. CASE User([board EXCEPT !.settings = x])
    <3> DEFINE b == [board EXCEPT !.settings = x]
    <3>1. b \in Boards
      BY <1>1, OtherTypes
    <3> WITNESS b \in Boards
    <3> QED BY <1>1, <2>2 DEF Boards
  <2>3. CASE User([board EXCEPT !.busy = x])
    <3> DEFINE b == [board EXCEPT !.busy = x]
    <3>1. b \in Boards
      BY <1>1, OtherTypes
    <3> WITNESS b \in Boards
    <3> QED BY <1>1, <2>3 DEF Boards
  <2> QED BY <1>3, <2>1, <2>2, <2>3
<1>5. /\ board' = b /\ spent' \in 0 .. Budget
      /\ UNCHANGED <<desk, bridge, daemon, toBoard, toDaemon, history>>
  BY <1>1, <1>4, LinkAssumption DEF User, Costs, link
<1> QED BY <1>1, <1>2, <1>4, <1>5, AloneStep

\* A step that takes lines away, or moves the daemon, and
\* leaves desk, board and daemon's record as they are.
LEMMA LineStep ==
  ASSUME IInv, UNCHANGED <<desk, board, bridge, still, farewell>>,
         toBoard' \in Seq(Honest(desk)), toDaemon' \in Seq({"ping", "hello"}),
         daemon' \in {"down", "up", "asleep"}, calm' \in 0 .. Settling,
         missing' \subseteq Repeated \cup {"torn"}, "torn" \in missing => "torn" \in missing',
         spent' \in 0 .. Budget
  PROVE  IInv'
<1> USE DEF IInv
<1>1. toBoard' \in Seq(MsgsDown)
  BY HonestLines, SeqLarger
<1>2. TypeOK'
  BY <1>1 DEF TypeOK
<1>3. (LinesHonest /\ BoardHonest)'
  BY DEF LinesHonest, BoardHonest
<1>4. (OkMeansHeard /\ LostIsSilent /\ ByeIsKept)'
  BY DEF OkMeansHeard, LostIsSilent, ByeIsKept
<1> QED BY <1>2, <1>3, <1>4

\* A torn line is read as a line that might have been sent.
LEMMA TornIs ==
  ASSUME NEW m \in MsgsDown, m.t \in Repeated, NEW w \in Torn(m)
  PROVE  w \in MsgsDown /\ w.t = m.t
<1>1. CASE m.t = "session"
  <2>1. w = [m EXCEPT !.label = Nothing]
    BY <1>1 DEF Torn
  <2>2. m \in [t : {"session"}, label : Names \cup {Nothing}]
    BY <1>1 DEF MsgsDown
  <2> QED BY <1>1, <2>1, <2>2 DEF MsgsDown
<1>2. CASE m.t = "usage"
  <2>1. /\ m.val \in Readings /\ m.stale \in BOOLEAN /\ m.act \in Acts
        /\ m.age \in Ages /\ m.active \in Ages
    BY <1>2, MsgTypes
  <2>2. \A a \in Ages : Cut(a) \subseteq Ages
    BY PanelAssumption DEF Cut, Ages, Unknown
  <2>3. {m.val} \subseteq Readings /\ {m.stale, FALSE} \subseteq BOOLEAN /\ {m.act, "none"} \subseteq Acts
        /\ {Unknown, m.age} \subseteq Ages
    BY <2>1, PanelAssumption DEF Unknown, Ages, Acts
  <2>4. /\ w.t = "usage" /\ w.val \in Readings /\ w.stale \in BOOLEAN /\ w.act \in Acts
        /\ w.age \in Ages /\ w.active \in Ages
        /\ w = [t |-> w.t, val |-> w.val, stale |-> w.stale, act |-> w.act, age |-> w.age, active |-> w.active]
    <3>1. CASE w \in UsageLines({m.val}, {m.stale}, {m.act}, {m.age}, Cut(m.active))
      BY <2>1, <2>2, <2>3, <3>1 DEF UsageLines
    <3>2. CASE w \in UsageLines({m.val}, {m.stale}, {m.act}, Cut(m.age), {Unknown})
      BY <2>1, <2>2, <2>3, <3>2 DEF UsageLines
    <3>3. CASE w \in UsageLines(Readings, {m.stale, FALSE}, {m.act, "none"}, {Unknown}, {Unknown})
      BY <2>3, <3>3 DEF UsageLines
    <3> QED BY <1>2, <3>1, <3>2, <3>3 DEF Torn
  <2> QED BY <1>2, <2>4 DEF MsgsDown
<1> QED BY <1>1, <1>2 DEF Repeated

\* The ages a torn line has put on the board are not vouched for.
LEMMA TornStep == IInv /\ LineTorn => IInv'
<1> SUFFICES ASSUME IInv, LineTorn PROVE IInv'
  OBVIOUS
<1> USE DEF IInv
<1> DEFINE m == Head(toBoard)
<1>1. /\ toBoard # <<>> /\ m.t \in Repeated /\ toBoard' = Tail(toBoard) /\ farewell' = FALSE
      /\ missing' = missing \cup Marks(m) /\ calm' = 0
      /\ UNCHANGED <<desk, bridge, daemon, toDaemon, still>>
  BY DEF LineTorn, Fault
<1>2. m \in Honest(desk) /\ Tail(toBoard) \in Seq(Honest(desk))
  BY <1>1 DEF LinesHonest
<1>3. m \in MsgsDown /\ board \in Boards
  BY <1>2, HonestLines DEF TypeOK
<1>4. PICK w \in Torn(m) : board' = Dispatch(board, w)
  BY DEF LineTorn
<1>5. w \in MsgsDown /\ w.t = m.t
  BY <1>1, <1>3, <1>4, TornIs
<1>6. LinesHonest'
  BY <1>1, <1>2 DEF LinesHonest
<1>7. TypeOK'
  <2>1. toBoard' \in Seq(MsgsDown)
    BY <1>1, <1>2, HonestLines, SeqLarger
  <2>2. board' \in Boards
    BY <1>3, <1>4, <1>5, DispatchType
  <2>3. missing' \subseteq Repeated \cup {"torn"}
    BY <1>1 DEF TypeOK, Marks
  <2>4. spent' \in 0 .. Budget /\ 0 \in 0 .. Settling
    BY LinkAssumption, PushAssumption DEF LineTorn, Fault, Happens, Costs, TypeOK, Settling
  <2> QED BY <1>1, <2>1, <2>2, <2>3, <2>4 DEF TypeOK
<1>8. /\ board'.seen = TRUE /\ board'.lost = FALSE
      /\ w.t # "usage" => board'.age = board.age /\ board'.active = board.active
  BY <1>3, <1>4, <1>5, DispatchHears
<1>9. BoardHonest'
  <2>1. m.t = "usage" => "torn" \in missing'
    BY <1>1 DEF Marks
  <2>2. "torn" \in missing => "torn" \in missing'
    BY <1>1
  <2> QED BY <1>1, <1>5, <1>8, <2>1, <2>2 DEF BoardHonest
<1>10. (OkMeansHeard /\ LostIsSilent /\ ByeIsKept)'
  BY <1>1, <1>8 DEF OkMeansHeard, LostIsSilent, ByeIsKept
<1> QED BY <1>6, <1>7, <1>9, <1>10

LEMMA FaultStep == IInv /\ (LineLost \/ LineTorn \/ PingLost \/ ComputerSleeps \/ ComputerWakes) => IInv'
<1> SUFFICES ASSUME IInv, LineLost \/ LineTorn \/ PingLost \/ ComputerSleeps \/ ComputerWakes
             PROVE  IInv'
  OBVIOUS
<1>1. /\ toBoard \in Seq(Honest(desk)) /\ toDaemon \in Seq({"ping", "hello"})
      /\ missing \subseteq Repeated \cup {"torn"} /\ spent \in 0 .. Budget /\ 0 \in 0 .. Settling
      /\ daemon \in {"down", "up", "asleep"}
  BY PushAssumption DEF IInv, TypeOK, LinesHonest, Settling
<1>2. Fault => spent' \in 0 .. Budget /\ calm' = 0
  BY <1>1, LinkAssumption DEF Fault, Happens, Costs
<1>3. CASE LineLost
  BY <1>1, <1>2, <1>3, LineStep DEF LineLost
<1>4. CASE LineTorn
  BY <1>4, TornStep
<1>5. CASE PingLost
  BY <1>1, <1>2, <1>5, LineStep DEF PingLost
<1>6. CASE ComputerSleeps
  BY <1>1, <1>2, <1>6, LineStep DEF ComputerSleeps, link
<1>7. CASE ComputerWakes
  BY <1>1, <1>7, LineStep DEF ComputerWakes, link
<1> QED BY <1>3, <1>4, <1>5, <1>6, <1>7

LEMMA StopStep == IInv /\ DaemonStops => IInv'
<1> SUFFICES ASSUME IInv, DaemonStops PROVE IInv'
  OBVIOUS
<1>1. /\ toBoard \in Seq(Honest(desk)) /\ missing \subseteq Repeated \cup {"torn"} /\ desk \in Desks
      /\ spent \in 0 .. Budget /\ 0 \in 0 .. Settling
  BY PushAssumption DEF IInv, TypeOK, LinesHonest, Settling
<1>2. spent' \in 0 .. Budget /\ calm' = 0 /\ daemon' = "down" /\ toDaemon' = <<>>
  BY <1>1, LinkAssumption DEF DaemonStops, Fault, Happens, Costs
<1>3. Plain("bye") \in Honest(desk)
  BY <1>1, PlainHonest
<1>4. toBoard' \in Seq(Honest(desk))
  BY <1>1, <1>3 DEF DaemonStops
<1> QED BY <1>1, <1>2, <1>4, LineStep DEF DaemonStops

\* A board that has just been reset.
LEMMA ResetStep ==
  ASSUME IInv, board' = PowerOn, toBoard' = <<>>, farewell' = FALSE,
         UNCHANGED <<desk, still>>, bridge' \in Bridges, daemon' \in {"down", "up", "asleep"},
         toDaemon' \in Seq({"ping", "hello"}), missing' = Repeated, calm' = 0,
         spent' \in 0 .. Budget
  PROVE  IInv'
<1> USE DEF IInv
<1>1. 0 \in 0 .. Settling
  BY PushAssumption DEF Settling
<1>2. TypeOK'
  <2>1. toBoard' \in Seq(MsgsDown)
    OBVIOUS
  <2>3. farewell' \in BOOLEAN
    OBVIOUS
  <2>4. missing' \subseteq Repeated
    OBVIOUS
  <2>2. board' \in Boards /\ desk' \in Desks /\ still' \in 0 .. Settling /\ calm' \in 0 .. Settling
    BY <1>1, PowerOnType DEF TypeOK
  <2> QED BY <2>1, <2>2, <2>3, <2>4 DEF TypeOK
<1>3. LinesHonest'
  BY DEF LinesHonest
<1>4. (BoardHonest /\ OkMeansHeard /\ LostIsSilent)'
  BY PowerOnSafe DEF BoardHonest, OkMeansHeard, LostIsSilent
<1>5. ByeIsKept'
  BY DEF ByeIsKept
<1> QED BY <1>2, <1>3, <1>4, <1>5

LEMMA RestartStep == IInv /\ (DaemonStarts \/ BoardResets) => IInv'
<1> SUFFICES ASSUME IInv, DaemonStarts \/ BoardResets PROVE IInv'
  OBVIOUS
<1>1. /\ toBoard \in Seq(Honest(desk)) /\ toDaemon \in Seq({"ping", "hello"})
      /\ desk \in Desks /\ bridge \in Bridges /\ spent \in 0 .. Budget
      /\ daemon \in {"down", "up", "asleep"} /\ missing \subseteq Repeated \cup {"torn"}
      /\ 0 \in 0 .. Settling
  BY PushAssumption DEF IInv, TypeOK, LinesHonest, Settling
<1>2. CASE BoardResets
  <2>1. spent' \in 0 .. Budget /\ calm' = 0
    BY <1>1, <1>2, LinkAssumption DEF BoardResets, Fault, Happens, Costs
  <2>2. toDaemon' \in Seq({"ping", "hello"})
    BY <1>1, <1>2 DEF BoardResets
  <2>3. /\ board' = PowerOn /\ toBoard' = <<>> /\ farewell' = FALSE /\ missing' = Repeated
        /\ UNCHANGED <<desk, still, bridge, daemon>>
    BY <1>2 DEF BoardResets
  <2>4. bridge' \in Bridges /\ daemon' \in {"down", "up", "asleep"}
    BY <1>1, <2>3
  <2> QED BY <2>1, <2>2, <2>3, <2>4, ResetStep
<1>3. CASE DaemonStarts
  <2>1. daemon' = "up" /\ calm' = 0 /\ UNCHANGED <<desk, still, spent>>
    BY <1>3 DEF DaemonStarts
  <2>2. CASE /\ board' = PowerOn /\ bridge' = NewBridge
             /\ toBoard' = <<>> /\ toDaemon' = <<"hello">>
             /\ missing' = Repeated /\ farewell' = FALSE
    <3>1. bridge' \in Bridges
      BY <2>2, BridgeTypes
    <3>2. toDaemon' \in Seq({"ping", "hello"})
      BY <2>2
    <3>3. daemon' \in {"down", "up", "asleep"} /\ spent' \in 0 .. Budget
      BY <1>1, <2>1
    <3> QED BY <2>1, <2>2, <3>1, <3>2, <3>3, ResetStep
  <2>3. CASE /\ bridge' = Greet(NewBridge, desk).d
             /\ toBoard' = toBoard \o <<Plain("welcome")>> \o Greet(NewBridge, desk).out
             /\ UNCHANGED <<board, toDaemon, missing, farewell>>
    <3> USE DEF IInv
    <3>1. Greet(NewBridge, desk) \in Sends(desk) /\ Plain("welcome") \in Honest(desk)
      BY <1>1, GreetSends, BridgeTypes, PlainHonest
    <3>2. bridge' \in Bridges /\ toBoard' \in Seq(Honest(desk))
      <4> DEFINE o == Greet(NewBridge, desk).out
      <4>1. o \in Seq(Honest(desk)) /\ bridge' \in Bridges
        BY <2>3, <3>1 DEF Sends
      <4>2. toBoard \o <<Plain("welcome")>> \in Seq(Honest(desk))
        BY <1>1, <3>1
      <4>3. toBoard' = (toBoard \o <<Plain("welcome")>>) \o o
        BY <2>3
      <4> HIDE DEF o
      <4> QED BY <1>1, <4>1, <4>2, <4>3, Joined
    <3>3. toBoard' \in Seq(MsgsDown)
      BY <3>2, HonestLines, SeqLarger
    <3>4. TypeOK'
      BY <1>1, <2>1, <2>3, <3>2, <3>3 DEF TypeOK
    <3>5. (LinesHonest /\ BoardHonest)'
      BY <2>1, <2>3, <3>2 DEF LinesHonest, BoardHonest
    <3>6. (OkMeansHeard /\ LostIsSilent /\ ByeIsKept)'
      BY <2>3 DEF OkMeansHeard, LostIsSilent, ByeIsKept
    <3> QED BY <3>4, <3>5, <3>6
  <2> QED BY <1>3, <2>2, <2>3 DEF DaemonStarts
<1> QED BY <1>2, <1>3

\* Time makes board and desk older together, and no line is under way then.
LEMMA TickStep == IInv /\ Tick => IInv'
<1> SUFFICES ASSUME IInv, Tick PROVE IInv'
  OBVIOUS
<1> USE DEF IInv
<1>1. board \in Boards /\ desk \in Desks /\ bridge \in Bridges
  BY DEF TypeOK
<1>2. toBoard = <<>> /\ toBoard' = toBoard /\ toDaemon' = toDaemon
  BY DEF Tick, AtRest, BoardDue, link
<1>3. board' = Elapsed(board) /\ desk' = [desk EXCEPT !.age = Grow(@), !.active = Grow(@)]
      /\ UNCHANGED <<daemon, missing, farewell, spent>>
  BY DEF Tick
<1>4. /\ desk.age \in Ages /\ desk.active \in Ages /\ board.age \in Ages /\ board.active \in Ages
  BY <1>1 DEF Boards, Desks
<1>5. desk' \in Desks /\ desk'.age = Grow(desk.age) /\ desk'.active = Grow(desk.active)
  <2> DEFINE x == Grow(desk.age)
             y == Grow(desk.active)
  <2>1. x \in Ages /\ y \in Ages
    BY <1>4, GrowType
  <2>2. desk' = [desk EXCEPT !.age = x, !.active = y]
    BY <1>3
  <2> HIDE DEF x, y
  <2>3. desk' \in Desks /\ desk'.age = x /\ desk'.active = y
    BY <1>1, <2>1, <2>2 DEF Desks
  <2> QED BY <2>3 DEF x, y
<1>6. /\ board' \in Boards /\ board'.age = Grow(board.age) /\ board'.active = Grow(board.active)
      /\ board'.status = board.status /\ board'.seen = board.seen
      /\ board'.lost = board.lost /\ board'.bye = board.bye
  <2>1. board' \in Boards
    BY <1>1, <1>3, OtherTypes
  <2> DEFINE he == IF board.seen /\ board.heard <= HostTimeout THEN board.heard + 1 ELSE board.heard
             qu == IF ~board.have /\ ~board.seen /\ board.doze = "no" /\ board.quiet <= AppWait
                   THEN board.quiet + 1 ELSE board.quiet
             x == Grow(board.age)
             y == Grow(board.active)
  <2>2. board' = [board EXCEPT !.due = TRUE, !.peek = FALSE, !.heard = he, !.age = x,
                               !.active = y, !.quiet = qu]
    BY <1>3 DEF Elapsed
  <2> HIDE DEF he, qu, x, y
  <2>3. /\ board'.age = x /\ board'.active = y
        /\ board'.status = board.status /\ board'.seen = board.seen
        /\ board'.lost = board.lost /\ board'.bye = board.bye
    BY <1>1, <2>2 DEF Boards
  <2> QED BY <2>1, <2>3 DEF x, y
<1>7. bridge' \in Bridges
  BY <1>1, BridgeTypes DEF Tick
<1>8. still' \in 0 .. Settling /\ calm' \in 0 .. Settling
  <2>1. Settling \in Nat
    BY PushAssumption DEF Settling
  <2>2. still \in 0 .. Settling /\ calm \in 0 .. Settling
    BY DEF TypeOK
  <2>3. still' \in {still, still + 1} /\ (still' # still => still < Settling)
    BY DEF Tick
  <2>4. calm' \in {calm, calm + 1} /\ (calm' # calm => calm < Settling)
    BY DEF Tick
  <2> QED BY <2>1, <2>2, <2>3, <2>4
<1>9. TypeOK'
  BY <1>2, <1>3, <1>5, <1>6, <1>7, <1>8 DEF TypeOK
<1>10. LinesHonest'
  BY <1>2 DEF LinesHonest
<1>11. BoardHonest'
  <2> SUFFICES ASSUME "torn" \notin missing PROVE BoardHonest'
    BY <1>3 DEF BoardHonest
  <2>0. "torn" \notin missing
    OBVIOUS
  <2>1. ASSUME NEW a \in Ages, NEW c \in Ages, a >= 0 /\ c >= 0 => a >= c
        PROVE  Grow(a) >= 0 /\ Grow(c) >= 0 => Grow(a) >= Grow(c)
    BY <2>1, GrowType
  <2>2. Grow(board.age) >= 0 /\ Grow(desk.age) >= 0 => Grow(board.age) >= Grow(desk.age)
    BY <1>4, <2>0, <2>1 DEF BoardHonest
  <2>3. Grow(board.active) >= 0 /\ Grow(desk.active) >= 0 => Grow(board.active) >= Grow(desk.active)
    BY <1>4, <2>0, <2>1 DEF BoardHonest
  <2> QED BY <1>5, <1>6, <2>2, <2>3 DEF BoardHonest
<1>12. (OkMeansHeard /\ LostIsSilent /\ ByeIsKept)'
  BY <1>3, <1>6 DEF OkMeansHeard, LostIsSilent, ByeIsKept
<1> QED BY <1>9, <1>10, <1>11, <1>12

-----------------------------------------------------------------------------
(* Theorems.                                                               *)

\* Only FallsAsleep closes the eyes.
LEMMA DozeKept ==
  ASSUME NEW b \in Boards
  PROVE  /\ \A m \in MsgsDown : Dispatch(b, m).doze = b.doze
         /\ TimedOut(b).doze = b.doze /\ Elapsed(b).doze = b.doze /\ Wake(b).doze = "no"
         /\ [b EXCEPT !.due = FALSE].doze = b.doze
         /\ \A x \in BOOLEAN : /\ [b EXCEPT !.peek = x].doze = b.doze
                               /\ [b EXCEPT !.settings = x].doze = b.doze
                               /\ [b EXCEPT !.busy = x].doze = b.doze
<1>1. ASSUME NEW m \in MsgsDown PROVE Dispatch(b, m).doze = b.doze
  <2> DEFINE h == Heard(b, m)
             byes == m.t = "bye"
  <2>1. h \in Boards /\ h = [b EXCEPT !.seen = TRUE, !.heard = 0, !.lost = FALSE, !.bye = byes, !.quiet = 0]
    BY HeardType DEF Heard
  <2> HIDE DEF h, byes
  <2>2. h \in Boards /\ h.doze = b.doze
    BY <2>1 DEF Boards
  <2>3. /\ Show(h, m).doze = h.doze /\ [h EXCEPT !.label = m.label].doze = h.doze
        /\ [h EXCEPT !.status = "error"].doze = h.doze
    BY <2>2 DEF Show, Boards
  <2> QED BY <2>2, <2>3 DEF Dispatch, h
<1>2. /\ TimedOut(b).doze = b.doze /\ Elapsed(b).doze = b.doze /\ Wake(b).doze = "no"
  BY DEF TimedOut, Elapsed, Wake, Boards
<1>3. /\ [b EXCEPT !.due = FALSE].doze = b.doze
      /\ \A x \in BOOLEAN : /\ [b EXCEPT !.peek = x].doze = b.doze
                            /\ [b EXCEPT !.settings = x].doze = b.doze
                            /\ [b EXCEPT !.busy = x].doze = b.doze
  BY DEF Boards
<1> QED BY <1>1, <1>2, <1>3

LEMMA DozeMoves ==
  ASSUME IInv, Next, board.doze = "no", board'.doze = "host"
  PROVE  FallsAsleep
<1>1. board \in Boards
  BY DEF IInv, TypeOK
<1>2. BoardReads \/ LineTorn => board'.doze = board.doze
  <2> SUFFICES ASSUME BoardReads \/ LineTorn PROVE board'.doze = board.doze
    OBVIOUS
  <2>1. Head(toBoard) \in MsgsDown
    BY HonestLines DEF IInv, LinesHonest, BoardReads, LineTorn
  <2>2. CASE BoardReads
    BY <1>1, <2>1, <2>2, DozeKept DEF BoardReads
  <2>3. CASE LineTorn
    <3>1. PICK w \in Torn(Head(toBoard)) : board' = Dispatch(board, w)
      BY <2>3 DEF LineTorn
    <3>2. w \in MsgsDown
      BY <2>1, <2>3, <3>1, TornIs DEF LineTorn
    <3> QED BY <1>1, <3>1, <3>2, DozeKept
  <2> QED BY <2>2, <2>3
<1>3. BoardPings \/ HostGoesQuiet \/ Tick => board'.doze = board.doze
  <2> DEFINE pinged == [board EXCEPT !.due = FALSE]
  <2>1. pinged.doze = board.doze /\ TimedOut(board).doze = board.doze /\ Elapsed(board).doze = board.doze
    BY <1>1, DozeKept
  <2>2. BoardPings => board' = pinged
    BY DEF BoardPings
  <2> HIDE DEF pinged
  <2> QED BY <2>1, <2>2 DEF HostGoesQuiet, Tick
<1>4. OwnerActs => board'.doze = board.doze
  <2> DEFINE peeking == [board EXCEPT !.peek = TRUE]
             inside(x) == [board EXCEPT !.settings = x]
             updating(x) == [board EXCEPT !.busy = x]
  <2>1. /\ peeking.doze = board.doze
        /\ \A x \in BOOLEAN : inside(x).doze = board.doze /\ updating(x).doze = board.doze
    BY <1>1, DozeKept
  <2>2. Taps => board' = peeking
    BY DEF Taps, User
  <2>3. OpensSettings => board' = inside(TRUE)
    BY DEF OpensSettings, User
  <2>4. ClosesSettings => board' = inside(FALSE)
    BY DEF ClosesSettings, User
  <2>5. UpdateBegins => board' = updating(TRUE)
    BY DEF UpdateBegins, User
  <2>6. UpdateEnds => board' = updating(FALSE)
    BY DEF UpdateEnds, User
  <2> HIDE DEF peeking, inside, updating
  <2> QED BY <2>1, <2>2, <2>3, <2>4, <2>5, <2>6 DEF OwnerActs
<1> DEFINE fresh == PowerOn
<1>0. fresh.doze = "no"
  BY DEF PowerOn
<1> HIDE DEF fresh
<1>5. /\ WakesUp => board'.doze = "no"
      /\ BoardResets => board'.doze = "no"
  <2>1. WakesUp => board'.doze = "no"
    BY <1>1, DozeKept DEF WakesUp
  <2>2. BoardResets => board' = fresh
    BY DEF BoardResets, fresh
  <2> QED BY <1>0, <2>1, <2>2
<1>6. DaemonStarts => board' \in {fresh, board}
  BY DEF DaemonStarts, fresh
<1>7. NewReading \/ Activity \/ NewName => board' = board
  BY DEF NewReading, Activity, NewName, DeskHasNews
<1>8. DaemonReads \/ DaemonPolls => board' = board
  BY DEF DaemonReads, DaemonPolls
<1>9. LineLost \/ PingLost \/ ComputerSleeps \/ ComputerWakes \/ DaemonStops => board' = board
  BY DEF LineLost, PingLost, ComputerSleeps, ComputerWakes, DaemonStops
<1> QED BY <1>0, <1>2, <1>3, <1>4, <1>5, <1>6, <1>7, <1>8, <1>9 DEF Next, OwnerActs

LEMMA StutterStep == IInv /\ UNCHANGED vars => IInv'
BY DEF IInv, TypeOK, LinesHonest, BoardHonest, OkMeansHeard, LostIsSilent, ByeIsKept, vars

\* The strengthened invariant holds in every reachable state, whatever is lost,
\* torn, stopped or restarted, and whatever the desk and the owner do.
THEOREM Invariance == Spec => []IInv
<1>1. IInv /\ [Next]_vars => IInv'
  BY StutterStep, DeskStep, DaemonStep, ReadsStep, LoopStep, OwnerStep, FaultStep, StopStep,
     RestartStep, TickStep DEF Next, OwnerActs
<1> QED BY <1>1, InitInv, PTL DEF Spec

\* Every variable keeps its type: no buffer field, timer or age of board and
\* daemon leaves its range.
THEOREM TypeCorrect == Spec => []TypeOK
<1>1. IInv => TypeOK
  BY DEF IInv
<1> QED BY <1>1, Invariance, PTL

\* The board never takes reading or desk to be younger than they are, unless a
\* torn line has said so (usage_freshness.c against the daemon's ages), for any
\* bounds of time.
THEOREM AgesHonest == Spec => []AgeIsHonest
<1>1. IInv => AgeIsHonest
  BY DEF IInv, BoardHonest, AgeIsHonest
<1> QED BY <1>1, Invariance, PTL

\* Green set by a usage message is over a host that is heard (proto_service).
THEOREM OkIsHeard == Spec => []OkMeansHeard
<1>1. IInv => OkMeansHeard
  BY DEF IInv
<1> QED BY <1>1, Invariance, PTL

\* No doze starts that would end at once (sleep_gate.c and run_usb).
THEOREM DozesStay == Spec => []NoFlapping
<1>1. IInv => NoFlapping
  <2> SUFFICES ASSUME IInv, NEW kind \in Dozes \ {"no"}, Starts(board, kind)
               PROVE  ~Woken(board, kind)
    BY DEF NoFlapping
  <2>1. board.lost => ~board.seen
    BY DEF IInv, LostIsSilent
  <2>2. board.active \in Int /\ AbsentAfter \in Int
    BY PanelAssumption DEF IInv, TypeOK, Boards, Ages
  <2>3. CASE kind = "host"
    BY <2>1, <2>3 DEF Starts, HostAsleep, Woken
  <2>4. CASE kind = "desk"
    BY <2>2, <2>4 DEF Starts, DeskQuiet, Woken
  <2>5. CASE kind = "app"
    BY <2>5 DEF Starts, NoApp, Woken
  <2> QED BY <2>3, <2>4, <2>5 DEF Dozes
<1> QED BY <1>1, Invariance, PTL

\* A host that said bye is not dozed over as a sleeping one (host_bye, host_lost).
THEOREM ByeIsHeeded == Spec => ByeIsNotSleep
<1>1. IInv /\ [Next]_vars => [board.doze = "no" /\ board'.doze = "host" => ~farewell]_vars
  <2> SUFFICES ASSUME IInv, Next, board.doze = "no", board'.doze = "host"
               PROVE  ~farewell
    BY DEF vars
  <2>1. FallsAsleep
    BY DozeKept, DozeMoves
  <2>2. PICK kind \in Dozes \ {"no"} : Starts(board, kind) /\ board' = Asleep(board, kind)
    BY <2>1 DEF FallsAsleep
  <2>3. kind = "host"
    BY <2>2 DEF Asleep, IInv, TypeOK, Boards
  <2>4. board.lost
    BY <2>2, <2>3 DEF Starts, HostAsleep
  <2> QED BY <2>4 DEF IInv, ByeIsKept
<1> QED BY <1>1, Invariance, PTL DEF Spec, ByeIsNotSleep

(***************************************************************************)
(* That what was lost is said again.  The properties are about a link that *)
(* has been left alone for a while; the invariant follows it from the      *)
(* first interval on: InTouch (the ping is answered once an interval), then *)
(* Polled (the fast tick has seen the desk), then Said (the heartbeat has  *)
(* repeated it).  What has been said is still under way or on the glass:   *)
(* the last line of its kind decides.                                      *)
(***************************************************************************)

\* No line of the kinds ts is in q; line i is the last of them.
Silent(q, ts) == \A i \in DOMAIN q : q[i].t \notin ts
Last(q, ts, i) == i \in DOMAIN q /\ q[i].t \in ts /\ \A j \in DOMAIN q : j > i => q[j].t \notin ts

Verdicts == {"usage", "status"}
Sendable == Readings \ TooLong

\* What a line and the glass say, as _last_pushed has it.
Meant(m) == <<m.val, m.stale, m.act>>
Shown(b) == <<b.val, b.old, b.act>>

\* The glass will show what was pushed last, and the name told last, unless
\* that line was lost.
PushShown ==
  bridge.pushed # <<>> /\ bridge.pushed[1] \notin TooLong =>
    /\ \A i \in DOMAIN toBoard : Last(toBoard, {"usage"}, i) =>
         Meant(toBoard[i]) = bridge.pushed
    /\ Silent(toBoard, {"usage"}) =>
         "usage" \in missing \/ Shown(board) = bridge.pushed

NameShown ==
  bridge.told # Nothing =>
    /\ \A i \in DOMAIN toBoard : Last(toBoard, {"session"}, i) => toBoard[i].label = bridge.told
    /\ Silent(toBoard, {"session"}) => "session" \in missing \/ board.label = bridge.told

\* Only a daemon that is up lets calm grow.
CalmIsUp == calm > 0 => daemon = "up"

\* A turn leaves time until the next heartbeat.
TurnsSet == bridge.fast \/ bridge.poll > 0

\* In an interval that began with the daemon up the ping is due, under way or
\* answered, and the answer is under way or heard.
Answered ==
  calm >= 1 =>
    \/ board.due
    \/ \E i \in DOMAIN toDaemon : toDaemon[i] = "ping"
    \/ bridge.ping = 0 /\ (toBoard # <<>> \/ (board.seen /\ board.heard = 0))

\* From the next interval on each has heard the other within the last one.
InTouch == calm >= 2 => bridge.ping <= 1 /\ board.seen /\ board.heard <= 1

\* A turn of the daemon has pushed what the desk says.
Polled ==
  calm >= 2 /\ still >= 1 /\ ~bridge.fast /\ desk.val \in Readings =>
    bridge.pushed = Meaning(desk) /\ bridge.told = desk.name

\* A line, or the board, that says what the desk does.
LineSays(m, s) == m.t = "usage" /\ m.val = s.val /\ m.act = s.act /\ m.age = s.age /\ m.active = s.active
BoardSays(b, s) == /\ b.val = s.val /\ b.act = s.act /\ b.age = s.age /\ b.active = s.active
                   /\ b.status \in {"ok", "stale"}

\* The desk's word is the last of its kind under way, or has been heard.
IsSaid ==
  /\ \A i \in DOMAIN toBoard : Last(toBoard, Verdicts, i) =>
       /\ desk.val \in Sendable => LineSays(toBoard[i], desk)
       /\ desk.val = Broken => toBoard[i].t = "status"
  /\ Silent(toBoard, Verdicts) =>
       /\ desk.val \in Sendable => BoardSays(board, desk)
       /\ desk.val = Broken => board.status # "ok"

\* The time since the last heartbeat was due.
SinceBeat == PollEvery - bridge.poll
Said == calm >= SinceBeat + 2 /\ still > SinceBeat => IsSaid

DeskSpoke == desk.active >= 0

News == /\ PushShown /\ NameShown /\ CalmIsUp /\ TurnsSet /\ Answered /\ InTouch
        /\ Polled /\ Said /\ DeskSpoke

-----------------------------------------------------------------------------
(* The last line of a kind.                                                  *)

\* Of the two pieces q and r of the line w the second decides, if it has one
\* of the kind.
SecondDecides(q, r, w, ts) ==
  /\ Silent(w, ts) <=> Silent(q, ts) /\ Silent(r, ts)
  /\ \A i \in DOMAIN w : Last(w, ts, i) =>
       \/ \E j \in DOMAIN r : Last(r, ts, j) /\ w[i] = r[j]
       \/ Silent(r, ts) /\ \E j \in DOMAIN q : Last(q, ts, j) /\ w[i] = q[j]

LEMMA LastOfJoined ==
  ASSUME NEW S, NEW q \in Seq(S), NEW r \in Seq(S), NEW ts
  PROVE  SecondDecides(q, r, q \o r, ts)
<1> DEFINE w == q \o r
<1>1. /\ Len(q) \in Nat /\ Len(r) \in Nat /\ DOMAIN q = 1 .. Len(q) /\ DOMAIN r = 1 .. Len(r)
      /\ DOMAIN w = 1 .. Len(q) + Len(r)
  OBVIOUS
<1>2. /\ \A j \in DOMAIN q : j \in DOMAIN w /\ w[j] = q[j]
      /\ \A j \in DOMAIN r : Len(q) + j \in DOMAIN w /\ w[Len(q) + j] = r[j]
  OBVIOUS
<1>3. \A i \in DOMAIN w : i \in DOMAIN q \/ (i > Len(q) /\ i - Len(q) \in DOMAIN r /\ w[i] = r[i - Len(q)])
  OBVIOUS
<1> HIDE DEF w
<1>4. Silent(w, ts) <=> Silent(q, ts) /\ Silent(r, ts)
  BY <1>2, <1>3 DEF Silent
<1>5. ASSUME NEW i \in DOMAIN w, Last(w, ts, i)
      PROVE  \/ \E j \in DOMAIN r : Last(r, ts, j) /\ w[i] = r[j]
             \/ Silent(r, ts) /\ \E j \in DOMAIN q : Last(q, ts, j) /\ w[i] = q[j]
  <2>1. CASE i \in DOMAIN q
    <3>1. Silent(r, ts)
      BY <1>1, <1>2, <1>5, <2>1 DEF Silent, Last
    <3>2. Last(q, ts, i) /\ w[i] = q[i]
      BY <1>1, <1>2, <1>5, <2>1 DEF Last
    <3> QED BY <2>1, <3>1, <3>2
  <2>2. CASE i > Len(q) /\ i - Len(q) \in DOMAIN r /\ w[i] = r[i - Len(q)]
    <3> DEFINE k == i - Len(q)
    <3>1. k \in DOMAIN r /\ r[k].t \in ts
      BY <1>5, <2>2 DEF Last
    <3>2. ASSUME NEW j \in DOMAIN r, j > k PROVE r[j].t \notin ts
      <4>1. Len(q) + j \in DOMAIN w /\ w[Len(q) + j] = r[j] /\ Len(q) + j > i
        BY <1>1, <1>2, <3>2
      <4> QED BY <1>5, <4>1 DEF Last
    <3> QED BY <2>2, <3>1, <3>2 DEF Last
  <2> QED BY <1>3, <2>1, <2>2
<1> QED BY <1>4, <1>5 DEF w, SecondDecides

\* Without the first line m of q the rest w decides as before, unless the first
\* was the last.
RestDecides(q, m, w, ts) ==
  /\ \A i \in DOMAIN w : Last(w, ts, i) => \E j \in DOMAIN q : Last(q, ts, j) /\ w[i] = q[j]
  /\ Silent(w, ts) =>
       \/ Silent(q, ts) /\ m.t \notin ts
       \/ 1 \in DOMAIN q /\ Last(q, ts, 1) /\ q[1] = m /\ m.t \in ts

LEMMA LastOfTail ==
  ASSUME NEW S, NEW q \in Seq(S), q # <<>>, NEW ts
  PROVE  RestDecides(q, Head(q), Tail(q), ts)
<1> DEFINE w == Tail(q)
<1>1. /\ Len(q) \in Nat /\ DOMAIN q = 1 .. Len(q) /\ DOMAIN w = 1 .. Len(q) - 1 /\ 1 \in DOMAIN q
      /\ q[1] = Head(q)
  OBVIOUS
<1>2. /\ \A j \in DOMAIN w : j + 1 \in DOMAIN q /\ w[j] = q[j + 1]
      /\ \A j \in DOMAIN q : j > 1 => j - 1 \in DOMAIN w /\ w[j - 1] = q[j]
  OBVIOUS
<1> HIDE DEF w
<1>3. ASSUME NEW i \in DOMAIN w, Last(w, ts, i)
      PROVE  \E j \in DOMAIN q : Last(q, ts, j) /\ w[i] = q[j]
  <2>1. i + 1 \in DOMAIN q /\ w[i] = q[i + 1] /\ i \in Nat
    BY <1>1, <1>2
  <2>2. ASSUME NEW j \in DOMAIN q, j > i + 1 PROVE q[j].t \notin ts
    <3>1. j - 1 \in DOMAIN w /\ w[j - 1] = q[j] /\ j - 1 > i
      BY <1>1, <1>2, <2>1, <2>2
    <3> QED BY <1>3, <3>1 DEF Last
  <2>3. Last(q, ts, i + 1)
    BY <1>3, <2>1, <2>2 DEF Last
  <2> QED BY <2>1, <2>3
<1>4. ASSUME Silent(w, ts)
      PROVE  \/ Silent(q, ts) /\ Head(q).t \notin ts
             \/ Last(q, ts, 1) /\ Head(q).t \in ts
  <2>1. \A j \in DOMAIN q : j > 1 => q[j].t \notin ts
    BY <1>2, <1>4 DEF Silent
  <2>2. \A j \in DOMAIN q : j = 1 \/ j > 1
    BY <1>1
  <2> QED BY <1>1, <2>1, <2>2 DEF Silent, Last
<1> QED BY <1>1, <1>3, <1>4 DEF w, RestDecides

\* A line that says more than one kind of thing.
LEMMA SilentLess ==
  ASSUME NEW q, NEW ts, NEW us, us \subseteq ts, Silent(q, ts)
  PROVE  Silent(q, us)
BY DEF Silent
-----------------------------------------------------------------------------
(* What the daemon says of the desk s, when its record goes from d to r.d.   *)

Word(d, r, s) ==
  /\ r.d \in Bridges /\ r.out \in Seq(MsgsDown) /\ r.d.ping = d.ping
  /\ r.d.pushed \in {d.pushed, Meaning(s)} /\ r.d.told \in {d.told, s.name}
  /\ Silent(r.out, {"usage"}) => r.d.pushed = d.pushed \/ (r.d.pushed = Meaning(s) /\ s.val \in TooLong)
  /\ Silent(r.out, {"session"}) => r.d.told = d.told
  /\ \A i \in DOMAIN r.out :
       /\ r.out[i].t = "usage" => r.out[i] = Reading(s) /\ s.val \in Sendable /\ r.d.pushed = Meaning(s)
       /\ r.out[i].t = "session" => r.out[i].label = s.name /\ r.d.told = s.name
       /\ r.out[i].t = "status" => s.val = Broken

\* The desk is known: what it means and its name have been taken down.
Known(d, s) == d.pushed = Meaning(s) /\ d.told = s.name

\* What must be said of a desk that can be read, or that cannot be.
Due(s) == s.val \in Sendable \cup {Broken}

LEMMA ReadingSays ==
  ASSUME NEW s
  PROVE  /\ Reading(s).t = "usage" /\ Meant(Reading(s)) = Meaning(s) /\ LineSays(Reading(s), s)
         /\ Meaning(s) # <<>> /\ Meaning(s)[1] = s.val
BY DEF Reading, UsageMsg, Meant, Meaning, LineSays

LEMMA HonestSeq ==
  ASSUME NEW s, NEW r \in Sends(s)
  PROVE  r.d \in Bridges /\ r.out \in Seq(MsgsDown)
<1>1. r.d \in Bridges /\ r.out \in Seq(Honest(s))
  BY DEF Sends
<1> QED BY <1>1, HonestLines, SeqLarger

\* Saying nothing, or something that is no news.
LEMMA NoWord ==
  ASSUME NEW d \in Bridges, NEW s \in Desks
  PROVE  Word(d, Result(d, <<>>), s)
BY DEF Word, Result, Silent

LEMMA PlainWord ==
  ASSUME NEW d \in Bridges, NEW s \in Desks, NEW t \in {"time", "pong", "welcome"}
  PROVE  Word(d, Result(d, <<Plain(t)>>), s)
<1>1. <<Plain(t)>> \in Seq(MsgsDown)
  BY DEF Plain, MsgsDown
<1>2. DOMAIN <<Plain(t)>> = {1} /\ <<Plain(t)>>[1].t = t
  BY DEF Plain
<1> DEFINE o == <<Plain(t)>>
<1> HIDE DEF o
<1>3. o \in Seq(MsgsDown) /\ DOMAIN o = {1} /\ o[1].t = t
  BY <1>1, <1>2 DEF o
<1>4. Word(d, [d |-> d, out |-> o], s)
  BY <1>3 DEF Word, Silent
<1> QED BY <1>4 DEF Result, o

LEMMA Places ==
  ASSUME NEW S, NEW q \in Seq(S), NEW r \in Seq(S)
  PROVE  \A i \in DOMAIN (q \o r) : (i \in DOMAIN q /\ (q \o r)[i] = q[i]) \/ \E j \in DOMAIN r : (q \o r)[i] = r[j]
<1> SUFFICES ASSUME NEW i \in DOMAIN (q \o r), i \notin DOMAIN q
             PROVE  \E j \in DOMAIN r : (q \o r)[i] = r[j]
  OBVIOUS
<1>1. i - Len(q) \in DOMAIN r /\ (q \o r)[i] = r[i - Len(q)]
  OBVIOUS
<1> QED BY <1>1

\* One call after another.
LEMMA WordAfterWord ==
  ASSUME NEW s \in Desks, NEW d, NEW a, NEW b, Word(d, a, s), Word(a.d, b, s)
  PROVE  LET r == Result(b.d, a.out \o b.out)
         IN  /\ Word(d, r, s)
             /\ \A ts : Silent(r.out, ts) <=> Silent(a.out, ts) /\ Silent(b.out, ts)
<1> DEFINE w == a.out \o b.out
<1>1. a.out \in Seq(MsgsDown) /\ b.out \in Seq(MsgsDown) /\ b.d \in Bridges
  BY DEF Word
<1>2. w \in Seq(MsgsDown)
  BY <1>1
<1>3. \A ts : Silent(w, ts) <=> Silent(a.out, ts) /\ Silent(b.out, ts)
  BY <1>1, LastOfJoined DEF SecondDecides
<1>4. \A i \in DOMAIN w : (i \in DOMAIN a.out /\ w[i] = a.out[i]) \/ \E j \in DOMAIN b.out : w[i] = b.out[j]
  <2> DEFINE p == a.out
             q == b.out
  <2>1. p \in Seq(MsgsDown) /\ q \in Seq(MsgsDown)
    BY <1>1
  <2> HIDE DEF p, q
  <2>2. \A i \in DOMAIN (p \o q) : (i \in DOMAIN p /\ (p \o q)[i] = p[i]) \/ \E j \in DOMAIN q : (p \o q)[i] = q[j]
    BY <2>1, Places
  <2> QED BY <2>2 DEF p, q
<1> HIDE DEF w
<1> DEFINE r == [d |-> b.d, out |-> w]
<1>5. \A i \in DOMAIN w :
       /\ w[i].t = "usage" => w[i] = Reading(s) /\ s.val \in Sendable /\ b.d.pushed = Meaning(s)
       /\ w[i].t = "session" => w[i].label = s.name /\ b.d.told = s.name
       /\ w[i].t = "status" => s.val = Broken
  <2> SUFFICES ASSUME NEW i \in DOMAIN w
               PROVE  /\ w[i].t = "usage" => w[i] = Reading(s) /\ s.val \in Sendable /\ b.d.pushed = Meaning(s)
                      /\ w[i].t = "session" => w[i].label = s.name /\ b.d.told = s.name
                      /\ w[i].t = "status" => s.val = Broken
    OBVIOUS
  <2>1. CASE i \in DOMAIN a.out /\ w[i] = a.out[i]
    BY <2>1 DEF Word
  <2>2. CASE \E j \in DOMAIN b.out : w[i] = b.out[j]
    BY <2>2 DEF Word
  <2> QED BY <1>4, <2>1, <2>2
<1>6. Word(d, r, s)
  <2>1. Silent(w, {"usage"}) => b.d.pushed = d.pushed \/ (b.d.pushed = Meaning(s) /\ s.val \in TooLong)
    BY <1>3 DEF Word
  <2>2. Silent(w, {"session"}) => b.d.told = d.told
    BY <1>3 DEF Word
  <2>3. b.d.ping = d.ping /\ b.d.pushed \in {d.pushed, Meaning(s)} /\ b.d.told \in {d.told, s.name}
    BY DEF Word
  <2> QED BY <1>1, <1>2, <1>5, <2>1, <2>2, <2>3 DEF Word
<1> QED BY <1>3, <1>6 DEF Result, w

\* A change of the timers alone.
LEMMA WordKept ==
  ASSUME NEW s \in Desks, NEW d, NEW r, NEW e \in Bridges, Word(d, r, s),
         e.ping = r.d.ping, e.pushed = r.d.pushed, e.told = r.d.told
  PROVE  Word(d, Result(e, r.out), s)
BY DEF Word, Result

LEMMA SessionWord ==
  ASSUME NEW d \in Bridges, NEW s \in Desks
  PROVE  LET r == Session(d, s) IN
         /\ Word(d, r, s) /\ r.d.told = s.name /\ r.d.pushed = d.pushed
         /\ r.d.poll = d.poll /\ r.d.fast = d.fast
<1> DEFINE e == [d EXCEPT !.told = s.name]
           o == IF s.name # d.told THEN <<SessionMsg(s.name)>> ELSE <<>>
<1>1. /\ e \in Bridges /\ e.told = s.name /\ e.pushed = d.pushed /\ e.ping = d.ping
      /\ e.poll = d.poll /\ e.fast = d.fast
  BY DEF Bridges, Desks
<1>2. o \in Seq(MsgsDown)
  <2>1. SessionMsg(s.name) \in MsgsDown
    BY DEF SessionMsg, MsgsDown, Desks
  <2> QED BY <2>1
<1>3. /\ \A i \in DOMAIN o : o[i].t = "session" /\ o[i].label = s.name
      /\ Silent(o, {"session"}) => s.name = d.told
  BY DEF SessionMsg, Silent
<1> HIDE DEF e, o
<1>4. Word(d, [d |-> e, out |-> o], s)
  BY <1>1, <1>2, <1>3 DEF Word
<1>5. Session(d, s) = [d |-> e, out |-> o]
  BY DEF Session, Result, e, o
<1> QED BY <1>1, <1>4, <1>5

LEMMA UsageWord ==
  ASSUME NEW d \in Bridges, NEW s \in Desks, s.val \in Readings
  PROVE  LET r == SendUsage(d, s) IN
         /\ Word(d, r, s) /\ Known(r.d, s) /\ r.d.poll = d.poll /\ r.d.fast = d.fast
         /\ s.val \in Sendable => ~Silent(r.out, Verdicts)
<1> DEFINE e == [d EXCEPT !.pushed = Meaning(s)]
           o == IF s.val \in TooLong THEN <<>> ELSE <<Reading(s)>>
           n == Session(e, s)
<1>1. Meaning(s) \in Pushable
  <2>1. Stale(s) \in BOOLEAN /\ s.act \in Acts
    BY DEF Stale, Desks
  <2> QED BY <2>1 DEF Meaning, Pushable
<1>2. /\ e \in Bridges /\ e.pushed = Meaning(s) /\ e.told = d.told /\ e.ping = d.ping
      /\ e.poll = d.poll /\ e.fast = d.fast
  BY <1>1 DEF Bridges
<1>3. o \in Seq(MsgsDown)
  <2>1. Reading(s) \in MsgsDown
    BY ReadingHonest, HonestLines
  <2> QED BY <2>1
<1>4. /\ \A i \in DOMAIN o : o[i] = Reading(s) /\ o[i].t = "usage" /\ s.val \in Sendable
      /\ Silent(o, {"usage"}) => s.val \in TooLong
      /\ s.val \in Sendable => ~Silent(o, Verdicts)
  <2>1. CASE s.val \in TooLong
    BY <2>1 DEF Sendable
  <2>2. CASE s.val \notin TooLong
    <3>1. o = <<Reading(s)>> /\ Reading(s).t = "usage" /\ s.val \in Sendable
      BY <2>2, ReadingSays DEF Sendable
    <3> QED BY <3>1 DEF Silent, Verdicts
  <2> QED BY <2>1, <2>2
<1> HIDE DEF o, e
<1>5. Word(d, [d |-> e, out |-> o], s)
  BY <1>2, <1>3, <1>4 DEF Word
<1>6. Word(e, n, s) /\ n.d.told = s.name /\ n.d.pushed = e.pushed /\ n.d.poll = e.poll /\ n.d.fast = e.fast
  BY <1>2, SessionWord
<1> DEFINE a == Result(e, o)
<1>7. Word(d, a, s) /\ a.d = e /\ a.out = o
  BY <1>5 DEF Result
<1> HIDE DEF a, n
<1> DEFINE r == Result(n.d, a.out \o n.out)
<1>8. /\ Word(d, r, s)
      /\ Silent(r.out, Verdicts) => Silent(a.out, Verdicts)
  BY <1>6, <1>7, WordAfterWord
<1>9. r.d = n.d /\ SendUsage(d, s) = r
  BY <1>7 DEF SendUsage, Result, e, o, n
<1> QED BY <1>2, <1>4, <1>6, <1>7, <1>8, <1>9 DEF Known

LEMMA PollWord ==
  ASSUME NEW d \in Bridges, NEW s \in Desks
  PROVE  LET r == PollOnce(d, s) IN
         /\ Word(d, r, s) /\ r.d.poll = d.poll /\ r.d.fast = d.fast
         /\ s.val \in Readings => Known(r.d, s)
         /\ Due(s) => ~Silent(r.out, Verdicts)
<1> DEFINE usage == IF s.val = Broken THEN Result(d, <<Plain("status")>>)
                    ELSE IF s.val = Nothing THEN Result(d, <<>>)
                    ELSE SendUsage(d, s)
           a == Result(d, <<Plain("time")>>)
<1>1. /\ Word(d, usage, s) /\ usage.d.poll = d.poll /\ usage.d.fast = d.fast
      /\ s.val \in Readings => Known(usage.d, s)
      /\ Due(s) => ~Silent(usage.out, Verdicts)
  <2>1. CASE s.val = Broken
    <3> DEFINE o == <<Plain("status")>>
    <3>1. o \in Seq(MsgsDown) /\ DOMAIN o = {1} /\ o[1].t = "status"
      BY DEF Plain, MsgsDown
    <3>2. usage = [d |-> d, out |-> o]
      BY <2>1 DEF Result
    <3>3. s.val \notin Readings
      BY <2>1, TheseAreNoReadings
    <3> HIDE DEF o, usage
    <3>4. Word(d, [d |-> d, out |-> o], s) /\ ~Silent(o, Verdicts)
      BY <2>1, <3>1 DEF Word, Silent, Verdicts
    <3> QED BY <3>2, <3>3, <3>4
  <2>2. CASE s.val = Nothing
    <3>1. usage = Result(d, <<>>) /\ s.val \notin Readings /\ ~Due(s)
      BY <2>2, TheseAreNoReadings DEF Due, Sendable, Nothing, Broken
    <3> HIDE DEF usage
    <3>2. usage.d = d
      BY <3>1 DEF Result
    <3> QED BY <3>1, <3>2, NoWord
  <2>3. CASE s.val \notin {Broken, Nothing}
    <3>1. usage = SendUsage(d, s) /\ s.val \in Readings
      BY <2>3 DEF Desks
    <3> HIDE DEF usage
    <3> QED BY <2>3, <3>1, UsageWord DEF Due
  <2> QED BY <2>1, <2>2, <2>3
<1>2. Word(d, a, s) /\ a.d = d /\ a.out = <<Plain("time")>>
  BY PlainWord DEF Result
<1> HIDE DEF usage, a
<1> DEFINE r == Result(usage.d, a.out \o usage.out)
<1>3. /\ Word(d, r, s)
      /\ Silent(r.out, Verdicts) => Silent(usage.out, Verdicts)
  BY <1>1, <1>2, WordAfterWord
<1>4. r.d = usage.d /\ PollOnce(d, s) = r
  BY <1>2 DEF PollOnce, Result, usage
<1> QED BY <1>1, <1>3, <1>4

LEMMA ChangeWord ==
  ASSUME NEW d \in Bridges, NEW s \in Desks
  PROVE  LET r == PollIfChanged(d, s) IN
         /\ Word(d, r, s) /\ r.d.poll = d.poll /\ r.d.fast = d.fast
         /\ s.val \in Readings => Known(r.d, s)
<1>1. CASE s.val \in {Nothing, Broken}
  <2>1. PollIfChanged(d, s) = Result(d, <<>>) /\ s.val \notin Readings /\ Result(d, <<>>).d = d
    BY <1>1, TheseAreNoReadings DEF PollIfChanged, Result
  <2> QED BY <2>1, NoWord
<1>2. CASE s.val \notin {Nothing, Broken} /\ Meaning(s) # d.pushed
  <2>1. PollIfChanged(d, s) = SendUsage(d, s) /\ s.val \in Readings
    BY <1>2 DEF PollIfChanged, Desks
  <2> QED BY <2>1, UsageWord
<1>3. CASE s.val \notin {Nothing, Broken} /\ Meaning(s) = d.pushed
  <2>1. PollIfChanged(d, s) = Session(d, s)
    BY <1>3 DEF PollIfChanged
  <2> QED BY <1>3, <2>1, SessionWord DEF Known
<1> QED BY <1>1, <1>2, <1>3

LEMMA BeatWord ==
  ASSUME NEW d \in Bridges, NEW s \in Desks
  PROVE  LET r == Heartbeat(d, s) IN
         /\ Word(d, r, s) /\ r.d.poll = PollEvery /\ r.d.fast = d.fast
         /\ Alive(d) /\ Due(s) => ~Silent(r.out, Verdicts)
<1> DEFINE polled == IF Alive(d) THEN PollOnce(d, s) ELSE Result(d, <<>>)
           e == [polled.d EXCEPT !.poll = PollEvery]
<1>1. /\ Word(d, polled, s) /\ polled.d.fast = d.fast
      /\ Alive(d) /\ Due(s) => ~Silent(polled.out, Verdicts)
  <2>1. Word(d, Result(d, <<>>), s) /\ Result(d, <<>>).d = d
    BY NoWord DEF Result
  <2> QED BY <2>1, PollWord
<1> HIDE DEF polled
<1>2. /\ e \in Bridges /\ e.ping = polled.d.ping /\ e.pushed = polled.d.pushed
      /\ e.told = polled.d.told /\ e.poll = PollEvery /\ e.fast = polled.d.fast
  <2>1. polled.d \in Bridges /\ PollEvery \in 0 .. PollEvery
    BY <1>1, PushAssumption DEF Word
  <2> QED BY <2>1 DEF Bridges
<1> HIDE DEF e
<1> DEFINE r == Result(e, polled.out)
<1>3. Word(d, r, s)
  BY <1>1, <1>2, WordKept
<1>4. r.d = e /\ r.out = polled.out /\ Heartbeat(d, s) = r
  BY DEF Heartbeat, Result, e, polled
<1> QED BY <1>1, <1>2, <1>3, <1>4

LEMMA TickWord ==
  ASSUME NEW d \in Bridges, NEW s \in Desks
  PROVE  LET r == FastTick(d, s) IN
         /\ Word(d, r, s) /\ r.d.poll = d.poll /\ r.d.fast = FALSE
         /\ Alive(d) /\ s.val \in Readings => Known(r.d, s)
<1> DEFINE polled == IF Alive(d) THEN PollIfChanged(d, s) ELSE Result(d, <<>>)
           e == [polled.d EXCEPT !.fast = FALSE]
<1>1. /\ Word(d, polled, s) /\ polled.d.poll = d.poll
      /\ Alive(d) /\ s.val \in Readings => Known(polled.d, s)
  <2>1. Word(d, Result(d, <<>>), s) /\ Result(d, <<>>).d = d
    BY NoWord DEF Result
  <2> QED BY <2>1, ChangeWord
<1> HIDE DEF polled
<1>2. /\ e \in Bridges /\ e.ping = polled.d.ping /\ e.pushed = polled.d.pushed
      /\ e.told = polled.d.told /\ e.poll = polled.d.poll /\ e.fast = FALSE
  <2>1. polled.d \in Bridges
    BY <1>1 DEF Word
  <2> QED BY <2>1 DEF Bridges
<1> HIDE DEF e
<1> DEFINE r == Result(e, polled.out)
<1>3. Word(d, r, s)
  BY <1>1, <1>2, WordKept
<1>4. r.d = e /\ r.out = polled.out /\ FastTick(d, s) = r
  BY DEF FastTick, Result, e, polled
<1> QED BY <1>1, <1>2, <1>3, <1>4 DEF Known

LEMMA TurnWord ==
  ASSUME NEW d \in Bridges, NEW s \in Desks
  PROVE  LET r == Turn(d, s) IN
         /\ Word(d, r, s) /\ r.d.fast = FALSE
         /\ r.d.poll = IF d.poll = 0 THEN PollEvery ELSE d.poll
         /\ Alive(d) /\ s.val \in Readings => Known(r.d, s)
         /\ Alive(d) /\ d.poll = 0 /\ Due(s) => ~Silent(r.out, Verdicts)
<1> DEFINE beat == IF d.poll = 0 THEN Heartbeat(d, s) ELSE Result(d, <<>>)
           tick == FastTick(beat.d, s)
<1>1. /\ Word(d, beat, s)
      /\ beat.d.poll = IF d.poll = 0 THEN PollEvery ELSE d.poll
      /\ Alive(d) /\ d.poll = 0 /\ Due(s) => ~Silent(beat.out, Verdicts)
  <2>1. Word(d, Result(d, <<>>), s) /\ Result(d, <<>>).d = d
    BY NoWord DEF Result
  <2> QED BY <2>1, BeatWord
<1> HIDE DEF beat
<1>2. beat.d \in Bridges /\ (Alive(d) <=> Alive(beat.d))
  BY <1>1 DEF Word, Alive
<1>3. /\ Word(beat.d, tick, s) /\ tick.d.poll = beat.d.poll /\ tick.d.fast = FALSE
      /\ Alive(d) /\ s.val \in Readings => Known(tick.d, s)
  BY <1>2, TickWord
<1> HIDE DEF tick
<1> DEFINE r == Result(tick.d, beat.out \o tick.out)
<1>4. /\ Word(d, r, s)
      /\ Silent(r.out, Verdicts) => Silent(beat.out, Verdicts)
  BY <1>1, <1>3, WordAfterWord
<1>5. r.d = tick.d /\ Turn(d, s) = r
  BY DEF Turn, Result, beat, tick
<1> QED BY <1>1, <1>3, <1>4, <1>5

\* A greeting says everything, the name also if it was told before.
LEMMA GreetWord ==
  ASSUME NEW d \in Bridges, NEW s \in Desks
  PROVE  LET r == Greet(d, s) IN
         /\ Word([d EXCEPT !.told = Nothing], r, s)
         /\ r.d.poll = d.poll /\ r.d.fast = d.fast /\ r.out # <<>>
         /\ s.val \in Readings => Known(r.d, s)
<1> DEFINE e == [d EXCEPT !.told = Nothing]
           polled == PollOnce(e, s)
           a == Result(e, <<Plain("welcome")>>)
<1>1. e \in Bridges /\ e.poll = d.poll /\ e.fast = d.fast
  BY DEF Bridges
<1>2. /\ Word(e, polled, s) /\ polled.d.poll = d.poll /\ polled.d.fast = d.fast
      /\ s.val \in Readings => Known(polled.d, s)
  BY <1>1, PollWord
<1>3. Word(e, a, s) /\ a.d = e /\ a.out = <<Plain("welcome")>>
  BY <1>1, PlainWord DEF Result
<1> HIDE DEF e, polled, a
<1> DEFINE r == Result(polled.d, a.out \o polled.out)
<1>4. Word(e, r, s)
  BY <1>2, <1>3, WordAfterWord
<1>5. r.d = polled.d /\ Greet(d, s) = r
  BY <1>3 DEF Greet, Result, e, polled
<1>6. r.out # <<>>
  <2> DEFINE o == polled.out
  <2>1. o \in Seq(MsgsDown)
    BY <1>2 DEF Word
  <2> HIDE DEF o
  <2>2. <<Plain("welcome")>> \o o # <<>>
    BY <2>1
  <2> QED BY <1>3, <2>2 DEF Result, o
<1> QED BY <1>2, <1>4, <1>5, <1>6 DEF e

-----------------------------------------------------------------------------
(* What is said stays to be heard.                                           *)

LEMMA SpeechShown ==
  ASSUME toBoard \in Seq(MsgsDown), desk \in Desks, PushShown, NameShown,
         NEW d, NEW r, Word(d, r, desk),
         d.pushed \in {bridge.pushed, <<>>}, d.told \in {bridge.told, Nothing},
         bridge' = r.d, toBoard' = toBoard \o r.out, UNCHANGED <<board, missing>>
  PROVE  PushShown' /\ NameShown'
<1> DEFINE o == r.out
           w == toBoard \o o
           uses == {"usage"}
           names == {"session"}
<1>1. o \in Seq(MsgsDown)
  BY DEF Word
<1>2. \A ts : SecondDecides(toBoard, o, w, ts)
  <2> HIDE DEF o
  <2> QED BY <1>1, LastOfJoined
<1>3. toBoard' = w
  OBVIOUS
<1> HIDE DEF w
<1>4. PushShown'
  <2> SUFFICES ASSUME r.d.pushed # <<>>, r.d.pushed[1] \notin TooLong
               PROVE  /\ \A i \in DOMAIN w : Last(w, uses, i) => Meant(w[i]) = r.d.pushed
                      /\ Silent(w, uses) => "usage" \in missing \/ Shown(board) = r.d.pushed
    BY <1>3 DEF PushShown
  <2>1. Silent(o, uses) => d.pushed = r.d.pushed /\ bridge.pushed = r.d.pushed
    BY ReadingSays DEF Word
  <2>2. ASSUME NEW i \in DOMAIN w, Last(w, uses, i)
        PROVE  Meant(w[i]) = r.d.pushed
    <3>1. CASE \E j \in DOMAIN o : Last(o, uses, j) /\ w[i] = o[j]
      <4>1. PICK j \in DOMAIN o : Last(o, uses, j) /\ w[i] = o[j]
        BY <3>1
      <4>2. o[j] = Reading(desk) /\ r.d.pushed = Meaning(desk)
        BY <4>1 DEF Last, Word
      <4> QED BY <4>1, <4>2, ReadingSays
    <3>2. CASE Silent(o, uses) /\ \E j \in DOMAIN toBoard : Last(toBoard, uses, j) /\ w[i] = toBoard[j]
      BY <2>1, <3>2 DEF PushShown
    <3> QED BY <1>2, <2>2, <3>1, <3>2 DEF SecondDecides
  <2>3. Silent(w, uses) => "usage" \in missing \/ Shown(board) = r.d.pushed
    BY <1>2, <2>1 DEF PushShown, SecondDecides
  <2> QED BY <2>2, <2>3
<1>5. NameShown'
  <2> SUFFICES ASSUME r.d.told # Nothing
               PROVE  /\ \A i \in DOMAIN w : Last(w, names, i) => w[i].label = r.d.told
                      /\ Silent(w, names) => "session" \in missing \/ board.label = r.d.told
    BY <1>3 DEF NameShown
  <2>1. Silent(o, names) => bridge.told = r.d.told
    BY DEF Word
  <2>2. ASSUME NEW i \in DOMAIN w, Last(w, names, i)
        PROVE  w[i].label = r.d.told
    <3>1. CASE \E j \in DOMAIN o : Last(o, names, j) /\ w[i] = o[j]
      <4>1. PICK j \in DOMAIN o : Last(o, names, j) /\ w[i] = o[j]
        BY <3>1
      <4>2. o[j].label = desk.name /\ r.d.told = desk.name
        BY <4>1 DEF Last, Word
      <4> QED BY <4>1, <4>2
    <3>2. CASE Silent(o, names) /\ \E j \in DOMAIN toBoard : Last(toBoard, names, j) /\ w[i] = toBoard[j]
      BY <2>1, <3>2 DEF NameShown
    <3> QED BY <1>2, <2>2, <3>1, <3>2 DEF SecondDecides
  <2>3. Silent(w, names) => "session" \in missing \/ board.label = r.d.told
    BY <1>2, <2>1 DEF NameShown, SecondDecides
  <2> QED BY <2>2, <2>3
<1> QED BY <1>4, <1>5

\* What is said of the desk now is right, so it can only improve on the rest.
LEMMA SpeechSaid ==
  ASSUME toBoard \in Seq(MsgsDown), desk \in Desks, NEW d, NEW r, Word(d, r, desk),
         IsSaid \/ ~Silent(r.out, Verdicts),
         toBoard' = toBoard \o r.out, UNCHANGED <<board, desk>>
  PROVE  IsSaid'
<1> DEFINE o == r.out
           w == toBoard \o o
<1>1. o \in Seq(MsgsDown)
  BY DEF Word
<1>2. SecondDecides(toBoard, o, w, Verdicts)
  <2> HIDE DEF o
  <2> QED BY <1>1, LastOfJoined
<1>3. toBoard' = w
  OBVIOUS
<1> HIDE DEF w
<1>4. ASSUME NEW i \in DOMAIN w, Last(w, Verdicts, i)
      PROVE  /\ desk.val \in Sendable => LineSays(w[i], desk)
             /\ desk.val = Broken => w[i].t = "status"
  <2>1. CASE \E j \in DOMAIN o : Last(o, Verdicts, j) /\ w[i] = o[j]
    <3>1. PICK j \in DOMAIN o : Last(o, Verdicts, j) /\ w[i] = o[j]
      BY <2>1
    <3>2. o[j].t \in {"usage", "status"}
      BY <3>1 DEF Last, Verdicts
    <3>3. Broken \notin Sendable
      BY TheseAreNoReadings DEF Sendable
    <3>4. /\ o[j].t = "usage" => o[j] = Reading(desk) /\ desk.val \in Sendable
          /\ o[j].t = "status" => desk.val = Broken
      BY DEF Word
    <3> QED BY <3>1, <3>2, <3>3, <3>4, ReadingSays
  <2>2. CASE Silent(o, Verdicts) /\ \E j \in DOMAIN toBoard : Last(toBoard, Verdicts, j) /\ w[i] = toBoard[j]
    BY <2>2 DEF IsSaid
  <2> QED BY <1>2, <1>4, <2>1, <2>2 DEF SecondDecides
<1>5. Silent(w, Verdicts) => /\ desk.val \in Sendable => BoardSays(board, desk)
                             /\ desk.val = Broken => board.status # "ok"
  BY <1>2 DEF IsSaid, SecondDecides
<1> QED BY <1>3, <1>4, <1>5 DEF IsSaid

\* The times of the link.
LEMMA Times ==
  ASSUME TypeOK
  PROVE  /\ PollEvery \in Nat /\ PollEvery > 0 /\ Liveness \in Nat /\ Liveness > 0
         /\ HostTimeout \in Nat /\ HostTimeout > 0 /\ Settling = 2 * PollEvery + 1 /\ Settling \in Nat
         /\ bridge.poll \in 0 .. PollEvery /\ bridge.ping \in 0 .. Liveness + 1
         /\ still \in 0 .. Settling /\ calm \in 0 .. Settling
         /\ SinceBeat \in 0 .. PollEvery
         /\ board.heard \in 0 .. HostTimeout + 1 /\ bridge.fast \in BOOLEAN /\ board.due \in BOOLEAN
         /\ board.seen \in BOOLEAN
<1>1. bridge.poll \in 0 .. PollEvery /\ bridge.ping \in 0 .. Liveness + 1 /\ bridge.fast \in BOOLEAN
  BY DEF TypeOK, Bridges
<1>2. board.heard \in 0 .. HostTimeout + 1 /\ board.due \in BOOLEAN /\ board.seen \in BOOLEAN
  BY DEF TypeOK, Boards
<1>3. PollEvery \in Nat /\ PollEvery > 0 /\ Liveness \in Nat /\ Liveness > 0 /\ HostTimeout \in Nat /\ HostTimeout > 0
  BY PushAssumption, PanelAssumption
<1>4. Settling = 2 * PollEvery + 1 /\ Settling \in Nat
  BY <1>3 DEF Settling
<1>5. SinceBeat \in 0 .. PollEvery
  BY <1>1, <1>3 DEF SinceBeat
<1> QED BY <1>1, <1>2, <1>3, <1>4, <1>5 DEF TypeOK

\* While the calm is young, nothing has been promised yet.
LEMMA Young ==
  ASSUME TypeOK'
  PROVE  /\ calm' = 0 => (CalmIsUp /\ Answered /\ InTouch /\ Polled /\ Said)'
         /\ calm' < 2 => (InTouch /\ Polled /\ Said)'
         /\ still' = 0 => (Polled /\ Said)'
<1>1. calm' \in Nat /\ still' \in Nat /\ SinceBeat' \in Nat
  <2>1. calm' \in 0 .. Settling /\ still' \in 0 .. Settling /\ bridge'.poll \in 0 .. PollEvery
    BY DEF TypeOK, Bridges
  <2>2. PollEvery \in Nat /\ Settling \in Nat
    BY PushAssumption DEF Settling
  <2> QED BY <2>1, <2>2 DEF SinceBeat
<1>2. calm' = 0 => CalmIsUp' /\ Answered'
  BY <1>1 DEF CalmIsUp, Answered
<1> DEFINE since == SinceBeat'
<1>5. Said' <=> (calm' >= since + 2 /\ still' > since => IsSaid')
  BY DEF Said
<1>6. since \in Nat
  BY <1>1
<1> HIDE DEF since
<1>7. (calm' < 2 \/ still' = 0) => Said'
  BY <1>1, <1>5, <1>6
<1>3. calm' < 2 => (InTouch /\ Polled /\ Said)'
  BY <1>1, <1>7 DEF InTouch, Polled
<1>4. still' = 0 => (Polled /\ Said)'
  BY <1>1, <1>7 DEF Polled
<1> QED BY <1>1, <1>2, <1>3, <1>4

-----------------------------------------------------------------------------
(* Steps, again.                                                             *)

\* News makes every promise begin anew.
LEMMA DeskNews ==
  ASSUME TypeOK', News, NewReading \/ Activity \/ NewName, TypeOK
  PROVE  News'
<1>1. still' = 0 /\ UNCHANGED <<board, bridge, daemon, link, calm, missing, farewell>>
  BY DEF NewReading, Activity, NewName, DeskHasNews
<1>2. desk'.active = 0
  <2>1. desk \in Desks
    BY DEF TypeOK
  <2>2. ASSUME NEW v PROVE [desk EXCEPT !.val = v, !.age = 0, !.active = 0].active = 0
    BY <2>1 DEF Desks
  <2>3. ASSUME NEW a PROVE [desk EXCEPT !.act = a, !.active = 0].active = 0
    BY <2>1 DEF Desks
  <2>4. ASSUME NEW n PROVE [desk EXCEPT !.name = n, !.active = 0].active = 0
    BY <2>1 DEF Desks
  <2> QED BY <2>2, <2>3, <2>4 DEF NewReading, Activity, NewName, DeskHasNews
<1>3. (PushShown /\ NameShown /\ CalmIsUp /\ TurnsSet /\ Answered /\ InTouch)'
  BY <1>1 DEF News, PushShown, NameShown, CalmIsUp, TurnsSet, Answered, InTouch, link
<1>4. (Polled /\ Said)'
  BY <1>1, Young
<1>5. DeskSpoke'
  BY <1>2 DEF DeskSpoke
<1> QED BY <1>3, <1>4, <1>5 DEF News

\* The daemon is heard every interval, so it may speak.
LEMMA StillAlive ==
  ASSUME TypeOK, InTouch, calm >= 2
  PROVE  Alive(bridge)
BY Times DEF InTouch, Alive

LEMMA PollsNews ==
  ASSUME TypeOK, TypeOK', News, DaemonPolls
  PROVE  News'
<1> DEFINE r == Turn(bridge, desk)
<1>1. bridge \in Bridges /\ desk \in Desks /\ toBoard \in Seq(MsgsDown)
  BY DEF TypeOK
<1>2. /\ Word(bridge, r, desk) /\ r.d.fast = FALSE
      /\ r.d.poll = IF bridge.poll = 0 THEN PollEvery ELSE bridge.poll
      /\ Alive(bridge) /\ desk.val \in Readings => Known(r.d, desk)
      /\ Alive(bridge) /\ bridge.poll = 0 /\ Due(desk) => ~Silent(r.out, Verdicts)
  BY <1>1, TurnWord
<1>3. /\ bridge' = r.d /\ toBoard' = toBoard \o r.out
      /\ UNCHANGED <<desk, board, daemon, toDaemon, still, calm, missing>>
  BY DEF DaemonPolls, Writes, history
<1> HIDE DEF r
<1>4. PushShown' /\ NameShown'
  BY <1>1, <1>2, <1>3, SpeechShown DEF News
<1>5. CalmIsUp' /\ DeskSpoke'
  BY <1>3 DEF News, CalmIsUp, DeskSpoke
<1>6. TurnsSet'
  <2>1. PollEvery > 0 /\ bridge.poll \in Nat
    BY Times
  <2>2. bridge'.poll > 0
    BY <1>2, <1>3, <2>1
  <2> QED BY <2>2 DEF TurnsSet
<1>7. bridge'.ping = bridge.ping
  BY <1>2, <1>3 DEF Word
<1>8. toBoard # <<>> => toBoard' # <<>>
  <2> DEFINE o == r.out
  <2>1. o \in Seq(MsgsDown)
    BY <1>2 DEF Word
  <2>2. toBoard' = toBoard \o o
    BY <1>3
  <2> HIDE DEF o
  <2> QED BY <1>1, <2>1, <2>2
<1>9. (Answered /\ InTouch)'
  BY <1>3, <1>7, <1>8 DEF News, Answered, InTouch
<1>10. calm >= 2 => Alive(bridge)
  BY StillAlive DEF News
<1>11. Polled'
  BY <1>2, <1>3, <1>10 DEF Polled, Known
<1>12. Said'
  <2> SUFFICES ASSUME (calm >= SinceBeat + 2)', (still > SinceBeat)' PROVE IsSaid'
    BY DEF Said
  <2>1. calm >= 2 /\ calm >= SinceBeat' + 2 /\ still > SinceBeat' /\ SinceBeat' \in Nat /\ calm \in Nat /\ still \in Nat
    <3>1. SinceBeat' \in Nat
      <4>1. bridge'.poll \in 0 .. PollEvery
        BY DEF TypeOK, Bridges
      <4> QED BY <4>1, Times DEF SinceBeat
    <3> QED BY <1>3, <3>1, Times
  <2>2. CASE bridge.poll = 0 /\ Due(desk)
    BY <1>1, <1>2, <1>3, <1>10, <2>1, <2>2, SpeechSaid
  <2>3. CASE bridge.poll = 0 /\ ~Due(desk)
    <3>1. desk'.val \notin Sendable /\ desk'.val # Broken
      BY <1>3, <2>3 DEF Due
    <3> QED BY <3>1 DEF IsSaid
  <2>4. CASE bridge.poll # 0
    <3>1. SinceBeat' = SinceBeat
      BY <1>2, <1>3, <2>4 DEF SinceBeat
    <3>2. IsSaid
      BY <2>1, <3>1 DEF News, Said
    <3> QED BY <1>1, <1>2, <1>3, <3>2, SpeechSaid
  <2> QED BY <2>2, <2>3, <2>4
<1> QED BY <1>4, <1>5, <1>6, <1>9, <1>11, <1>12 DEF News

\* What comes to the daemon is answered at once.
LEMMA MessageWord ==
  ASSUME NEW b \in Bridges, NEW s \in Desks, NEW t \in {"ping", "hello"}
  PROVE  LET r == OnMessage(b, s, t) IN
         /\ \E d : Word(d, r, s) /\ d.pushed = b.pushed /\ d.told \in {b.told, Nothing}
         /\ r.d.poll = b.poll /\ r.d.fast = b.fast /\ r.out # <<>>
         /\ r.d.ping = IF t = "ping" THEN 0 ELSE b.ping
         /\ s.val \in Readings => Known(r.d, s) \/ (r.d.pushed = b.pushed /\ r.d.told = b.told)
<1>1. CASE t = "hello"
  <2> DEFINE d == [b EXCEPT !.told = Nothing]
             r == Greet(b, s)
  <2>1. /\ Word(d, r, s) /\ r.d.poll = b.poll /\ r.d.fast = b.fast /\ r.out # <<>>
        /\ s.val \in Readings => Known(r.d, s)
    BY GreetWord
  <2>2. d.pushed = b.pushed /\ d.told = Nothing /\ d.ping = b.ping
    BY DEF Bridges
  <2>3. OnMessage(b, s, t) = r
    BY <1>1 DEF OnMessage
  <2> HIDE DEF d, r
  <2>4. r.d.ping = b.ping
    BY <2>1, <2>2 DEF Word
  <2> QED BY <1>1, <2>1, <2>2, <2>3, <2>4
<1>2. CASE t = "ping"
  <2> DEFINE d == [b EXCEPT !.ping = 0]
             r == Result(d, <<Plain("pong")>>)
  <2>1. /\ d \in Bridges /\ d.pushed = b.pushed /\ d.told = b.told /\ d.ping = 0
        /\ d.poll = b.poll /\ d.fast = b.fast
    BY PushAssumption DEF Bridges
  <2>2. OnMessage(b, s, t) = r
    BY <1>2 DEF OnMessage, OnPing
  <2> HIDE DEF d
  <2>3. Word(d, r, s) /\ r.d = d /\ r.out = <<Plain("pong")>>
    BY <2>1, PlainWord DEF Result
  <2>4. r.out # <<>>
    BY <2>3
  <2> HIDE DEF r
  <2> QED BY <1>2, <2>1, <2>2, <2>3, <2>4
<1> QED BY <1>1, <1>2

\* A ping under way is the first, which is read, or stays under way.
LEMMA PingsInTail ==
  ASSUME NEW q \in Seq({"ping", "hello"}), q # <<>>, NEW i \in DOMAIN q, q[i] = "ping"
  PROVE  Head(q) = "ping" \/ \E j \in DOMAIN Tail(q) : Tail(q)[j] = "ping"
<1>1. CASE i = 1
  BY <1>1
<1>2. CASE i # 1
  <2>1. i - 1 \in DOMAIN Tail(q) /\ Tail(q)[i - 1] = q[i]
    BY <1>2
  <2> QED BY <2>1
<1> QED BY <1>1, <1>2

LEMMA MessageNews ==
  ASSUME TypeOK, TypeOK', News, DaemonReads
  PROVE  News'
<1> DEFINE t == Head(toDaemon)
           r == OnMessage(bridge, desk, t)
<1>1. /\ bridge \in Bridges /\ desk \in Desks /\ toBoard \in Seq(MsgsDown)
      /\ toDaemon \in Seq({"ping", "hello"}) /\ toDaemon # <<>> /\ t \in {"ping", "hello"}
  <2>1. toDaemon \in Seq({"ping", "hello"}) /\ toDaemon # <<>>
    BY DEF TypeOK, DaemonReads
  <2> QED BY <2>1 DEF TypeOK
<1>2. /\ \E d : Word(d, r, desk) /\ d.pushed = bridge.pushed /\ d.told \in {bridge.told, Nothing}
      /\ r.d.poll = bridge.poll /\ r.d.fast = bridge.fast /\ r.out # <<>>
      /\ r.d.ping = IF t = "ping" THEN 0 ELSE bridge.ping
      /\ desk.val \in Readings =>
           Known(r.d, desk) \/ (r.d.pushed = bridge.pushed /\ r.d.told = bridge.told)
  <2> HIDE DEF t
  <2> QED BY <1>1, MessageWord
<1>3. /\ bridge' = r.d /\ toBoard' = toBoard \o r.out /\ toDaemon' = Tail(toDaemon)
      /\ UNCHANGED <<desk, board, daemon, still, calm, missing>>
  BY DEF DaemonReads, Writes, history
<1> HIDE DEF r
<1>4. PICK d : Word(d, r, desk) /\ d.pushed = bridge.pushed /\ d.told \in {bridge.told, Nothing}
  BY <1>2
<1>5. PushShown' /\ NameShown'
  BY <1>1, <1>3, <1>4, SpeechShown DEF News
<1>6. (CalmIsUp /\ DeskSpoke /\ TurnsSet)'
  BY <1>2, <1>3 DEF News, CalmIsUp, DeskSpoke, TurnsSet
<1>7. toBoard' # <<>>
  <2> DEFINE o == r.out
  <2>1. o \in Seq(MsgsDown) /\ o # <<>>
    BY <1>2, <1>4 DEF Word
  <2>2. toBoard' = toBoard \o o
    BY <1>3
  <2> HIDE DEF o
  <2> QED BY <1>1, <2>1, <2>2
<1>8. Answered'
  <2> SUFFICES ASSUME calm >= 1, ~board.due
               PROVE  \/ \E i \in DOMAIN toDaemon' : toDaemon'[i] = "ping"
                      \/ bridge'.ping = 0
    BY <1>3, <1>7 DEF Answered
  <2>1. CASE \E i \in DOMAIN toDaemon : toDaemon[i] = "ping"
    <3>1. t = "ping" \/ \E j \in DOMAIN Tail(toDaemon) : Tail(toDaemon)[j] = "ping"
      BY <1>1, <2>1, PingsInTail
    <3> QED BY <1>2, <1>3, <3>1
  <2>2. CASE bridge.ping = 0
    BY <1>2, <1>3, <2>2
  <2> QED BY <2>1, <2>2 DEF News, Answered
<1>9. InTouch'
  <2>1. bridge'.ping \in {0, bridge.ping} /\ UNCHANGED <<board, calm>>
    BY <1>2, <1>3
  <2>2. bridge.ping <= 1 => bridge'.ping <= 1
    BY <2>1
  <2> QED BY <2>1, <2>2 DEF News, InTouch
<1>10. Polled'
  <2>1. Meaning(desk') = Meaning(desk)
    BY <1>3
  <2> QED BY <1>2, <1>3, <2>1 DEF News, Polled, Known
<1>11. Said'
  <2>1. SinceBeat' = SinceBeat
    BY <1>2, <1>3 DEF SinceBeat
  <2>2. IsSaid => IsSaid'
    BY <1>1, <1>3, <1>4, SpeechSaid
  <2> QED BY <1>3, <2>1, <2>2 DEF News, Said
<1> QED BY <1>5, <1>6, <1>8, <1>9, <1>10, <1>11 DEF News

-----------------------------------------------------------------------------
(* The board's steps.                                                        *)

\* What a line leaves on the board.
LEMMA DispatchShows ==
  ASSUME NEW b \in Boards, NEW m \in MsgsDown
  PROVE  LET n == Dispatch(b, m) IN
         /\ n.seen = TRUE /\ n.heard = 0 /\ n.due = b.due
         /\ m.t = "usage" => /\ n.val = m.val /\ n.old = m.stale /\ n.act = m.act /\ n.age = m.age
                             /\ n.active = ActiveOf(m) /\ n.status \in {"ok", "stale"}
         /\ m.t # "usage" => /\ n.val = b.val /\ n.old = b.old /\ n.act = b.act /\ n.age = b.age
                             /\ n.active = b.active
         /\ m.t = "session" => n.label = m.label
         /\ m.t # "session" => n.label = b.label
         /\ m.t = "status" => n.status = "error"
         /\ m.t \notin Verdicts => n.status = b.status
<1> DEFINE h == Heard(b, m)
           byes == m.t = "bye"
<1>1. h \in Boards /\ h = [b EXCEPT !.seen = TRUE, !.heard = 0, !.lost = FALSE, !.bye = byes, !.quiet = 0]
  BY HeardType DEF Heard
<1> HIDE DEF h, byes
<1>2. /\ h.seen = TRUE /\ h.heard = 0 /\ h.due = b.due /\ h.val = b.val /\ h.old = b.old
      /\ h.act = b.act /\ h.age = b.age /\ h.active = b.active /\ h.label = b.label /\ h.status = b.status
  BY <1>1 DEF Boards
<1>3. CASE m.t = "usage"
  <2>1. Dispatch(b, m) = Show(h, m)
    BY <1>3 DEF Dispatch, h
  <2> DEFINE st == IF m.stale \/ m.val \in OldSecond THEN "stale" ELSE "ok"
  <2>2. st \in {"ok", "stale"}
    OBVIOUS
  <2>3. Show(h, m) = [h EXCEPT !.have = TRUE, !.val = m.val, !.old = m.stale, !.act = m.act,
                               !.age = m.age, !.active = ActiveOf(m), !.status = st]
    BY DEF Show, ActiveOf
  <2> DEFINE n == Show(h, m)
             ac == ActiveOf(m)
  <2> HIDE DEF st, ac, n
  <2>4. /\ n.seen = h.seen /\ n.heard = h.heard /\ n.due = h.due
        /\ n.val = m.val /\ n.old = m.stale /\ n.act = m.act /\ n.age = m.age
        /\ n.active = ac /\ n.status = st /\ n.label = h.label
    <3>0. n = [h EXCEPT !.have = TRUE, !.val = m.val, !.old = m.stale, !.act = m.act,
                        !.age = m.age, !.active = ac, !.status = st]
      BY <2>3 DEF n, ac
    <3> HIDE DEF n
    <3>1. n.seen = h.seen /\ n.heard = h.heard /\ n.due = h.due /\ n.label = h.label
      BY <1>1, <3>0 DEF Boards
    <3>2. n.val = m.val /\ n.act = m.act /\ n.age = m.age
      BY <1>1, <3>0 DEF Boards
    <3>3. n.old = m.stale
      BY <1>1, <3>0 DEF Boards
    <3>4. n.active = ac /\ n.status = st
      BY <1>1, <3>0 DEF Boards
    <3> QED BY <3>1, <3>2, <3>3, <3>4
  <2> QED BY <1>2, <1>3, <2>1, <2>2, <2>4 DEF Verdicts, n, ac
<1>4. CASE m.t = "session"
  <2>1. Dispatch(b, m) = [h EXCEPT !.label = m.label]
    BY <1>4 DEF Dispatch, h
  <2> QED BY <1>1, <1>2, <1>4, <2>1 DEF Boards, Verdicts
<1>5. CASE m.t = "status"
  <2>1. Dispatch(b, m) = [h EXCEPT !.status = "error"]
    BY <1>5 DEF Dispatch, h
  <2> QED BY <1>1, <1>2, <1>5, <2>1 DEF Boards, Verdicts
<1>6. CASE m.t \notin {"usage", "session", "status"}
  <2>1. Dispatch(b, m) = h
    BY <1>6 DEF Dispatch, h
  <2> QED BY <1>2, <1>6, <2>1 DEF Verdicts
<1> QED BY <1>3, <1>4, <1>5, <1>6

\* A line is heard: the glass now says what the line did.
LEMMA ReadsNews ==
  ASSUME TypeOK, TypeOK', News, BoardReads
  PROVE  News'
<1> DEFINE m == Head(toBoard)
<1>1. /\ toBoard \in Seq(MsgsDown) /\ toBoard # <<>> /\ m \in MsgsDown /\ board \in Boards
  <2>1. toBoard \in Seq(MsgsDown) /\ toBoard # <<>>
    BY DEF TypeOK, BoardReads
  <2> QED BY <2>1 DEF TypeOK
<1>2. /\ board' = Dispatch(board, m) /\ toBoard' = Tail(toBoard) /\ missing' = missing \ Marks(m)
      /\ UNCHANGED <<desk, bridge, daemon, toDaemon, still, calm>>
  BY DEF BoardReads
<1>3. \A ts : RestDecides(toBoard, m, toBoard', ts)
  BY <1>1, <1>2, LastOfTail
<1> HIDE DEF m
<1> DEFINE n == board'
<1>4. /\ n.seen = TRUE /\ n.heard = 0 /\ n.due = board.due
      /\ m.t = "usage" => /\ n.val = m.val /\ n.old = m.stale /\ n.act = m.act /\ n.age = m.age
                          /\ n.active = ActiveOf(m) /\ n.status \in {"ok", "stale"}
      /\ m.t # "usage" => /\ n.val = board.val /\ n.old = board.old /\ n.act = board.act
                          /\ n.age = board.age /\ n.active = board.active
      /\ m.t = "session" => n.label = m.label
      /\ m.t # "session" => n.label = board.label
      /\ m.t = "status" => n.status = "error"
      /\ m.t \notin Verdicts => n.status = board.status
  BY <1>1, <1>2, DispatchShows
<1>5. PushShown'
  <2> SUFFICES ASSUME bridge.pushed # <<>>, bridge.pushed[1] \notin TooLong
               PROVE  /\ \A i \in DOMAIN toBoard' : Last(toBoard', {"usage"}, i) => Meant(toBoard'[i]) = bridge.pushed
                      /\ Silent(toBoard', {"usage"}) => "usage" \in missing' \/ Shown(n) = bridge.pushed
    BY <1>2 DEF PushShown
  <2>1. \A i \in DOMAIN toBoard' : Last(toBoard', {"usage"}, i) => Meant(toBoard'[i]) = bridge.pushed
    <3>1. RestDecides(toBoard, m, toBoard', {"usage"})
      BY <1>3
    <3>2. \A j \in DOMAIN toBoard : Last(toBoard, {"usage"}, j) => Meant(toBoard[j]) = bridge.pushed
      BY DEF News, PushShown
    <3> QED BY <3>1, <3>2 DEF RestDecides
  <2>2. ASSUME Silent(toBoard', {"usage"})
        PROVE  "usage" \in missing' \/ Shown(n) = bridge.pushed
    <3>1. CASE Silent(toBoard, {"usage"}) /\ m.t # "usage"
      <4>1. "usage" \in missing \/ Shown(board) = bridge.pushed
        BY <3>1 DEF News, PushShown
      <4>2. Shown(n) = Shown(board)
        BY <1>4, <3>1 DEF Shown
      <4> QED BY <1>2, <3>1, <4>1, <4>2 DEF Marks
    <3>2. CASE 1 \in DOMAIN toBoard /\ Last(toBoard, {"usage"}, 1) /\ toBoard[1] = m /\ m.t = "usage"
      <4>1. Meant(m) = bridge.pushed
        BY <3>2 DEF News, PushShown
      <4>2. Shown(n) = Meant(m)
        BY <1>4, <3>2 DEF Shown, Meant
      <4> QED BY <4>1, <4>2
    <3> QED BY <1>3, <2>2, <3>1, <3>2 DEF RestDecides
  <2> QED BY <2>1, <2>2
<1>6. NameShown'
  <2> SUFFICES ASSUME bridge.told # Nothing
               PROVE  /\ \A i \in DOMAIN toBoard' : Last(toBoard', {"session"}, i) => toBoard'[i].label = bridge.told
                      /\ Silent(toBoard', {"session"}) => "session" \in missing' \/ n.label = bridge.told
    BY <1>2 DEF NameShown
  <2>1. \A i \in DOMAIN toBoard' : Last(toBoard', {"session"}, i) => toBoard'[i].label = bridge.told
    BY <1>3 DEF News, NameShown, RestDecides
  <2>2. ASSUME Silent(toBoard', {"session"})
        PROVE  "session" \in missing' \/ n.label = bridge.told
    <3>1. CASE Silent(toBoard, {"session"}) /\ m.t # "session"
      BY <1>2, <1>4, <3>1 DEF News, NameShown, Marks
    <3>2. CASE 1 \in DOMAIN toBoard /\ Last(toBoard, {"session"}, 1) /\ toBoard[1] = m /\ m.t = "session"
      BY <1>4, <3>2 DEF News, NameShown
    <3> QED BY <1>3, <2>2, <3>1, <3>2 DEF RestDecides
  <2> QED BY <2>1, <2>2
<1>7. (CalmIsUp /\ TurnsSet /\ DeskSpoke)'
  BY <1>2 DEF News, CalmIsUp, TurnsSet, DeskSpoke
<1>8. Answered' /\ InTouch'
  BY <1>2, <1>4 DEF News, Answered, InTouch
<1>9. Polled'
  <2>1. Meaning(desk') = Meaning(desk)
    BY <1>2
  <2> QED BY <1>2, <2>1 DEF News, Polled
<1>10. Said'
  <2>1. SinceBeat' = SinceBeat
    BY <1>2 DEF SinceBeat
  <2>2. ASSUME IsSaid PROVE IsSaid'
    <3>1. \A i \in DOMAIN toBoard' : Last(toBoard', Verdicts, i) =>
            /\ desk.val \in Sendable => LineSays(toBoard'[i], desk)
            /\ desk.val = Broken => toBoard'[i].t = "status"
      BY <1>3, <2>2 DEF IsSaid, RestDecides
    <3>2. ASSUME Silent(toBoard', Verdicts)
          PROVE  /\ desk.val \in Sendable => BoardSays(n, desk)
                 /\ desk.val = Broken => n.status # "ok"
      <4>1. CASE Silent(toBoard, Verdicts) /\ m.t \notin Verdicts
        <5>1. m.t # "usage"
          BY <4>1 DEF Verdicts
        <5> QED BY <1>4, <2>2, <4>1, <5>1 DEF IsSaid, BoardSays
      <4>2. CASE 1 \in DOMAIN toBoard /\ Last(toBoard, Verdicts, 1) /\ toBoard[1] = m /\ m.t \in Verdicts
        <5>1. /\ desk.val \in Sendable => LineSays(m, desk)
              /\ desk.val = Broken => m.t = "status"
          BY <2>2, <4>2 DEF IsSaid
        <5>2. LineSays(m, desk) => BoardSays(n, desk)
          <6> SUFFICES ASSUME LineSays(m, desk) PROVE BoardSays(n, desk)
            OBVIOUS
          <6>1. m.active >= 0
            BY DEF News, DeskSpoke, LineSays
          <6>2. ActiveOf(m) = m.active
            BY <6>1 DEF ActiveOf
          <6> QED BY <1>4, <6>2 DEF LineSays, BoardSays
        <5> QED BY <1>4, <5>1, <5>2
      <4> QED BY <1>3, <3>2, <4>1, <4>2 DEF RestDecides
    <3> QED BY <1>2, <3>1, <3>2 DEF IsSaid
  <2> QED BY <1>2, <2>1, <2>2 DEF News, Said
<1> QED BY <1>5, <1>6, <1>7, <1>8, <1>9, <1>10 DEF News

\* What counts for the promises is the same on both boards.
Alike(b, c) ==
  /\ b.val = c.val /\ b.old = c.old /\ b.act = c.act /\ b.label = c.label
  /\ b.age = c.age /\ b.active = c.active
  /\ c.status \in {"ok", "stale"} => b.status \in {"ok", "stale"}
  /\ b.status = "ok" => c.status = "ok"

\* A step of the board alone: the promises of the line and the desk hold on.
LEMMA AlikeNews ==
  ASSUME News, Alike(board', board),
         UNCHANGED <<desk, bridge, daemon, toBoard, still, calm, missing>>
  PROVE  (PushShown /\ NameShown /\ CalmIsUp /\ TurnsSet /\ Polled /\ Said /\ DeskSpoke)'
<1>1. Shown(board') = Shown(board)
  BY DEF Alike, Shown
<1>2. PushShown' /\ NameShown'
  BY <1>1 DEF News, PushShown, NameShown, Alike
<1>3. (CalmIsUp /\ TurnsSet /\ DeskSpoke)'
  BY DEF News, CalmIsUp, TurnsSet, DeskSpoke
<1>4. Polled'
  <2>1. Meaning(desk') = Meaning(desk)
    OBVIOUS
  <2> QED BY <2>1 DEF News, Polled
<1>5. Said'
  <2>1. SinceBeat' = SinceBeat
    BY DEF SinceBeat
  <2>2. ASSUME IsSaid PROVE IsSaid'
    <3>1. BoardSays(board, desk) => BoardSays(board', desk)
      BY DEF Alike, BoardSays
    <3> QED BY <2>2, <3>1 DEF IsSaid, Alike
  <2> QED BY <2>1, <2>2 DEF News, Said
<1> QED BY <1>2, <1>3, <1>4, <1>5

LEMMA LoopNews ==
  ASSUME TypeOK, TypeOK', News, BoardPings \/ HostGoesQuiet \/ FallsAsleep \/ WakesUp \/ OwnerActs
  PROVE  News'
<1>1. board \in Boards
  BY DEF TypeOK
<1>2. CASE BoardPings
  <2> DEFINE b == [board EXCEPT !.due = FALSE]
  <2>1. board' = b
    BY <1>2 DEF BoardPings
  <2>2. Alike(b, board) /\ b.seen = board.seen /\ b.heard = board.heard /\ b.due = FALSE
    BY <1>1 DEF Boards, Alike
  <2> HIDE DEF b
  <2>3. /\ UNCHANGED <<desk, bridge, daemon, toBoard, still, calm, missing>>
        /\ toDaemon' = IF daemon = "up" THEN Append(toDaemon, "ping") ELSE toDaemon
    BY <1>2 DEF BoardPings, history
  <2>4. Answered'
    <3> SUFFICES ASSUME calm >= 1 PROVE \E i \in DOMAIN toDaemon' : toDaemon'[i] = "ping"
      BY <2>3 DEF Answered
    <3>1. daemon = "up"
      BY Times DEF News, CalmIsUp
    <3>2. toDaemon' = Append(toDaemon, "ping") /\ toDaemon \in Seq({"ping", "hello"})
      BY <2>3, <3>1 DEF TypeOK
    <3>3. Len(toDaemon) + 1 \in DOMAIN toDaemon' /\ toDaemon'[Len(toDaemon) + 1] = "ping"
      BY <3>2
    <3> QED BY <3>3
  <2>5. InTouch'
    BY <2>1, <2>2, <2>3 DEF News, InTouch
  <2> QED BY <2>1, <2>2, <2>3, <2>4, <2>5, AlikeNews DEF News
<1>3. CASE HostGoesQuiet
  <2> DEFINE b == TimedOut(board)
  <2>1. board' = b /\ board.seen /\ board.heard > HostTimeout
    BY <1>3 DEF HostGoesQuiet, TimesOut
  <2>2. /\ b.val = board.val /\ b.old = board.old /\ b.act = board.act /\ b.label = board.label
        /\ b.age = board.age /\ b.active = board.active /\ b.due = board.due
    BY <1>1 DEF Boards, TimedOut
  <2> HIDE DEF b
  <2>3. UNCHANGED <<desk, bridge, daemon, toBoard, toDaemon, still, calm, missing>>
    BY <1>3 DEF HostGoesQuiet, link, history
  <2>4. calm' < 2
    BY <2>1, <2>3, Times DEF News, InTouch
  <2>5. (PushShown /\ NameShown)'
    <3>1. Shown(board') = Shown(board)
      BY <2>1, <2>2 DEF Shown
    <3> QED BY <2>1, <2>2, <2>3, <3>1 DEF News, PushShown, NameShown
  <2>6. Answered'
    BY <2>1, <2>2, <2>3, Times DEF News, Answered
  <2>7. (CalmIsUp /\ TurnsSet /\ DeskSpoke)'
    BY <2>3 DEF News, CalmIsUp, TurnsSet, DeskSpoke
  <2> QED BY <2>4, <2>5, <2>6, <2>7, Young DEF News
<1>4. CASE FallsAsleep \/ WakesUp \/ OwnerActs
  <2>1. /\ Alike(board', board) /\ board'.due = board.due /\ board'.seen = board.seen
        /\ board'.heard = board.heard
    <3>1. CASE FallsAsleep
      <4>1. PICK kind \in Dozes : board' = Asleep(board, kind)
        BY <3>1 DEF FallsAsleep
      <4> QED BY <1>1, <4>1 DEF Asleep, Boards, Alike
    <3>2. CASE WakesUp
      <4> DEFINE st == IF board.have /\ board.age >= StaleAfter THEN "stale" ELSE board.status
      <4>1. st \in {"stale", board.status}
        OBVIOUS
      <4>2. board' = [board EXCEPT !.doze = "no", !.peek = FALSE, !.quiet = 0, !.status = st]
        BY <3>2 DEF WakesUp, Wake
      <4> HIDE DEF st
      <4>3. board'.status = st
        BY <1>1, <4>2 DEF Boards
      <4>4. /\ board'.val = board.val /\ board'.old = board.old /\ board'.act = board.act
            /\ board'.label = board.label /\ board'.age = board.age /\ board'.active = board.active
            /\ board'.due = board.due /\ board'.seen = board.seen /\ board'.heard = board.heard
        BY <1>1, <4>2 DEF Boards
      <4> QED BY <4>1, <4>3, <4>4 DEF Alike
    <3>3. CASE OwnerActs
      <4>1. PICK x \in BOOLEAN : \/ board' = [board EXCEPT !.peek = x]
                                 \/ board' = [board EXCEPT !.settings = x]
                                 \/ board' = [board EXCEPT !.busy = x]
        BY <3>3 DEF OwnerActs, Taps, OpensSettings, ClosesSettings, UpdateBegins, UpdateEnds, User
      <4> QED BY <1>1, <4>1 DEF Boards, Alike
    <3> QED BY <1>4, <3>1, <3>2, <3>3
  <2>2. UNCHANGED <<desk, bridge, daemon, toBoard, toDaemon, still, calm, missing>>
    BY <1>4 DEF FallsAsleep, WakesUp, OwnerActs, Taps, OpensSettings, ClosesSettings, UpdateBegins,
                UpdateEnds, User, link, history
  <2>3. (Answered /\ InTouch)'
    BY <2>1, <2>2 DEF News, Answered, InTouch
  <2> QED BY <2>1, <2>2, <2>3, AlikeNews DEF News
<1> QED BY <1>2, <1>3, <1>4

\* A fault makes the calm begin anew; what it takes is noted as missing.
LEMMA FaultNews ==
  ASSUME TypeOK, TypeOK', News,
         \/ LineLost \/ LineTorn \/ PingLost \/ ComputerSleeps \/ ComputerWakes \/ DaemonStops
         \/ DaemonStarts \/ BoardResets
  PROVE  News'
<1>1. toBoard \in Seq(MsgsDown) /\ desk \in Desks /\ bridge \in Bridges
  BY DEF TypeOK
<1>2. calm' = 0 /\ UNCHANGED <<desk, still>>
  BY DEF LineLost, LineTorn, PingLost, ComputerSleeps, ComputerWakes, DaemonStops, DaemonStarts,
         BoardResets, Fault
<1>3. (CalmIsUp /\ Answered /\ InTouch /\ Polled /\ Said)'
  BY <1>2, Young
<1>4. DeskSpoke'
  BY <1>2 DEF News, DeskSpoke
<1>5. (PushShown /\ NameShown /\ TurnsSet)'
  <2>1. CASE LineLost
    <3> DEFINE m == Head(toBoard)
    <3>1. /\ toBoard # <<>> /\ toBoard' = Tail(toBoard) /\ missing' = missing \cup ({m.t} \cap Repeated)
          /\ UNCHANGED <<board, bridge>>
      BY <2>1 DEF LineLost
    <3>2. RestDecides(toBoard, m, toBoard', {"usage"}) /\ RestDecides(toBoard, m, toBoard', {"session"})
      BY <1>1, <3>1, LastOfTail
    <3>3. m.t \in {"usage", "session"} => m.t \in missing'
      BY <3>1 DEF Repeated
    <3>5. missing \subseteq missing'
      BY <3>1
    <3> HIDE DEF m
    <3>4. PushShown'
      BY <3>1, <3>2, <3>3, <3>5 DEF News, PushShown, RestDecides
    <3>6. NameShown'
      BY <3>1, <3>2, <3>3, <3>5 DEF News, NameShown, RestDecides
    <3> QED BY <3>1, <3>4, <3>6 DEF News, TurnsSet
  <2>2. CASE LineTorn
    <3> DEFINE m == Head(toBoard)
    <3>1. /\ toBoard # <<>> /\ toBoard' = Tail(toBoard) /\ missing' = missing \cup Marks(m)
          /\ m.t \in Repeated /\ UNCHANGED bridge
      BY <2>2 DEF LineTorn
    <3>2. RestDecides(toBoard, m, toBoard', {"usage"}) /\ RestDecides(toBoard, m, toBoard', {"session"})
      BY <1>1, <3>1, LastOfTail
    <3>3. m.t \in missing' /\ missing \subseteq missing'
      BY <3>1 DEF Marks
    <3>4. PICK w \in Torn(m) : board' = Dispatch(board, w)
      BY <2>2 DEF LineTorn
    <3>5. m \in MsgsDown
      BY <1>1, <3>1
    <3> HIDE DEF m
    <3>6. w \in MsgsDown /\ w.t = m.t
      BY <3>1, <3>4, <3>5, TornIs
    <3>7. /\ m.t # "usage" => Shown(board') = Shown(board)
          /\ m.t # "session" => board'.label = board.label
      <4>1. board \in Boards
        BY DEF TypeOK
      <4> QED BY <3>4, <3>6, <4>1, DispatchShows DEF Shown
    <3>8. PushShown'
      BY <3>1, <3>2, <3>3, <3>7 DEF News, PushShown, RestDecides
    <3>9. NameShown'
      BY <3>1, <3>2, <3>3, <3>7 DEF News, NameShown, RestDecides
    <3> QED BY <3>1, <3>8, <3>9 DEF News, TurnsSet
  <2>3. CASE PingLost \/ ComputerSleeps \/ ComputerWakes
    <3>1. UNCHANGED <<board, bridge, toBoard, missing>>
      BY <2>3 DEF PingLost, ComputerSleeps, ComputerWakes, link
    <3>2. Shown(board') = Shown(board)
      BY <3>1
    <3> QED BY <3>1, <3>2 DEF News, PushShown, NameShown, TurnsSet
  <2>4. CASE DaemonStops
    <3>1. UNCHANGED <<board, bridge, missing>>
      BY <2>4 DEF DaemonStops
    <3>2. CASE toBoard' = toBoard
      BY <3>1, <3>2 DEF News, PushShown, NameShown, TurnsSet
    <3>3. CASE toBoard' = Append(toBoard, Plain("bye"))
      <4> DEFINE o == <<Plain("bye")>>
                 r == Result(bridge, o)
      <4>1. o \in Seq(MsgsDown) /\ DOMAIN o = {1} /\ o[1].t = "bye"
        BY DEF Plain, MsgsDown
      <4>2. toBoard' = toBoard \o o
        BY <1>1, <3>3
      <4>3. r.d = bridge /\ r.out = o
        BY DEF Result
      <4> HIDE DEF o
      <4>4. Word(bridge, r, desk)
        BY <1>1, <4>1, <4>3 DEF Word, Silent
      <4> HIDE DEF r
      <4>5. PushShown' /\ NameShown'
        BY <1>1, <3>1, <4>2, <4>3, <4>4, SpeechShown DEF News
      <4> QED BY <3>1, <4>5 DEF News, TurnsSet
    <3> QED BY <2>4, <3>2, <3>3 DEF DaemonStops
  <2>5. CASE BoardResets
    <3>1. toBoard' = <<>> /\ missing' = Repeated /\ UNCHANGED bridge
      BY <2>5 DEF BoardResets
    <3>2. PushShown' /\ NameShown'
      BY <3>1 DEF PushShown, NameShown, Repeated
    <3> QED BY <3>1, <3>2 DEF News, TurnsSet
  <2>6. CASE DaemonStarts
    <3>1. NewBridge.fast = TRUE /\ NewBridge.pushed = <<>> /\ NewBridge.told = Nothing
      BY DEF NewBridge
    <3>2. CASE toBoard' = <<>> /\ missing' = Repeated /\ bridge' = NewBridge
      BY <3>1, <3>2 DEF PushShown, NameShown, Repeated, TurnsSet
    <3>3. CASE /\ bridge' = Greet(NewBridge, desk).d
               /\ toBoard' = toBoard \o <<Plain("welcome")>> \o Greet(NewBridge, desk).out
               /\ UNCHANGED <<board, missing>>
      <4> DEFINE e == [NewBridge EXCEPT !.told = Nothing]
                 g == Greet(NewBridge, desk)
                 a == Result(e, <<Plain("welcome")>>)
                 r == Result(g.d, a.out \o g.out)
      <4>1. NewBridge \in Bridges
        BY BridgeTypes
      <4>2. Word(e, g, desk) /\ g.d.fast = TRUE
        BY <1>1, <3>1, <4>1, GreetWord
      <4>3. e \in Bridges /\ e.pushed = <<>> /\ e.told = Nothing
        BY <3>1, <4>1 DEF Bridges
      <4> HIDE DEF e, g
      <4>4. Word(e, a, desk) /\ a.d = e /\ a.out = <<Plain("welcome")>>
        BY <1>1, <4>3, PlainWord DEF Result
      <4> HIDE DEF a
      <4>5. Word(e, r, desk)
        BY <1>1, <4>2, <4>4, WordAfterWord
      <4>6. bridge' = r.d
        BY <3>3 DEF Result, g
      <4>7. toBoard' = toBoard \o r.out
        <5> DEFINE o == g.out
                   p == <<Plain("welcome")>>
        <5>1. o \in Seq(MsgsDown)
          BY <4>2 DEF Word
        <5>2. toBoard' = (toBoard \o p) \o o
          BY <3>3 DEF g
        <5>3. p \in Seq(MsgsDown)
          BY DEF Plain, MsgsDown
        <5> HIDE DEF o, p
        <5>4. (toBoard \o p) \o o = toBoard \o (p \o o)
          BY <1>1, <5>1, <5>3
        <5>5. r.out = p \o o
          BY <4>4 DEF Result, o, p
        <5> QED BY <5>2, <5>4, <5>5
      <4>8. g.d.fast = TRUE /\ r.d = g.d
        BY <4>2 DEF Result
      <4> HIDE DEF r
      <4>9. PushShown' /\ NameShown'
        BY <1>1, <3>3, <4>3, <4>5, <4>6, <4>7, SpeechShown DEF News
      <4> QED BY <4>6, <4>8, <4>9 DEF TurnsSet
    <3> QED BY <2>6, <3>2, <3>3 DEF DaemonStarts
  <2> QED BY <2>1, <2>2, <2>3, <2>4, <2>5, <2>6
<1> QED BY <1>3, <1>4, <1>5 DEF News

\* An interval goes by: what was said grows old on the glass as on the desk.
LEMMA TimeNews ==
  ASSUME TypeOK, TypeOK', News, Tick
  PROVE  News'
<1>1. board \in Boards /\ desk \in Desks /\ bridge \in Bridges
  BY DEF TypeOK
<1>2. /\ toBoard = <<>> /\ toBoard' = <<>> /\ ~board.due
      /\ daemon = "up" => toDaemon = <<>> /\ ~bridge.fast
      /\ UNCHANGED <<daemon, toDaemon, missing>>
  BY DEF Tick, AtRest, BoardDue, DaemonDue, link
<1>3. /\ bridge' \in {bridge, Later(bridge)} /\ (daemon = "up" => bridge' = Later(bridge))
  BY DEF Tick
<1>4. LET e == Later(bridge) IN
      /\ e.pushed = bridge.pushed /\ e.told = bridge.told /\ e.fast = TRUE
      /\ bridge.ping = 0 => e.ping = 1
      /\ bridge.poll > 0 => e.poll = bridge.poll - 1
  <2> DEFINE pi == IF bridge.ping <= Liveness THEN bridge.ping + 1 ELSE bridge.ping
             po == IF bridge.poll > 0 THEN bridge.poll - 1 ELSE 0
             e == Later(bridge)
  <2>1. e = [bridge EXCEPT !.ping = pi, !.poll = po, !.fast = TRUE]
    BY DEF Later
  <2>2. (bridge.ping = 0 => pi = 1) /\ (bridge.poll > 0 => po = bridge.poll - 1)
    BY Times
  <2> HIDE DEF pi, po, e
  <2>3. e.pushed = bridge.pushed /\ e.told = bridge.told /\ e.fast = TRUE /\ e.ping = pi /\ e.poll = po
    BY <1>1, <2>1 DEF Bridges
  <2> QED BY <2>2, <2>3 DEF e
<1>5. /\ board'.val = board.val /\ board'.old = board.old /\ board'.act = board.act
      /\ board'.label = board.label /\ board'.status = board.status /\ board'.seen = board.seen
      /\ board'.age = Grow(board.age) /\ board'.active = Grow(board.active) /\ board'.due = TRUE
      /\ board.seen /\ board.heard = 0 => board'.heard = 1
  <2> DEFINE he == IF board.seen /\ board.heard <= HostTimeout THEN board.heard + 1 ELSE board.heard
             qu == IF ~board.have /\ ~board.seen /\ board.doze = "no" /\ board.quiet <= AppWait
                   THEN board.quiet + 1 ELSE board.quiet
             x == Grow(board.age)
             y == Grow(board.active)
  <2>1. board' = [board EXCEPT !.due = TRUE, !.peek = FALSE, !.heard = he, !.age = x,
                               !.active = y, !.quiet = qu]
    BY DEF Tick, Elapsed
  <2>2. board.seen /\ board.heard = 0 => he = 1
    BY Times
  <2> HIDE DEF he, qu, x, y
  <2>3. /\ board'.val = board.val /\ board'.old = board.old /\ board'.act = board.act
        /\ board'.label = board.label /\ board'.status = board.status /\ board'.seen = board.seen
    BY <1>1, <2>1 DEF Boards
  <2>4. board'.age = x /\ board'.active = y /\ board'.due = TRUE /\ board'.heard = he
    BY <1>1, <2>1 DEF Boards
  <2> QED BY <2>2, <2>3, <2>4 DEF x, y
<1>6. /\ desk'.val = desk.val /\ desk'.act = desk.act /\ desk'.age = Grow(desk.age)
      /\ desk'.active = Grow(desk.active)
  <2> DEFINE x == Grow(desk.age)
             y == Grow(desk.active)
  <2>1. desk' = [desk EXCEPT !.age = x, !.active = y]
    BY DEF Tick
  <2> HIDE DEF x, y
  <2>2. desk'.val = desk.val /\ desk'.act = desk.act /\ desk'.age = x /\ desk'.active = y
    BY <1>1, <2>1 DEF Desks
  <2> QED BY <2>2 DEF x, y
<1>7. /\ still' \in {still, still + 1}
      /\ calm' \in {calm, calm + 1} /\ (calm' # calm => daemon = "up")
  BY DEF Tick
<1>8. calm \in Nat /\ still \in Nat /\ calm' \in Nat /\ still' \in Nat
  BY <1>7, Times
<1>9. PushShown' /\ NameShown'
  <2>1. Shown(board') = Shown(board)
    BY <1>5 DEF Shown
  <2>2. bridge'.pushed = bridge.pushed /\ bridge'.told = bridge.told
    BY <1>3, <1>4
  <2>3. toBoard' = toBoard
    BY <1>2
  <2> QED BY <1>2, <1>5, <2>1, <2>2, <2>3 DEF News, PushShown, NameShown
<1>10. CalmIsUp'
  BY <1>2, <1>7, <1>8 DEF News, CalmIsUp
<1>11. TurnsSet'
  BY <1>3, <1>4 DEF News, TurnsSet
<1>12. Answered'
  BY <1>5 DEF Answered
<1>13. InTouch'
  <2> SUFFICES ASSUME calm' >= 2 PROVE bridge'.ping <= 1 /\ board'.seen /\ board'.heard <= 1
    BY DEF InTouch
  <2>1. calm >= 1 /\ daemon = "up"
    BY <1>7, <1>8 DEF News, CalmIsUp
  <2>2. bridge.ping = 0 /\ board.seen /\ board.heard = 0
    BY <1>2, <2>1 DEF News, Answered
  <2> QED BY <1>3, <1>4, <1>5, <2>1, <2>2
<1>14. Polled'
  <2> SUFFICES ASSUME calm' >= 2 PROVE bridge'.fast
    BY DEF Polled
  <2>1. daemon = "up"
    BY <1>7, <1>8 DEF News, CalmIsUp
  <2> QED BY <1>3, <1>4, <2>1
<1>15. Said'
  <2> DEFINE since == SinceBeat'
  <2> SUFFICES ASSUME calm' >= since + 2, still' > since PROVE IsSaid'
    BY DEF Said
  <2>1. since \in Nat
    <3>1. bridge'.poll \in 0 .. PollEvery
      BY DEF TypeOK, Bridges
    <3> QED BY <3>1, Times DEF SinceBeat
  <2>2. daemon = "up"
    <3> HIDE DEF since
    <3> QED BY <1>7, <1>8, <2>1 DEF News, CalmIsUp
  <2>3. bridge.poll > 0
    BY <1>2, <2>2 DEF News, TurnsSet
  <2>4. since = SinceBeat + 1 /\ SinceBeat \in Nat
    BY <1>3, <1>4, <2>2, <2>3, Times DEF SinceBeat
  <2> HIDE DEF since
  <2>5. IsSaid
    BY <1>7, <1>8, <2>4 DEF News, Said
  <2>6. Silent(toBoard, Verdicts)
    BY <1>2 DEF Silent
  <2>7. BoardSays(board, desk) => BoardSays(board', desk')
    BY <1>5, <1>6 DEF BoardSays
  <2>8. /\ desk'.val \in Sendable => BoardSays(board', desk')
        /\ desk'.val = Broken => board'.status # "ok"
    BY <1>5, <1>6, <2>5, <2>6, <2>7 DEF IsSaid
  <2> QED BY <1>2, <2>8 DEF IsSaid
<1>16. DeskSpoke'
  <2>1. desk.active \in Ages
    BY <1>1 DEF Desks
  <2> QED BY <1>6, <2>1, GrowType DEF News, DeskSpoke
<1> QED BY <1>9, <1>10, <1>11, <1>12, <1>13, <1>14, <1>15, <1>16 DEF News

LEMMA InitNews == Init => News
<1> SUFFICES ASSUME Init PROVE News
  OBVIOUS
<1>1. /\ bridge = NewBridge /\ toBoard = <<>> /\ calm = 0 /\ still = 0 /\ desk.active = 0 /\ daemon = "down"
      /\ missing = Repeated
  BY DEF Init
<1>2. NewBridge.fast = TRUE /\ NewBridge.pushed = <<>> /\ NewBridge.told = Nothing /\ NewBridge.poll = 0
  BY DEF NewBridge
<1>3. PushShown /\ NameShown /\ TurnsSet
  BY <1>1, <1>2 DEF PushShown, NameShown, TurnsSet
<1>4. CalmIsUp /\ Answered /\ InTouch /\ Polled /\ DeskSpoke
  BY <1>1 DEF CalmIsUp, Answered, InTouch, Polled, DeskSpoke
<1>5. Said
  BY <1>1, <1>2, PushAssumption DEF Said, SinceBeat
<1> QED BY <1>3, <1>4, <1>5 DEF News

LEMMA StutterNews ==
  ASSUME News, UNCHANGED vars
  PROVE  News'
BY DEF News, PushShown, NameShown, CalmIsUp, TurnsSet, Answered, InTouch, Polled, Said, SinceBeat,
       IsSaid, DeskSpoke, vars

LEMMA NextNews ==
  ASSUME TypeOK, TypeOK', News, [Next]_vars
  PROVE  News'
BY StutterNews, DeskNews, PollsNews, MessageNews, ReadsNews, LoopNews, FaultNews, TimeNews DEF Next, OwnerActs

\* The word of desk, line and glass, as long as the link has been left alone,
\* for any bounds of time and any number of faults before.
THEOREM NewsArrives == Spec => []News
<1>1. TypeOK /\ TypeOK' /\ News /\ [Next]_vars => News'
  BY NextNews
<1> QED BY <1>1, InitNews, TypeCorrect, PTL DEF Spec

-----------------------------------------------------------------------------
(* A link that has been left alone.                                          *)

LEMMA RestIsCalm ==
  ASSUME TypeOK, News, Quiet
  PROVE  /\ calm >= 2 /\ toBoard = <<>> /\ ~bridge.fast /\ board.seen
         /\ bridge.poll > 0 /\ SinceBeat < PollEvery /\ calm >= SinceBeat + 2
         /\ board.doze # "no" => ~Woken(board, board.doze)
         /\ \A ts : Silent(toBoard, ts)
<1>1. toBoard = <<>> /\ ~bridge.fast /\ (board.doze # "no" => ~Woken(board, board.doze))
  BY DEF Quiet, AtRest, DaemonDue, BoardDue
<1>2. calm >= 2
  BY Times DEF Quiet
<1>3. bridge.poll > 0
  BY <1>1 DEF News, TurnsSet
<1>4. SinceBeat < PollEvery /\ calm >= SinceBeat + 2
  BY <1>3, Times DEF Quiet, SinceBeat
<1>5. board.seen
  BY <1>2 DEF News, InTouch
<1>6. \A ts : Silent(toBoard, ts)
  BY <1>1 DEF Silent
<1> QED BY <1>1, <1>2, <1>3, <1>4, <1>5, <1>6

\* News does not wait for the heartbeat: the fast tick (poll_if_changed) has
\* pushed it within the interval, and what was pushed and not lost is shown.
THEOREM NewsIsFast == Spec => []FastNews
<1>1. TypeOK /\ News => FastNews
  <2> SUFFICES ASSUME TypeOK, News, Quiet, still > 0, desk.val \in Readings \ TooLong
               PROVE  /\ "usage" \in missing \/ Shown(board) = Meaning(desk)
                      /\ "session" \in missing \/ board.label = desk.name
    BY DEF FastNews, Shown
  <2>1. bridge.pushed = Meaning(desk) /\ bridge.told = desk.name
    <3>1. calm >= 2 /\ ~bridge.fast
      BY RestIsCalm
    <3>2. still >= 1
      BY Times
    <3> QED BY <3>1, <3>2 DEF News, Polled
  <2>2. Meaning(desk) # <<>> /\ Meaning(desk)[1] \notin TooLong
    BY ReadingSays
  <2>3. desk.name # Nothing
    BY NothingIsNoName DEF TypeOK, Desks
  <2> QED BY <2>1, <2>2, <2>3, RestIsCalm DEF News, PushShown, NameShown
<1> QED BY <1>1, NewsArrives, TypeCorrect, PTL

\* Whatever was lost, torn or restarted before, once the link has been left
\* alone the heartbeat (poll_once) has put the desk's word on the glass.
THEOREM LostIsRestated == Spec => []Restated
<1>1. TypeOK /\ News => Restated
  <2> SUFFICES ASSUME TypeOK, News, Quiet, still = Settling
               PROVE  /\ board.doze \notin {"host", "app"}
                      /\ desk.val = Broken => board.status # "ok"
                      /\ desk.val \in Readings \ TooLong =>
                           /\ board.val = desk.val /\ board.act = desk.act
                           /\ board.status \in {"ok", "stale"}
                           /\ board.age = desk.age /\ board.active <= desk.active
    BY DEF Restated
  <2>1. board.doze \notin {"host", "app"}
    BY RestIsCalm DEF Woken
  <2>2. still > SinceBeat
    BY Times
  <2>3. IsSaid /\ Silent(toBoard, Verdicts)
    BY <2>2, RestIsCalm DEF News, Said
  <2>4. desk.active \in Int
    BY DEF TypeOK, Desks, Ages
  <2> QED BY <2>1, <2>3, <2>4 DEF IsSaid, BoardSays, Sendable
<1> QED BY <1>1, NewsArrives, TypeCorrect, PTL

\* A desk with somebody at it has its face open one heartbeat after its last
\* word (sleep_gate.c, reading_moved_again), for any AbsentAfter.
THEOREM EyesAreOpen == Spec => []EyesOpen
<1>1. TypeOK /\ News => EyesOpen
  <2> SUFFICES ASSUME TypeOK, News, Quiet, still > PollEvery, desk.val \in Readings \ TooLong,
                      ~Calm(desk.act) \/ (desk.active >= 0 /\ desk.active < AbsentAfter)
               PROVE  board.doze = "no"
    BY DEF EyesOpen
  <2>1. still > SinceBeat
    BY RestIsCalm, Times
  <2>2. IsSaid /\ Silent(toBoard, Verdicts)
    BY <2>1, RestIsCalm DEF News, Said
  <2>3. board.act = desk.act /\ board.active = desk.active
    BY <2>2 DEF IsSaid, BoardSays, Sendable
  <2>4. board.doze \in {"no", "host", "desk", "app"}
    BY DEF TypeOK, Boards, Dozes
  <2>5. board.doze # "host" /\ board.doze # "app" /\ board.doze # "desk"
    BY <2>3, RestIsCalm DEF Woken
  <2> QED BY <2>4, <2>5
<1> QED BY <1>1, NewsArrives, TypeCorrect, PTL
=============================================================================
