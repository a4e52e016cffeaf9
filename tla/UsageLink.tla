----------------------------- MODULE UsageLink ------------------------------
(***************************************************************************)
(* Readings from the desk to the glass: the daemon (Push), the board       *)
(* (Panel) and the serial line between them, with lines that are lost or   *)
(* torn, a computer that sleeps, a daemon that is killed, restarted or     *)
(* uninstalled, a board that resets, and an owner who taps the dozing      *)
(* board and goes to its settings.                                         *)
(*                                                                         *)
(* Both loops turn many times in a ping interval, so the clock moves on    *)
(* only when neither has anything left to do and the line is empty; a      *)
(* daemon that sleeps is waited for by nobody.  Within an interval the     *)
(* steps come in any order.                                                *)
(***************************************************************************)
EXTENDS Push

CONSTANTS Budget,  \* bound on what happens: news and faults cost 2, the owner's acts 1
          FirstVals, FirstNames, FirstAges   \* where the desk starts

ASSUME LinkAssumption ==
  /\ Budget \in Nat
  /\ FirstVals \subseteq Readings \cup {Nothing} /\ FirstNames \subseteq Names
  /\ FirstAges \subseteq Ages

VARIABLES
  desk,      \* what the bus has to say (Push's Desks)
  board,     \* Panel's record
  bridge,    \* Push's record
  daemon,    \* "down", "up", "asleep" (with its computer)
  toBoard,   \* lines under way to the board
  toDaemon,  \* lines under way to the daemon: "ping", "hello"
  still,     \* history: time since the desk had news
  calm,      \* history: time since anything went wrong
  missing,   \* history: of these the last line may not have arrived whole; "torn"
             \* for what a torn usage line said
  farewell,  \* history: the last line the board heard was a bye
  spent      \* of Budget

link == <<toBoard, toDaemon>>
history == <<still, calm, missing, farewell>>
vars == <<desk, board, bridge, daemon, toBoard, toDaemon, still, calm, missing, farewell, spent>>

\* The time after which everything has been said again: the rest of one
\* heartbeat that found the board silent, a whole one, and one step to show it.
Settling == 2 * PollEvery + 1

\* What is sent again, between heartbeats, only when it has changed.
Repeated == {"usage", "session"}

TypeOK ==
  /\ desk \in Desks /\ board \in Boards /\ bridge \in Bridges
  /\ daemon \in {"down", "up", "asleep"}
  /\ toBoard \in Seq(MsgsDown) /\ toDaemon \in Seq({"ping", "hello"})
  /\ still \in 0 .. Settling /\ calm \in 0 .. Settling
  /\ missing \subseteq Repeated \cup {"torn"} /\ farewell \in BOOLEAN /\ spent \in 0 .. Budget

Init ==
  /\ desk \in [val : FirstVals, name : FirstNames, act : {"idle"}, age : FirstAges, active : {0}]
  /\ board = PowerOn /\ bridge = NewBridge /\ daemon = "down"
  /\ toBoard = <<>> /\ toDaemon = <<>>
  /\ still = 0 /\ calm = 0 /\ missing = Repeated /\ farewell = FALSE
  /\ spent = 0

-----------------------------------------------------------------------------
(* The desk: providers write, agents start and stop, projects change.      *)

Costs(n) == spent + n <= Budget /\ spent' = spent + n
Happens == Costs(2)

DeskHasNews(d) ==
  /\ Happens
  /\ desk' = d /\ still' = 0
  /\ UNCHANGED <<board, bridge, daemon, link, calm, missing, farewell>>

NewReading == \E v \in (Readings \cup {Nothing, Broken}) \ {desk.val} :
                DeskHasNews([desk EXCEPT !.val = v, !.age = 0, !.active = 0])
\* A word from the desk that leaves the reading as old as it was.
Activity == \E a \in {"idle", "running"} : DeskHasNews([desk EXCEPT !.act = a, !.active = 0])
NewName == \E n \in Names \ {desk.name} : DeskHasNews([desk EXCEPT !.name = n, !.active = 0])

-----------------------------------------------------------------------------
(* The daemon's loop.                                                      *)

Writes(r) == bridge' = r.d /\ toBoard' = toBoard \o r.out

DaemonReads ==
  /\ daemon = "up" /\ toDaemon # <<>>
  /\ Writes(OnMessage(bridge, desk, Head(toDaemon)))
  /\ toDaemon' = Tail(toDaemon)
  /\ UNCHANGED <<desk, board, daemon, history, spent>>

DaemonPolls ==
  /\ daemon = "up" /\ bridge.fast
  /\ Writes(Turn(bridge, desk))
  /\ UNCHANGED <<desk, board, daemon, toDaemon, history, spent>>

-----------------------------------------------------------------------------
(* The board's loop.                                                       *)

Marks(m) == IF m.t = "usage" THEN {"usage", "torn"} ELSE {m.t}

BoardReads ==
  /\ toBoard # <<>>
  /\ board' = Dispatch(board, Head(toBoard)) /\ toBoard' = Tail(toBoard)
  /\ farewell' = (Head(toBoard).t = "bye")
  /\ missing' = missing \ Marks(Head(toBoard))
  /\ UNCHANGED <<desk, bridge, daemon, toDaemon, still, calm, spent>>

BoardPings ==
  /\ board.due
  /\ board' = [board EXCEPT !.due = FALSE]
  /\ toDaemon' = IF daemon = "up" THEN Append(toDaemon, "ping") ELSE toDaemon
  /\ UNCHANGED <<desk, bridge, daemon, toBoard, history, spent>>

HostGoesQuiet ==
  /\ TimesOut(board)
  /\ board' = TimedOut(board)
  /\ UNCHANGED <<desk, bridge, daemon, link, history, spent>>

FallsAsleep ==
  \E kind \in Dozes \ {"no"} :
    /\ Starts(board, kind) /\ ~TimesOut(board)
    /\ board' = Asleep(board, kind)
    /\ UNCHANGED <<desk, bridge, daemon, link, history, spent>>

WakesUp ==
  /\ board.doze # "no" /\ Woken(board, board.doze)
  /\ board' = Wake(board)
  /\ UNCHANGED <<desk, bridge, daemon, link, history, spent>>

-----------------------------------------------------------------------------
(* The owner, and the updates that forbid dozing.                          *)

User(b) ==
  /\ Costs(1)
  /\ board' = b
  /\ UNCHANGED <<desk, bridge, daemon, link, history>>

Taps == board.doze # "no" /\ ~board.peek /\ User([board EXCEPT !.peek = TRUE])
OpensSettings == /\ ~board.settings /\ (board.doze = "no" \/ board.peek)
                 /\ User([board EXCEPT !.settings = TRUE])
ClosesSettings == /\ board.settings /\ board.doze = "no"
                  /\ User([board EXCEPT !.settings = FALSE])
UpdateBegins == ~board.busy /\ User([board EXCEPT !.busy = TRUE])
UpdateEnds == board.busy /\ User([board EXCEPT !.busy = FALSE])

-----------------------------------------------------------------------------
(* What goes wrong.                                                        *)

Fault == Happens /\ calm' = 0

\* The board's ring is full: a line for it goes, or is read without its end.
LineLost ==
  /\ Fault /\ toBoard # <<>>
  /\ toBoard' = Tail(toBoard)
  /\ missing' = missing \cup ({Head(toBoard).t} \cap Repeated)
  /\ UNCHANGED <<desk, board, bridge, daemon, toDaemon, still, farewell>>

LineTorn ==
  /\ Fault /\ toBoard # <<>> /\ Head(toBoard).t \in Repeated
  /\ \E m \in Torn(Head(toBoard)) : board' = Dispatch(board, m)
  /\ toBoard' = Tail(toBoard) /\ farewell' = FALSE
  /\ missing' = missing \cup Marks(Head(toBoard))
  /\ UNCHANGED <<desk, bridge, daemon, toDaemon, still>>

PingLost ==
  /\ Fault /\ toDaemon # <<>>
  /\ toDaemon' = Tail(toDaemon)
  /\ UNCHANGED <<desk, board, bridge, daemon, toBoard, still, missing, farewell>>

ComputerSleeps ==
  /\ Fault /\ daemon = "up"
  /\ daemon' = "asleep"
  /\ UNCHANGED <<desk, board, bridge, link, still, missing, farewell>>

ComputerWakes ==
  /\ daemon = "asleep" /\ daemon' = "up" /\ calm' = 0
  /\ UNCHANGED <<desk, board, bridge, link, still, missing, farewell, spent>>

\* The daemon goes without a word, or an uninstall says bye for it.
DaemonStops ==
  /\ Fault /\ daemon # "down"
  /\ daemon' = "down" /\ toDaemon' = <<>>
  /\ \/ toBoard' = toBoard
     \/ daemon = "up" /\ toBoard' = Append(toBoard, Plain("bye"))
  /\ UNCHANGED <<desk, board, bridge, still, missing, farewell>>

\* A daemon finds the board running, or resets it and has its hello.
DaemonStarts ==
  /\ daemon = "down" /\ daemon' = "up" /\ calm' = 0
  /\ \/ /\ LET g == Greet(NewBridge, desk) IN
           bridge' = g.d /\ toBoard' = toBoard \o <<Plain("welcome")>> \o g.out
        /\ UNCHANGED <<board, toDaemon, missing, farewell>>
     \/ /\ board' = PowerOn /\ bridge' = NewBridge
        /\ toBoard' = <<>> /\ toDaemon' = <<"hello">>
        /\ missing' = Repeated /\ farewell' = FALSE
  /\ UNCHANGED <<desk, still, spent>>

BoardResets ==
  /\ Fault
  /\ board' = PowerOn /\ toBoard' = <<>> /\ missing' = Repeated /\ farewell' = FALSE
  /\ toDaemon' = IF daemon = "up" THEN Append(toDaemon, "hello") ELSE toDaemon
  /\ UNCHANGED <<desk, bridge, daemon, still>>

-----------------------------------------------------------------------------
(* Time.  The clock of a sleeping computer stops on some systems.          *)

DaemonDue == daemon = "up" /\ (toDaemon # <<>> \/ bridge.fast)

BoardDue == \/ toBoard # <<>> \/ board.due \/ TimesOut(board)
            \/ \E kind \in Dozes \ {"no"} : Starts(board, kind)
            \/ board.doze # "no" /\ Woken(board, board.doze)

AtRest == ~DaemonDue /\ ~BoardDue

Tick ==
  /\ AtRest
  /\ board' = Elapsed(board)
  /\ desk' = [desk EXCEPT !.age = Grow(@), !.active = Grow(@)]
  /\ bridge' \in IF daemon = "asleep" THEN {bridge, Later(bridge)} ELSE {Later(bridge)}
  /\ still' = IF still < Settling THEN still + 1 ELSE still
  /\ calm' = IF calm < Settling /\ daemon = "up" THEN calm + 1 ELSE calm
  /\ UNCHANGED <<daemon, link, missing, farewell, spent>>

-----------------------------------------------------------------------------
Next ==
  \/ NewReading \/ Activity \/ NewName
  \/ DaemonReads \/ DaemonPolls
  \/ BoardReads \/ BoardPings \/ HostGoesQuiet \/ FallsAsleep \/ WakesUp
  \/ Taps \/ OpensSettings \/ ClosesSettings \/ UpdateBegins \/ UpdateEnds
  \/ LineLost \/ LineTorn \/ PingLost
  \/ ComputerSleeps \/ ComputerWakes \/ DaemonStops \/ DaemonStarts \/ BoardResets
  \/ Tick

Spec == Init /\ [][Next]_vars

-----------------------------------------------------------------------------
(* Properties.                                                             *)

Quiet == AtRest /\ calm = Settling /\ daemon = "up"

\* Once nothing has gone wrong for a while, the heartbeat has put right all
\* that was lost: the glass shows the desk's reading, as old as it is, with
\* no error left over nor hidden behind a green dot, and the face is not
\* asleep for want of a host.
Restated ==
  Quiet /\ still = Settling =>
    /\ board.doze \notin {"host", "app"}
    /\ desk.val = Broken => board.status # "ok"
    /\ desk.val \in Readings \ TooLong =>
         /\ board.val = desk.val /\ board.act = desk.act
         /\ board.status \in {"ok", "stale"}
         /\ board.age = desk.age /\ board.active <= desk.active

\* News does not wait for the heartbeat: within the interval the glass has
\* the desk's reading and activity, and its name, unless the last line that
\* said so was lost.
FastNews ==
  Quiet /\ still > 0 /\ desk.val \in Readings \ TooLong =>
    /\ "usage" \in missing \/ <<board.val, board.old, board.act>> = Meaning(desk)
    /\ "session" \in missing \/ board.label = desk.name

\* The board never takes the desk to have spoken later than it did, through
\* lost lines, sleeping computers and its own dozes: were it to, it would keep
\* its eyes open over an empty desk.  A torn usage line may say so, until the
\* next one is heard.
AgeIsHonest ==
  "torn" \notin missing =>
    /\ board.have /\ board.age >= 0 /\ desk.age >= 0 => board.age >= desk.age
    /\ board.have /\ board.active >= 0 /\ desk.active >= 0 => board.active >= desk.active

\* Green by a usage message is green over a host that is there.
OkMeansHeard == board.status = "ok" => board.seen

\* A board that would doze would not wake at once, and the other way round.
NoFlapping == \A kind \in Dozes \ {"no"} : Starts(board, kind) => ~Woken(board, kind)

\* After a bye has been heard the board never dozes as over a sleeping
\* computer before another line is heard.
ByeIsNotSleep ==
  [][board.doze = "no" /\ board'.doze = "host" => ~farewell]_vars

\* A desk with somebody at it has its face open: once a heartbeat has passed
\* since the last word, the board is not dozing over it, whatever doze it was
\* in and whatever that word changed or left as it was.
EyesOpen ==
  Quiet /\ still > PollEvery /\ desk.val \in Readings \ TooLong
    /\ (~Calm(desk.act) \/ (desk.active >= 0 /\ desk.active < AbsentAfter)) => board.doze = "no"
=============================================================================
