------------------------------- MODULE Search -------------------------------
(***************************************************************************)
(* How the daemon finds its board among the serial ports of a desk.        *)
(*                                                                         *)
(* The reconnect loop of claude_usage_bridge.py opens a port, asks the     *)
(* thing on it whether it is an Overwatch board, and either talks to it,   *)
(* resets it, or goes on to the next port: first quickly, then listening   *)
(* long enough to hear a ping nobody asked for.  A layout of the ports     *)
(* that has been searched is left alone until something is plugged or      *)
(* unplugged.  Only a message off a port makes it the remembered one,      *)
(* which is the one that may be reset.                                     *)
(*                                                                         *)
(* Ports are numbered as the system lists them.  The people at the desk    *)
(* plug, unplug and hold ports (another program has them open), and boards *)
(* hang, at most Moves times and never once the desk is `still`.           *)
(***************************************************************************)
EXTENDS Integers, FiniteSets

CONSTANTS
  N,          \* the ports are 1 .. N
  Explicits,  \* the values of --port looked at; 0 for none given
  Moves       \* bound: what happens on the desk

ASSUME PortsAreNumbered == {N, Moves} \subseteq Nat /\ Explicits \subseteq 0 .. N

VARIABLES
  dev,       \* what is plugged into each port
  board,     \* what our board is doing
  held,      \* the ports another program has open
  still,     \* nothing on the desk will change any more
  explicit,  \* --port
  known,     \* the remembered port, on disk; 0 for none
  dead,      \* what the port in hand led to has been unplugged
  pc, port,  \* where the daemon is, and the port in hand
  patient, asked,
  searched,  \* the layout searched without finding anything
  moves,
  opens,     \* history: how often each port was opened under this layout, no port held
  since      \* history: what our board has been, at its port, since this round began

desk == <<dev, board, held, still, moves, dead>>
search == <<port, patient, asked, searched>>
searchVars == <<desk, search, explicit, known, pc, opens, since>>

Ports == 1 .. N
None == 0
Unsearched == [p \in Ports |-> "unsearched"]

Candidates == {p \in Ports : dev[p] # "none"}
First(S) == CHOOSE p \in S : \A q \in S : p <= q
BoardAt(p) == dev[p] = "board"
Up(p) == BoardAt(p) /\ board = "up"
\* It is, or soon will be, there to be talked to.
Reach == \E p \in Ports : BoardAt(p) /\ p \notin held /\ board # "hung" /\ explicit \in {None, p}
\* usb_topology
Here == dev

SearchInit ==
  /\ dev \in {d \in [Ports -> {"none", "board", "stranger"}] : Cardinality({p \in Ports : d[p] = "board"}) <= 1}
  /\ board \in {"booting", "up", "hung"}
  /\ held = {} /\ still = FALSE
  /\ explicit \in Explicits /\ known \in 0 .. N
  /\ pc = "wait" /\ port = None /\ patient = FALSE /\ asked = {} /\ searched = Unsearched
  /\ moves = 0 /\ dead = FALSE
  /\ opens = [p \in Ports |-> 0]
  /\ since = "no"

-----------------------------------------------------------------------------
(* The desk.                                                               *)

Stir == ~still /\ moves < Moves /\ moves' = moves + 1
        /\ UNCHANGED <<search, explicit, known, pc, still>>
Rearranged == opens' = [p \in Ports |-> 0] /\ since' = "no"

\* A board that is plugged in boots.  A port that has gone is noticed sooner than
\* a hand can plug anything in.
Plug ==
  /\ Stir /\ Rearranged /\ ~dead
  /\ \E p \in Ports \ Candidates :
       \/ /\ ~\E q \in Ports : BoardAt(q)
          /\ dev' = [dev EXCEPT ![p] = "board"] /\ board' = "booting"
       \/ dev' = [dev EXCEPT ![p] = "stranger"] /\ UNCHANGED board
  /\ UNCHANGED <<held, dead>>

Unplug ==
  /\ Stir /\ Rearranged
  /\ \E p \in Candidates :
       /\ dev' = [dev EXCEPT ![p] = "none"] /\ held' = held \ {p}
       /\ dead' = (dead \/ (p = port /\ pc \in {"probe", "talk"}))
  /\ UNCHANGED board

\* Another program opens a port the daemon does not have, or closes it.
Hold ==
  /\ Stir
  /\ \E p \in Candidates \ (IF pc \in {"probe", "talk"} THEN {port} ELSE {}) :
       held' = (IF p \in held THEN held \ {p} ELSE held \cup {p})
  /\ Rearranged
  /\ UNCHANGED <<dev, board, dead>>

\* The daemon starts again, with what it remembers on disk.
DaemonRestarts ==
  /\ ~still /\ moves < Moves /\ moves' = moves + 1
  /\ pc' = "wait" /\ port' = None /\ patient' = FALSE /\ asked' = {} /\ searched' = Unsearched
  /\ dead' = FALSE /\ Rearranged
  /\ UNCHANGED <<dev, board, held, still, explicit, known>>

Hang ==
  Stir /\ board = "up" /\ board' = "hung" /\ since' = "no" /\ UNCHANGED <<dev, held, dead, opens>>

Boots ==
  /\ board = "booting" /\ board' = "up"
  /\ UNCHANGED <<dev, held, still, moves, dead, search, explicit, known, pc, opens, since>>

Settle ==
  /\ ~still /\ still' = TRUE
  /\ UNCHANGED <<dev, board, held, moves, dead, search, explicit, known, pc, opens, since>>

-----------------------------------------------------------------------------
(* The daemon.                                                             *)

\* next_port with the layout searched = s and patience = t: the port to try, or
\* None, and what it leaves in searched and patient.
NextPort(s, t) ==
  LET fresh == s = Unsearched
      first == IF known \in Candidates THEN known ELSE First(Candidates)
  IN IF explicit # None THEN [port |-> explicit, searched |-> s, patient |-> t]
     ELSE IF s = Here THEN [port |-> None, searched |-> s, patient |-> t]
     ELSE IF Candidates = {} THEN [port |-> None, searched |-> Here, patient |-> fresh /\ t]
     ELSE [port |-> first, searched |-> Unsearched, patient |-> fresh /\ t]

\* wait_for_port, also behind a port that would not open.
WaitForPort ==
  /\ pc = "wait"
  /\ IF explicit # None THEN dev[explicit] # "none" /\ port' = explicit
     ELSE Candidates # {} /\ port' = First(Candidates)
  /\ pc' = "open"
  /\ UNCHANGED <<desk, explicit, known, patient, asked, searched, opens, since>>

NewRound == since' = (IF ~Reach THEN "no" ELSE IF board = "up" THEN "up" ELSE "plugged")
SameRound == UNCHANGED since

Open ==
  /\ pc = "open"
  /\ IF dev[port] = "none" \/ port \in held
     THEN pc' = "wait" /\ UNCHANGED opens
     ELSE pc' = "probe" /\ opens' = [opens EXCEPT ![port] = IF @ < 3 /\ held = {} THEN @ + 1 ELSE @]
  /\ IF asked = {} /\ ~patient THEN NewRound ELSE SameRound
  /\ UNCHANGED <<desk, explicit, known, search>>

\* Mutant of MayReset: the name of the port is enough.
MayResetByName == explicit # None \/ port = known
MayReset == explicit # None \/ (port = known /\ patient)

\* A patient probe listens for longer than a board takes to boot.
\* Mutant of ProbeOver: it is as short as any other.
ProbeOverSoon == pc = "probe"
ProbeOver == pc = "probe" /\ ~(patient /\ BoardAt(port) /\ board = "booting" /\ ~dead)
Heard == Up(port) /\ ~dead

\* It answered, or was heard.
Answered ==
  /\ ProbeOver /\ Heard
  /\ asked' = asked \cup {port}
  /\ pc' = "talk"
  /\ UNCHANGED <<desk, explicit, known, port, patient, searched, opens, since>>

\* It did not, and may be reset: pulse its line, and talk.  The line of a port
\* that is gone raises.
Reset ==
  /\ ProbeOver /\ ~Heard /\ MayReset
  /\ asked' = asked \cup {port}
  /\ IF dead THEN pc' = "wait" /\ UNCHANGED board
     ELSE pc' = "talk" /\ board' = (IF BoardAt(port) THEN "booting" ELSE board)
  /\ dead' = FALSE
  /\ UNCHANGED <<dev, held, still, moves, explicit, known, port, patient, searched, opens, since>>

Silent == ProbeOver /\ ~Heard /\ ~MayReset

\* Mutant of Unasked: no note is kept of the ports asked.
UnaskedBut == Candidates \ {port}
Unasked == Candidates \ (asked \cup {port})

TryAnother ==
  /\ Silent /\ Unasked # {}
  /\ asked' = asked \cup {port}
  /\ port' = First(Unasked) /\ pc' = "open"
  /\ dead' = FALSE /\ UNCHANGED <<dev, board, held, still, moves, explicit, known, patient, searched, opens, since>>

\* Nothing answered quickly: once more, listening longer.
ListenLonger ==
  LET next == NextPort(searched, TRUE)
  IN /\ Silent /\ Unasked = {} /\ ~patient
     /\ asked' = {} /\ pc' = "open"
     /\ port' = (IF next.port = None THEN port ELSE next.port)
     /\ patient' = next.patient /\ searched' = next.searched
     /\ dead' = FALSE /\ UNCHANGED <<dev, board, held, still, moves, explicit, known, opens, since>>

GivenUp == Here

GiveUp ==
  /\ Silent /\ Unasked = {} /\ patient
  /\ searched' = GivenUp /\ asked' = {} /\ patient' = FALSE
  /\ pc' = "idle"
  /\ dead' = FALSE /\ UNCHANGED <<dev, board, held, still, moves, explicit, known, port, opens, since>>

\* Every three seconds: is there anything new to look at?
LookAround ==
  LET next == NextPort(searched, patient)
  IN /\ pc = "idle"
     /\ searched' = next.searched /\ patient' = next.patient
     /\ IF next.port = None THEN UNCHANGED <<pc, port>> ELSE pc' = "open" /\ port' = next.port
     /\ UNCHANGED <<desk, explicit, known, asked, opens, since>>

\* The board says something: this is its port.
Hears ==
  /\ pc = "talk" /\ Heard /\ known' = port
  /\ UNCHANGED <<desk, explicit, search, pc, opens, since>>

\* The port is gone: the search starts over.
Lost ==
  /\ pc = "talk" /\ dead /\ dead' = FALSE
  /\ asked' = {} /\ searched' = Unsearched /\ patient' = FALSE
  /\ pc' = "wait"
  /\ UNCHANGED <<dev, board, held, still, moves, explicit, known, port, opens, since>>

Daemon ==
  \/ WaitForPort \/ Open \/ Answered \/ Reset \/ TryAnother \/ ListenLonger \/ GiveUp
  \/ LookAround \/ Hears \/ Lost

SearchNext == Plug \/ Unplug \/ Hold \/ DaemonRestarts \/ Hang \/ Boots \/ Settle \/ Daemon

\* The loops of the daemon turn, and a board that is booting comes up.
Fairness == WF_searchVars(Boots) /\ WF_searchVars(Daemon)
SearchSpec == SearchInit /\ [][SearchNext]_searchVars /\ Fairness

-----------------------------------------------------------------------------
(* Properties.                                                             *)

SearchTypeOK ==
  /\ dev \in [Ports -> {"none", "board", "stranger"}] /\ board \in {"booting", "up", "hung"}
  /\ held \subseteq Candidates
  /\ {still, patient, dead} \subseteq BOOLEAN
  /\ explicit \in Explicits /\ known \in 0 .. N /\ port \in 0 .. N
  /\ since \in {"no", "plugged", "up"}
  /\ pc \in {"wait", "open", "probe", "talk", "idle"}
  /\ pc \in {"open", "probe", "talk"} => port # None
  /\ asked \subseteq Ports /\ moves \in 0 .. Moves /\ opens \in [Ports -> 0 .. 3]
  /\ searched \in {Unsearched} \cup [Ports -> {"none", "board", "stranger"}]
  /\ pc = "idle" => searched # Unsearched
  /\ dead => pc \in {"probe", "talk"}

\* A board that is only still booting is never reset for being silent.
NoBootLoop == [][(Reset /\ ~dead /\ BoardAt(port) /\ explicit = None) => board = "hung"]_searchVars

\* No one else's device is reset while our board has been up, at its port, since
\* the search began: the port remembered from before is not licence enough.
SparedWhileUp == [][(Reset /\ ~dead /\ dev[port] = "stranger" /\ explicit = None) => since # "up"]_searchVars

\* While nothing is plugged or unplugged, each port is opened twice at
\* most by one run of the daemon.
AskedOnce == \A p \in Ports : opens[p] <= 2

Ours == pc = "talk" /\ BoardAt(port)
StrangerAtHome == known # None /\ dev[known] = "stranger" /\ explicit = None

\* A board that is plugged in when a search begins is found by it, also one that
\* is still booting, if nothing is plugged or unplugged meanwhile: whatever else
\* is on the desk, except a silent stranger on the remembered port, which is reset and
\* kept, and a port some other program keeps open, which sends the search back to
\* the first port each time.
FoundBySearch == (still /\ since # "no" /\ held = {} /\ ~StrangerAtHome) ~> Ours

=============================================================================
