--------------------------- MODULE ReadingsProof ---------------------------
(***************************************************************************)
(* What holds of the daemon's readings for any lengths of time, any number *)
(* of samples, and whoever writes, raises, is started again or has a clock *)
(* put back: types; that a window shown as forgiven stays forgiven; that a *)
(* provider that raised is asked again; that the weekly reset shown is the *)
(* account's own.                                                          *)
(*                                                                         *)
(* First come the operators, each by what it says of its argument: the     *)
(* newest of a set, the merge, the frames a source makes.  Then each step. *)
(* A poll is taken apart by the part of the invariant: what it notes of    *)
(* the week, what it shows of it, what it remembers of a forgiven window.  *)
(***************************************************************************)
EXTENDS Readings, WellFoundedInduction, TLAPS

-----------------------------------------------------------------------------
(* The invariant.                                                          *)

\* The windows of the account; of a week nothing is remembered or recorded.
Calendar ==
  /\ resets # None => now < resets /\ resets <= now + Window
  /\ ~Session => resets # None /\ remembered = NoReading /\ record.at = None

\* What the status line draws is what Claude Code last heard, or nothing.
Drawn == RightClock =>
  /\ cli.at <= now /\ cli.resets <= cli.at + Window
  /\ payload.resets # None => payload.resets = cli.resets /\ cli.at <= payload.at
  /\ \A r \in {cli, payload} : r.used >= 0 <=> r.resets # None
  /\ payload.used >= 0 => payload.at # None

\* What keeps a forgiven window from the dial: the reading that told of its end is
\* remembered until a later window's is, and that was written after the end.
Forgiven == Session /\ RightClock =>
  /\ remembered.resets # None => remembered.used >= 0
  /\ remembered.resets <= cli.resets
  /\ remembered.resets < cli.resets => remembered.resets <= cli.at
  /\ cli.resets <= now \/ cli.resets = resets
  /\ zeroed # None => zeroed <= now /\ zeroed <= remembered.resets
  /\ \A r \in {cli, payload, remembered} : zeroed < r.resets => zeroed <= r.at
  /\ \A s \in samples : s.win # None => s.at < s.win

\* A whole number of weeks before the next reset.
Aligned(r) == \E k \in Nat : resets = r + k * Window

\* The daemon's note, and where it has it from.
Vouched == ~Session /\ RightClock =>
  /\ audit.at <= saw /\ anchor.at <= saw
  /\ \A n \in {audit, anchor} : n.at # None => n.resets # None
  /\ ~moved => \A r \in {cli, audit, anchor} : r.resets # None => Aligned(r.resets)

\* The week's figure falls only where a week ends.
Sampled == ~Session /\ RightClock /\ ~moved =>
  /\ \A s \in samples : /\ s.at <= now /\ s.at < s.win /\ Aligned(s.win)
                        /\ s.win <= now \/ (s.win = resets /\ s.used <= used)
  /\ \A s, t \in samples : s.at < t.at /\ t.used < s.used => s.win <= t.at

\* How long a provider that raised has not been asked.
Waited(b, q) ==
  IF lag = 0 THEN q <= b.wait /\ q <= now - b.since
  ELSE q <= b.wait \/ (b.since <= Wall /\ q <= b.wait + (Wall - b.since))
BackedOff == \A p \in Providers :
  LET b == broken[p]
  IN /\ p \notin failed => b.wait = 0
     /\ polled /\ b.wait = 0 => quiet[p] = 0
     /\ b.wait > 0 => /\ b.since <= now /\ b.retry = b.since + b.wait /\ Waited(b, quiet[p])
                      /\ polled => b.since <= Wall /\ Wall < b.retry

\* What a poll has made of the weekly reset.
ResetShown == ~Session /\ RightClock /\ polled /\ dial.resets # None =>
  now - saw <= AnchorMax /\ (~moved => dial.resets = resets)

IInv == /\ TypeOK /\ Calendar /\ Drawn /\ Forgiven /\ Vouched /\ Sampled /\ BackedOff
        /\ ZeroStaysZero /\ ResetShown

USE Lengths DEF None, Start, UNKNOWN, Wall, Session, RightClock, Times, Windows, Providers

-----------------------------------------------------------------------------
(* The newest of a set.                                                    *)

LEMMA HasLeast ==
  ASSUME NEW S \in SUBSET Nat, S # {}
  PROVE  \E x \in S : \A y \in S : x <= y
<1> DEFINE Less == {ss \in Nat \X Nat : ss[1] < ss[2]}
<1>1. IsWellFoundedOn(Less, Nat)
  BY NatLessThanWellFounded, Zenon DEF OpToRel
<1>2. \E x \in S : \A y \in S : ~(<<y, x>> \in Less)
  <2> HIDE DEF Less
  <2> QED  BY <1>1, WFMin, Zenon
<1>3. PICK x \in S : \A y \in S : ~(<<y, x>> \in Less)
  BY <1>2
<1>4. ASSUME NEW y \in S PROVE x <= y
  <2>1. x \in Nat /\ y \in Nat  OBVIOUS
  <2>2. <<y, x>> \in Nat \X Nat /\ <<y, x>>[1] = y /\ <<y, x>>[2] = x
    BY <2>1
  <2> QED  BY <2>1, <2>2, <1>3
<1> QED  BY <1>4

LEMMA LatestIs ==
  ASSUME NEW N \in Nat, NEW S \in SUBSET (0 .. N)
  PROVE  /\ Latest(S) \in S \cup {None}
         /\ \A u \in S : u <= Latest(S)
<1>1. CASE S = {}
  BY <1>1 DEF Latest
<1>2. CASE S # {}
  <2>1. {N - t : t \in S} \in SUBSET Nat /\ {N - t : t \in S} # {}
    <3>1. \A t \in S : N - t \in Nat  OBVIOUS
    <3> QED  BY <1>2, <3>1
  <2>2. PICK x \in {N - t : t \in S} : \A y \in {N - t : t \in S} : x <= y
    BY <2>1, HasLeast
  <2>3. PICK t \in S : x = N - t
    BY <2>2
  <2>4. \A u \in S : u <= t
    <3> TAKE u \in S
    <3>1. x <= N - u
      BY <2>2
    <3> QED  BY <3>1, <2>3
  <2> QED  BY <1>2, <2>4 DEF Latest
<1> QED  BY <1>1, <1>2

LEMMA PickIs ==
  ASSUME NEW fs \in SUBSET Frames, fs # {}
  PROVE  /\ Pick(fs) \in fs
         /\ \A g \in fs : g.at < Pick(fs).at \/ (g.at = Pick(fs).at /\ Pick(fs).nth <= g.nth)
<1> DEFINE Rank(f) == (End - f.at) * 7 + f.nth
           Ranks == {Rank(f) : f \in fs}
<1>1. \A f \in fs : f.at \in 0 .. End /\ f.nth \in 1 .. 6
  BY DEF Frames
<1>2. Ranks \in SUBSET Nat /\ Ranks # {}
  BY <1>1
<1>3. PICK x \in Ranks : \A y \in Ranks : x <= y
  <2> HIDE DEF Ranks
  <2> QED  BY <1>2, HasLeast
<1>4. PICK f \in fs : x = Rank(f)
  BY <1>3
<1>5. ASSUME NEW g \in fs PROVE g.at < f.at \/ (g.at = f.at /\ f.nth <= g.nth)
  <2>1. Rank(f) <= Rank(g)
    BY <1>3, <1>4
  <2> QED  BY <2>1, <1>1
<1> QED  BY <1>5 DEF Pick

LEMMA PickType == ASSUME NEW fs \in SUBSET Frames PROVE Pick(fs) \in fs \cup {Blank}
  BY PickIs DEF Pick

LEMMA BlankIs == Blank \in Dials /\ Blank.pct = UNKNOWN /\ Blank.resets = None
  BY DEF Blank, Dials

LEMMA RolledIs ==
  ASSUME NEW fs \in SUBSET Frames
  PROVE  /\ RolledAt(fs) \in Windows
         /\ \A f \in fs : f.rolled <= RolledAt(fs)
         /\ RolledAt(fs) # None => \E f \in fs : f.rolled = RolledAt(fs)
<1>1. {f.rolled : f \in fs} \in SUBSET (0 .. End + Window) /\ End + Window \in Nat
  BY DEF Frames
<1>2. /\ RolledAt(fs) \in {f.rolled : f \in fs} \cup {None}
      /\ \A u \in {f.rolled : f \in fs} : u <= RolledAt(fs)
  BY <1>1, LatestIs DEF RolledAt
<1> QED  BY <1>1, <1>2

LEMMA MergeIs ==
  ASSUME NEW fs \in SUBSET Frames
  PROVE  /\ Merge(fs) \in Dials
         /\ Merge(fs).resets = Pick(WithReset(fs)).resets
         /\ \/ Merge(fs).pct = UNKNOWN
            \/ \E f \in fs :
                 /\ f.pct >= 0 /\ Survives(f, RolledAt(fs))
                 /\ \A g \in fs : g.pct >= 0 /\ Survives(g, RolledAt(fs)) => g.at <= f.at
                 /\ Merge(fs).pct = f.pct /\ Merge(fs).win = f.win /\ Merge(fs).src = f.src
<1> DEFINE known == {f \in fs : f.pct >= 0 /\ Survives(f, RolledAt(fs))}
<1>1. known \in SUBSET Frames  OBVIOUS
<1>2. Figure(fs) = Pick(known)
  BY DEF Figure, known
<1>3. Blank \in Dials /\ Frames \subseteq Dials
  BY BlankIs DEF Frames, Dials
<1>4. Figure(fs) \in Dials
  <2>1. Pick(known) \in known \cup {Blank}
    BY <1>1, PickType
  <2> QED  BY <1>1, <1>2, <1>3, <2>1
<1>5. Pick(WithReset(fs)).resets \in Windows
  <2>1. Pick(WithReset(fs)) \in Frames \cup {Blank}
    BY PickType DEF WithReset
  <2> QED  BY <2>1 DEF Frames, Blank
<1>6. RolledAt(fs) \in Windows
  BY RolledIs
<1>7. Merge(fs) = [pct |-> Figure(fs).pct, at |-> Figure(fs).at, resets |-> Pick(WithReset(fs)).resets,
                   rolled |-> RolledAt(fs), win |-> Figure(fs).win, src |-> Figure(fs).src,
                   nth |-> Figure(fs).nth]
  <2> DEFINE F == Figure(fs)
  <2>1. Merge(fs) = [F EXCEPT !.resets = Pick(WithReset(fs)).resets, !.rolled = RolledAt(fs)]
    BY DEF Merge
  <2>2. F \in Dials
    BY <1>4
  <2> HIDE DEF F
  <2>3. Merge(fs) = [pct |-> F.pct, at |-> F.at, resets |-> Pick(WithReset(fs)).resets,
                     rolled |-> RolledAt(fs), win |-> F.win, src |-> F.src, nth |-> F.nth]
    BY <2>1, <2>2 DEF Dials
  <2> QED  BY <2>3 DEF F
<1>8. Merge(fs) \in Dials
  BY <1>4, <1>5, <1>6, <1>7 DEF Dials
<1>9. CASE known = {}
  <2>1. Figure(fs).pct = UNKNOWN
    BY <1>2, <1>9 DEF Pick, Blank
  <2> QED  BY <1>7, <1>8, <2>1
<1>10. CASE known # {}
  <2>1. Figure(fs) \in known /\ \A g \in known : g.at <= Figure(fs).at
    <3> HIDE DEF known
    <3>1. \A g \in known : g.at \in 0 .. End
      BY <1>1 DEF Frames
    <3> QED  BY <1>1, <1>2, <1>10, <3>1, PickIs
  <2>2. Figure(fs) \in fs /\ Figure(fs).pct >= 0 /\ Survives(Figure(fs), RolledAt(fs))
    BY <2>1
  <2>3. \A g \in fs : g.pct >= 0 /\ Survives(g, RolledAt(fs)) => g.at <= Figure(fs).at
    BY <2>1
  <2> QED  BY <1>7, <1>8, <2>2, <2>3
<1> QED  BY <1>9, <1>10

\* A poll makes the merged reading, or none; no figure is lost by that.
LEMMA DialIs ==
  ASSUME NEW fs \in SUBSET Frames, NEW d \in Merges(fs)
  PROVE  /\ d \in Dials
         /\ d = Merge(fs) \/ d = Blank
         /\ d.resets # None => d.resets = Pick(WithReset(fs)).resets
         /\ d.pct >= 0 => d = Merge(fs)
<1>1. d = Merge(fs) \/ d = Blank
  BY DEF Merges
<1>2. d = Blank => d.resets = None /\ ~(d.pct >= 0)
  BY BlankIs
<1> QED  BY <1>1, <1>2, BlankIs, MergeIs

-----------------------------------------------------------------------------
(* The frames of a poll.                                                   *)

LEMMA StatusSays ==
  ASSUME TypeOK, NEW p \in Reading, NEW n \in {1, 2}
  PROVE  /\ StatusFrame(p, n) \in Frames
         /\ StatusFrame(p, n).at = p.at /\ StatusFrame(p, n).win = p.resets
         /\ StatusFrame(p, n).src = "cli" /\ StatusFrame(p, n).nth = n
         /\ IF HasReset(p.resets)
            THEN /\ StatusFrame(p, n).rolled = p.resets /\ StatusFrame(p, n).resets = None
                 /\ StatusFrame(p, n).pct = RolledOver(p) /\ RolledOver(p) <= 0
            ELSE /\ StatusFrame(p, n).rolled = None /\ StatusFrame(p, n).resets = p.resets
                 /\ StatusFrame(p, n).pct = p.used
<1>1. RolledOver(p) \in {UNKNOWN, 0}
  BY DEF RolledOver
<1>2. CASE HasReset(p.resets)
  <2>1. StatusFrame(p, n) = Frame("cli", n, RolledOver(p), p.at, None, p.resets, p.resets)
    BY <1>2 DEF StatusFrame
  <2> QED  BY <1>1, <1>2, <2>1 DEF Frame, Frames, Reading
<1>3. CASE ~HasReset(p.resets)
  <2>1. StatusFrame(p, n) = Frame("cli", n, p.used, p.at, p.resets, None, p.resets)
    BY <1>3 DEF StatusFrame
  <2> QED  BY <1>3, <2>1 DEF Frame, Frames, Reading
<1> QED  BY <1>2, <1>3

LEMMA CliFramesAre ==
  ASSUME NEW f
  PROVE  f \in CliFrames <=> \/ payload # NoReading /\ f = StatusFrame(payload, 1)
                             \/ ~Remembers /\ remembered # NoReading /\ f = StatusFrame(remembered, 2)
<1> DEFINE first == {StatusFrame(p, 1) : p \in {payload} \ {NoReading}}
           second == {StatusFrame(p, 2) : p \in IF Remembers THEN {} ELSE {remembered} \ {NoReading}}
<1>1. f \in first <=> payload # NoReading /\ f = StatusFrame(payload, 1)  OBVIOUS
<1>2. f \in second <=> ~Remembers /\ remembered # NoReading /\ f = StatusFrame(remembered, 2)  OBVIOUS
<1>3. CliFrames = first \cup second  BY DEF CliFrames
<1> HIDE DEF first, second
<1> QED  BY <1>1, <1>2, <1>3

LEMMA DesktopFramesAre ==
  ASSUME TypeOK, NEW f \in DesktopFrames
  PROVE  /\ f \in Frames /\ f.src = "desktop" /\ f.resets = None /\ f.rolled = None
         /\ \E s \in samples : f.pct = s.used /\ f.at = s.at /\ f.win = s.win
<1>1. PICK s \in samples : f = Frame("desktop", 3, s.used, s.at, None, None, s.win)
  BY DEF DesktopFrames
<1>2. s \in [used : 0 .. Most, at : Times, win : Windows]
  BY DEF TypeOK
<1> QED  BY <1>1, <1>2 DEF Frame, Frames

LEMMA LsFramesAre ==
  ASSUME TypeOK, NEW f \in LsFrames
  PROVE  /\ f \in Frames /\ f.src = "ls" /\ record.at # None
         /\ f.pct > 0 => f.win = None \/ Wall < f.win
         /\ f.rolled # None => f.rolled <= Wall
<1>1. record \in Reading /\ f = LsFrame /\ record.at # None
  BY DEF TypeOK, LsFrames
<1>2. CASE HasReset(record.resets)
  BY <1>1, <1>2 DEF LsFrame, Frame, Frames, Reading, HasReset
<1>3. CASE ~HasReset(record.resets)
  BY <1>1, <1>3 DEF TypeOK, LsFrame, Frame, Frames, Reading, HasReset
<1> QED  BY <1>2, <1>3

LEMMA CodexFramesAre ==
  ASSUME TypeOK, NEW f \in CodexFrames
  PROVE  f \in Frames /\ f.src = "codex"
  BY DEF TypeOK, CodexFrames, Frame, Frames, Reading

\* The boundary projected is the first after the present that is whole weeks later.
LEMMA ProjectIs ==
  ASSUME TypeOK, NEW a \in Note
  PROVE  /\ Project(a) \in Windows /\ Wall < Project(a)
         /\ a.resets <= Wall => Project(a) <= Wall + Window
         /\ a.resets > Wall => Project(a) = a.resets
         /\ \E q \in Nat : Project(a) = a.resets + q * Window
<1>1. a.resets \in Nat /\ a.resets <= End + Window /\ Wall \in Int /\ Wall <= End /\ Window \in Nat
      /\ Window > 0
  BY DEF TypeOK, Note
<1>2. CASE a.resets <= Wall
  <2> DEFINE q == (Wall - a.resets) \div Window + 1
  <2>1. q \in Nat /\ q > 0
    BY <1>1, <1>2
  <2>2. Wall < a.resets + q * Window /\ a.resets + q * Window <= Wall + Window
    BY <1>1, <1>2
  <2>3. Project(a) = a.resets + q * Window
    BY <1>2 DEF Project
  <2>4. a.resets + q * Window \in Int
    BY <1>1, <2>1
  <2> HIDE DEF q
  <2> QED  BY <1>1, <1>2, <2>1, <2>2, <2>3, <2>4
<1>3. CASE a.resets > Wall
  <2>1. Project(a) = a.resets + 0 * Window /\ Project(a) = a.resets
    BY <1>1, <1>3 DEF Project
  <2> QED  BY <1>1, <1>3, <2>1
<1> QED  BY <1>1, <1>2, <1>3

LEMMA AnchorFramesAre ==
  ASSUME TypeOK, NEW f \in AnchorFrames
  PROVE  /\ f \in Frames /\ f.src = "anchor" /\ f.pct = UNKNOWN /\ f.rolled = None
         /\ ~Session /\ Offered(anchor) /\ f.at = anchor.at /\ f.resets = Project(anchor)
<1>1. /\ ~Session /\ Offered(anchor)
      /\ f = Frame("anchor", 6, UNKNOWN, anchor.at, Project(anchor), None, None)
  BY DEF AnchorFrames
<1>2. anchor \in Note /\ Project(anchor) \in Windows
  BY ProjectIs DEF TypeOK
<1> QED  BY <1>1, <1>2 DEF Frame, Frames, Note

LEMMA HeardIs ==
  ASSUME NEW S, NEW f
  PROVE  f \in Heard(S) <=> \/ "cli" \in S /\ f \in CliFrames
                            \/ "desktop" \in S /\ f \in DesktopFrames
                            \/ "ls" \in S /\ f \in LsFrames
                            \/ "codex" \in S /\ f \in CodexFrames
                            \/ "anchor" \in S /\ f \in AnchorFrames
  BY DEF Heard

LEMMA HeardType ==
  ASSUME TypeOK, NEW S
  PROVE  Heard(S) \in SUBSET Frames /\ Ours(Heard(S)) \in SUBSET Frames
<1>1. ASSUME NEW f \in CliFrames PROVE f \in Frames
  <2>1. payload \in Reading /\ remembered \in Reading
    BY DEF TypeOK
  <2> QED  BY <2>1, CliFramesAre, StatusSays
<1> QED  BY <1>1, HeardIs, DesktopFramesAre, LsFramesAre, CodexFramesAre, AnchorFramesAre DEF Ours

-----------------------------------------------------------------------------
(* The account and those who write of it.                                  *)

LEMMA NothingIs ==
  /\ NoReading \in Reading /\ NoReading.used = UNKNOWN /\ NoReading.resets = None /\ NoReading.at = None
  /\ Working \in [since : Times, retry : Nat, wait : 0 .. MaxRetry] /\ Working.wait = 0
  BY DEF NoReading, Reading, Working

LEMMA InitInv == Init => IInv
<1> SUFFICES ASSUME Init PROVE IInv  OBVIOUS
<1>1. TypeOK
  <2>1. now \in Start .. End /\ lag \in {0, Back} /\ resets \in Windows /\ used \in 0 .. Most
    BY DEF Init
  <2>2. {audit, anchor} \subseteq Note
    BY <2>1 DEF Init, Note
  <2>3. saw \in Times /\ zeroed \in Windows /\ acts \in 0 .. Acts /\ faults \in 0 .. Faults
    BY DEF Init
  <2>4. /\ broken \in [Providers -> [since : Times, retry : Nat, wait : 0 .. MaxRetry]]
        /\ quiet \in [Providers -> Nat] /\ failed \subseteq Providers
    BY NothingIs DEF Init
  <2> QED  BY <2>1, <2>2, <2>3, <2>4, NothingIs, BlankIs DEF Init, TypeOK
<1>2. Calendar /\ Sampled
  <2>1. now \in Nat /\ Window \in Nat /\ 1 < Window
    BY DEF Init
  <2>2. resets # None => resets = now + Window - 1
    BY DEF Init
  <2>3. ~Session => resets = now + Window - 1 /\ remembered = NoReading /\ record.at = None
    BY NothingIs DEF Init
  <2>4. samples = {}
    BY DEF Init
  <2> QED  BY <2>1, <2>2, <2>3, <2>4 DEF Calendar, Sampled
<1>3. Drawn /\ Forgiven
  BY NothingIs DEF Init, Drawn, Forgiven
<1>4. Aligned(resets)
  <2>1. resets = resets + 0 * Window
    BY DEF Init
  <2> QED  BY <2>1 DEF Aligned
<1>5. Vouched
  BY <1>4 DEF Init, Vouched, NoReading
<1>6. BackedOff
  BY DEF Init, BackedOff, Working
<1>7. ZeroStaysZero /\ ResetShown
  BY DEF Init, ZeroStaysZero, ResetShown
<1> QED  BY <1>1, <1>2, <1>3, <1>5, <1>6, <1>7 DEF IInv

LEMMA Unpolled == polled' = FALSE => ZeroStaysZero' /\ ResetShown'
  BY DEF ZeroStaysZero, ResetShown

LEMMA ActStep ==
  ASSUME IInv, Act
  PROVE  /\ BackedOff' /\ ZeroStaysZero' /\ ResetShown'
         /\ kind' \in Kinds /\ now' \in Start .. End /\ lag' \in {0, Back}
         /\ {audit', anchor'} \subseteq Note
         /\ broken' \in [Providers -> [since : Times, retry : Nat, wait : 0 .. MaxRetry]]
         /\ dial' \in Dials /\ {polled', seeded'} \subseteq BOOLEAN
         /\ acts' \in 0 .. Acts /\ faults' \in 0 .. Faults
         /\ quiet' \in [Providers -> Nat] /\ failed' \subseteq Providers
         /\ zeroed' \in Windows /\ saw' \in Times /\ remembered' \in Reading
<1>1. BackedOff'
  BY DEF IInv, BackedOff, Waited, Act, daemon
<1>2. polled' = FALSE /\ UNCHANGED <<daemon, now, lag, faults, kind, audit>>
  BY DEF Act
<1>3. acts' \in 0 .. Acts
  BY DEF IInv, TypeOK, Act
<1> QED  BY <1>1, <1>2, <1>3, Unpolled DEF IInv, TypeOK, daemon

LEMMA SameBoundary == ASSUME NEW r, resets' = resets, Aligned(r) PROVE Aligned(r)'
  BY DEF Aligned

LEMMA OpenedIs ==
  ASSUME TypeOK, Calendar
  PROVE  /\ Opened \in Windows /\ now < Opened /\ Opened <= now + Window
         /\ Used \in 0 .. Most /\ used <= Used
         /\ resets # None => Opened = resets
         /\ ~Session => Opened = resets
  BY DEF TypeOK, Calendar, Opened, Used

LEMMA TurnStep ==
  ASSUME IInv, Turn
  PROVE  IInv'
<1>1. TypeOK'
  <2>1. Wall \in Times
    BY DEF IInv, TypeOK
  <2>2. cli' \in Reading /\ payload' \in Reading
    BY <2>1, OpenedIs DEF IInv, TypeOK, Turn, Reading
  <2> QED  BY <2>2, OpenedIs, ActStep DEF IInv, TypeOK, Turn
<1>2. Calendar'
  BY OpenedIs DEF IInv, Calendar, Turn, Act, daemon
<1>3. Drawn'
  BY OpenedIs DEF IInv, TypeOK, Drawn, Turn, Act
<1>4. Forgiven'
  <2> SUFFICES ASSUME Session, RightClock PROVE Forgiven'
    BY DEF Forgiven, Turn, Act
  <2>1. /\ cli'.resets = Opened /\ cli'.at = now /\ payload' = cli' /\ resets' = Opened
        /\ UNCHANGED <<kind, now, lag, remembered, zeroed, samples>>
    BY DEF IInv, TypeOK, Turn, Act, daemon
  <2>2. {cli, remembered} \subseteq Reading /\ zeroed \in Windows /\ now \in Nat
    BY DEF IInv, TypeOK
  <2>3. remembered.resets <= Opened /\ (remembered.resets < Opened => remembered.resets <= now)
    <3>1. /\ cli.resets \in Nat /\ remembered.resets \in Nat /\ cli.at \in Nat
      BY <2>2 DEF Reading
    <3>2. /\ remembered.resets <= cli.resets
          /\ cli.resets <= now \/ cli.resets = resets
          /\ remembered.resets < cli.resets => remembered.resets <= cli.at
      BY DEF IInv, Forgiven
    <3>3. now < Opened /\ Opened \in Nat /\ (resets = None \/ Opened = resets)
      BY OpenedIs DEF IInv
    <3>4. cli.at <= now
      BY DEF IInv, Drawn
    <3> QED  BY <2>2, <3>1, <3>2, <3>3, <3>4
  <2>4. zeroed <= now
    BY <2>2 DEF IInv, Forgiven
  <2> QED  BY <2>1, <2>3, <2>4 DEF IInv, Forgiven
<1>5. Vouched'
  <2>1. ~Session => Opened = Opened + 0 * Window /\ resets' = resets
    BY OpenedIs DEF IInv, Turn
  <2> QED  BY <2>1, SameBoundary DEF IInv, Vouched, Aligned, Turn, Act, daemon
<1>6. Sampled'
  BY OpenedIs, SameBoundary DEF IInv, TypeOK, Sampled, Turn, Act
<1> QED  BY <1>1, <1>2, <1>3, <1>4, <1>5, <1>6, ActStep DEF IInv, Turn

LEMMA RedrawStep ==
  ASSUME IInv, Redraw
  PROVE  IInv'
<1>1. payload' \in Reading /\ payload'.at = Wall
      /\ (payload' = [cli EXCEPT !.at = Wall] \/ payload' = [NoReading EXCEPT !.at = Wall])
  BY DEF IInv, TypeOK, Reading, NoReading, Redraw
<1>2. payload'.resets \in {None, cli.resets}
      /\ (RightClock => (payload'.used >= 0 <=> payload'.resets # None))
  BY <1>1 DEF IInv, TypeOK, Drawn, Reading, NoReading
<1>3. TypeOK'
  BY <1>1, ActStep DEF IInv, TypeOK, Redraw
<1>4. Calendar' /\ Drawn'
  BY <1>1, <1>2 DEF IInv, TypeOK, Calendar, Drawn, Reading, NoReading, Redraw, Act, daemon
<1>5. Forgiven'
  BY <1>1, <1>2 DEF IInv, TypeOK, Forgiven, Reading, Redraw, Act, daemon
<1>6. Vouched' /\ Sampled'
  BY SameBoundary DEF IInv, Vouched, Sampled, Redraw, Act, daemon
<1> QED  BY <1>3, <1>4, <1>5, <1>6, ActStep DEF IInv, Redraw

LEMMA ElsewhereStep ==
  ASSUME IInv, Elsewhere
  PROVE  IInv'
<1>1. TypeOK'
  BY OpenedIs, ActStep DEF IInv, TypeOK, Elsewhere
<1>2. Calendar' /\ Drawn' /\ Forgiven'
  BY OpenedIs DEF IInv, TypeOK, Calendar, Drawn, Forgiven, Reading, Elsewhere, Act, daemon
<1>3. Vouched' /\ Sampled'
  BY OpenedIs, SameBoundary DEF IInv, TypeOK, Vouched, Sampled, Elsewhere, Act, daemon
<1> QED  BY <1>1, <1>2, <1>3, ActStep DEF IInv, Elsewhere

LEMMA SampleStep ==
  ASSUME IInv, Sample
  PROVE  IInv'
<1> DEFINE new == [used |-> used, at |-> Wall, win |-> resets]
<1>1. new \in [used : 0 .. Most, at : Times, win : Windows]
      /\ new.used = used /\ new.at = Wall /\ new.win = resets
  BY DEF IInv, TypeOK
<1>2. samples' = samples \cup {new}
  BY DEF Sample
<1> HIDE DEF new
<1>3. TypeOK'
  BY <1>1, <1>2, ActStep DEF IInv, TypeOK, Sample
<1>4. Calendar' /\ Drawn'
  BY DEF IInv, Calendar, Drawn, Sample, Act, daemon
<1>5. Forgiven'
  BY <1>1, <1>2 DEF IInv, TypeOK, Calendar, Forgiven, Sample, Act, daemon
<1>6. Vouched'
  BY SameBoundary DEF IInv, Vouched, Sample, Act, daemon
<1>7. Sampled'
  <2> SUFFICES ASSUME ~Session, RightClock, ~moved PROVE Sampled'
    BY DEF Sampled, Sample, Act
  <2>1. Aligned(resets)
    <3>1. resets = resets + 0 * Window
      BY DEF IInv, TypeOK
    <3> QED  BY <3>1 DEF Aligned
  <2>2. new.at <= now /\ new.at < new.win /\ Aligned(new.win) /\ new.win = resets /\ new.used <= used
    BY <1>1, <2>1 DEF IInv, TypeOK, Calendar
  <2>3. \A s \in samples \cup {new} : /\ s.at <= now /\ s.at < s.win /\ Aligned(s.win)
                                      /\ s.win <= now \/ (s.win = resets /\ s.used <= used)
    BY <2>2 DEF IInv, Sampled
  <2>4. \A s, t \in samples \cup {new} : s.at < t.at /\ t.used < s.used => s.win <= t.at
    <3> SUFFICES ASSUME NEW s \in samples \cup {new}, NEW t \in samples \cup {new}, s.at < t.at,
                        t.used < s.used
                 PROVE  s.win <= t.at
      OBVIOUS
    <3>1. {s, t} \subseteq [used : 0 .. Most, at : Times, win : Windows]
      BY <1>1 DEF IInv, TypeOK
    <3>2. CASE s \in samples /\ t \in samples
      BY <3>2 DEF IInv, Sampled
    <3>3. CASE t = new
      BY <3>1, <3>3, <2>3, <1>1 DEF IInv, TypeOK
    <3>4. CASE s = new
      BY <3>1, <3>4, <2>3, <1>1 DEF IInv, TypeOK
    <3> QED  BY <3>2, <3>3, <3>4
  <2> QED  BY <1>2, <2>3, <2>4, SameBoundary DEF Sampled, Sample, Act
<1> QED  BY <1>3, <1>4, <1>5, <1>6, <1>7, ActStep DEF IInv, Sample

LEMMA RecordStep ==
  ASSUME IInv, Record
  PROVE  IInv'
<1>1. TypeOK'
  <2>1. record' \in Reading
    BY DEF IInv, TypeOK, Reading, Record
  <2> QED  BY <2>1, ActStep DEF IInv, TypeOK, Record
<1>2. Calendar' /\ Drawn' /\ Forgiven' /\ Vouched' /\ Sampled'
  BY SameBoundary DEF IInv, Calendar, Drawn, Forgiven, Vouched, Sampled, Record, Act, daemon
<1> QED  BY <1>1, <1>2, ActStep DEF IInv, Record

LEMMA CodexTurnStep ==
  ASSUME IInv, CodexTurn
  PROVE  IInv'
<1>1. TypeOK'
  <2>1. (now \div Window + 1) * Window \in Windows
    <3>1. now \in Nat /\ now <= End /\ Window \in Nat /\ 0 < Window /\ End \in Nat
      BY DEF IInv, TypeOK
    <3>2. now \div Window \in Nat /\ (now \div Window) * Window <= now
      BY <3>1
    <3>3. (now \div Window + 1) * Window = (now \div Window) * Window + Window
      BY <3>1, <3>2
    <3> QED  BY <3>1, <3>2, <3>3
  <2>2. codex' \in Reading
    BY <2>1 DEF IInv, TypeOK, Reading, CodexTurn
  <2> QED  BY <2>2, ActStep DEF IInv, TypeOK, CodexTurn
<1>2. Calendar' /\ Drawn' /\ Forgiven' /\ Vouched' /\ Sampled'
  BY SameBoundary DEF IInv, Calendar, Drawn, Forgiven, Vouched, Sampled, CodexTurn, Act, daemon
<1> QED  BY <1>1, <1>2, ActStep DEF IInv, CodexTurn

LEMMA MoveStep ==
  ASSUME IInv, Move
  PROVE  IInv'
<1>1. TypeOK'
  BY ActStep DEF IInv, TypeOK, Calendar, Move
<1>2. Calendar' /\ Drawn' /\ Forgiven' /\ Vouched' /\ Sampled'
  BY DEF IInv, TypeOK, Calendar, Drawn, Forgiven, Vouched, Sampled, Move, Act, daemon
<1> QED  BY <1>1, <1>2, ActStep DEF IInv, Move

-----------------------------------------------------------------------------
(* Time.                                                                   *)

LEMMA NextWeek ==
  ASSUME TypeOK, NEW r \in Windows, Aligned(r), resets' \in {resets, resets + Window}
  PROVE  Aligned(r)'
<1>1. PICK k \in Nat : resets = r + k * Window
  BY DEF Aligned
<1>2. k + 1 \in Nat /\ r + (k + 1) * Window = resets + Window
  BY <1>1 DEF TypeOK
<1> QED  BY <1>1, <1>2 DEF Aligned

LEMMA TickStep ==
  ASSUME IInv, Tick
  PROVE  IInv'
<1> USE DEF Tick
<1>1. TypeOK'
  <2>1. resets' \in Windows /\ used' \in 0 .. Most
    BY DEF IInv, TypeOK, Calendar
  <2>2. quiet' \in [Providers -> Nat]
    BY DEF IInv, TypeOK
  <2>3. acts' \in 0 .. Acts /\ faults' \in 0 .. Faults
    BY DEF IInv, TypeOK, Fault
  <2>4. now' \in Start .. End
    BY DEF IInv, TypeOK
  <2> QED  BY <2>1, <2>2, <2>3, <2>4 DEF IInv, TypeOK
<1>2. Calendar'
  BY DEF IInv, TypeOK, Calendar
<1>3. Drawn'
  BY DEF IInv, TypeOK, Reading, Drawn
<1>4. Forgiven'
  BY DEF IInv, TypeOK, Reading, Calendar, Forgiven
<1>5. resets' \in {resets, resets + Window} \/ Session
  BY DEF IInv, Calendar
<1>6. Vouched'
  BY <1>5, NextWeek DEF IInv, TypeOK, Reading, Note, Vouched
<1>7. Sampled'
  <2> SUFFICES ASSUME ~Session, RightClock, ~moved PROVE Sampled'
    BY DEF Sampled
  <2>1. ASSUME NEW s \in samples
        PROVE  /\ s.at <= now' /\ s.at < s.win /\ Aligned(s.win)'
               /\ s.win <= now' \/ (s.win = resets' /\ s.used <= used')
    <3>1. s \in [used : 0 .. Most, at : Times, win : Windows]
      BY DEF IInv, TypeOK
    <3>2. Aligned(s.win)'
      BY <1>5, <3>1, NextWeek DEF IInv, Sampled
    <3> QED  BY <3>1, <3>2 DEF IInv, TypeOK, Sampled
  <2> QED  BY <2>1 DEF IInv, Sampled
<1>8. BackedOff'
  <2> SUFFICES ASSUME NEW p \in Providers
               PROVE  /\ p \notin failed => broken[p].wait = 0
                      /\ broken[p].wait > 0 =>
                           /\ broken[p].since <= now' /\ broken[p].retry = broken[p].since + broken[p].wait
                           /\ Waited(broken[p], quiet[p])'
    BY DEF BackedOff
  <2>1. broken[p] \in [since : Times, retry : Nat, wait : 0 .. MaxRetry] /\ quiet[p] \in Nat
    BY DEF IInv, TypeOK
  <2>2. quiet'[p] \in Nat /\ quiet'[p] <= quiet[p] + 1 /\ (polled \/ quiet'[p] = quiet[p])
    BY <2>1
  <2> QED  BY <2>1, <2>2 DEF IInv, TypeOK, BackedOff, Waited
<1> QED  BY <1>1, <1>2, <1>3, <1>4, <1>6, <1>7, <1>8, Unpolled DEF IInv

LEMMA StepBackStep ==
  ASSUME IInv, StepBack
  PROVE  IInv'
<1> USE DEF StepBack, desk, daemon
<1>1. TypeOK' /\ Calendar'
  BY DEF IInv, TypeOK, Calendar
<1>2. Drawn' /\ Forgiven'
  BY DEF IInv, TypeOK, Drawn, Forgiven
<1>3. Vouched' /\ Sampled'
  BY SameBoundary DEF IInv, TypeOK, Vouched, Sampled
<1>4. BackedOff'
  BY DEF IInv, TypeOK, BackedOff, Waited
<1> QED  BY <1>1, <1>2, <1>3, <1>4, Unpolled DEF IInv

LEMMA RestartStep ==
  ASSUME IInv, Restart
  PROVE  IInv'
<1> USE DEF Restart, desk
<1>1. TypeOK'
  <2>1. broken' \in [Providers -> [since : Times, retry : Nat, wait : 0 .. MaxRetry]]
    BY NothingIs
  <2>2. acts' \in 0 .. Acts /\ faults' \in 0 .. Faults /\ quiet' \in [Providers -> Nat]
    BY DEF IInv, TypeOK, Fault
  <2>3. remembered' = NoReading /\ dial' = Blank /\ {polled', seeded', moved'} \subseteq BOOLEAN
        /\ failed' = {} /\ zeroed' = None
    BY DEF IInv, TypeOK
  <2>4. UNCHANGED <<kind, now, lag, used, resets, cli, payload, record, codex, samples, audit, anchor, saw>>
    OBVIOUS
  <2> QED  BY <2>1, <2>2, <2>3, <2>4, NothingIs, BlankIs DEF IInv, TypeOK
<1>2. Calendar' /\ Drawn'
  BY DEF IInv, TypeOK, Calendar, Drawn
<1>3. Forgiven'
  BY DEF IInv, TypeOK, Forgiven, Reading, NoReading
<1>4. Vouched' /\ Sampled'
  BY SameBoundary DEF IInv, TypeOK, Vouched, Sampled
<1>5. BackedOff'
  BY DEF BackedOff, Working
<1> QED  BY <1>1, <1>2, <1>3, <1>4, <1>5, Unpolled DEF IInv

-----------------------------------------------------------------------------
(* A poll.                                                                 *)

Fs(R) == Heard(Asked \ R)

LEMMA PollIs ==
  ASSUME TypeOK, NEW R \in SUBSET Asked, Poll(R)
  PROVE  /\ polled' = TRUE
         /\ UNCHANGED <<kind, used, resets, cli, payload, samples, record, codex, audit, moved, now, lag>>
         /\ Polled(Asked, R, Fs(R), Ours(Fs(R)))
         /\ Fs(R) \in SUBSET Frames /\ Ours(Fs(R)) \in SUBSET Frames
  BY HeardType DEF Poll, desk, Fs

LEMMA SawIs ==
  ASSUME TypeOK, NEW R \in SUBSET Asked, Poll(R)
  PROVE  /\ saw' \in Times /\ saw <= saw'
         /\ \A f \in Fs(R) : f.src = "cli" /\ f.resets # None => f.at <= saw'
<1> DEFINE boundaries == {f.at : f \in {g \in Fs(R) : g.src = "cli" /\ g.resets # None}}
<1>1. saw' = Latest(boundaries \cup {saw})
  BY PollIs DEF Polled
<1>2. boundaries \cup {saw} \in SUBSET (0 .. End) /\ End \in Nat
  <2>1. \A f \in Fs(R) : f.at \in 0 .. End
    BY PollIs DEF Frames
  <2>2. boundaries \subseteq 0 .. End
    BY <2>1
  <2> QED  BY <2>2 DEF TypeOK
<1>3. \A f \in Fs(R) : f.src = "cli" /\ f.resets # None => f.at \in boundaries
  OBVIOUS
<1> HIDE DEF boundaries
<1>4. saw' \in boundaries \cup {saw} \cup {None} /\ \A u \in boundaries \cup {saw} : u <= saw'
  BY <1>1, <1>2, LatestIs
<1> QED  BY <1>2, <1>3, <1>4

LEMMA FailingIs ==
  ASSUME TypeOK, NEW p \in Providers
  PROVE  LET b == Failing(broken[p])
         IN /\ b \in [since : Times, retry : Nat, wait : 0 .. MaxRetry]
            /\ b.since = Wall /\ b.wait > 0 /\ b.retry = b.since + b.wait
<1> DEFINE wait == IF broken[p].wait > 0 THEN Smaller(2 * broken[p].wait, MaxRetry) ELSE FirstRetry
<1>1. wait \in 1 .. MaxRetry
  BY DEF TypeOK, Smaller
<1>2. Wall \in Times /\ Wall \in Nat
  BY DEF TypeOK
<1>3. Failing(broken[p]) = [since |-> Wall, retry |-> Wall + wait, wait |-> wait]
  BY DEF Failing
<1> HIDE DEF wait
<1> QED  BY <1>1, <1>2, <1>3

\* The boundary a poll takes note of, and where it has it from.
LEMMA NotedIs ==
  ASSUME TypeOK, NEW R \in SUBSET Asked, Poll(R)
  PROVE  /\ anchor' \in Note
         /\ \/ anchor' \in {anchor, audit}
            \/ /\ ~Session /\ anchor'.resets # None
               /\ \E f \in Ours(Fs(R)) : f.resets # None /\ anchor'.resets = f.resets /\ anchor'.at = f.at
                                         /\ f.at > anchor.at
<1> DEFINE best == Pick(WithReset(Ours(Fs(R))))
<1>1. anchor' = Seeded(Observed(Fs(R)))
  BY PollIs DEF Polled
<1>2. WithReset(Ours(Fs(R))) \in SUBSET Frames
  BY PollIs DEF WithReset
<1>3. best \in WithReset(Ours(Fs(R))) \cup {Blank}
  BY <1>2, PickType
<1>4. CASE Session \/ best = Blank \/ best.at <= anchor.at
  <2>1. Observed(Fs(R)) = anchor
    BY <1>4 DEF Observed, Learns
  <2> QED  BY <1>1, <2>1 DEF Seeded, TypeOK
<1>5. CASE ~(Session \/ best = Blank \/ best.at <= anchor.at)
  <2>1. Observed(Fs(R)) = [resets |-> best.resets, at |-> best.at]
    BY <1>5 DEF Observed, Learns
  <2>2. best \in Ours(Fs(R)) /\ best.resets # None /\ best \in Frames
    BY <1>2, <1>3, <1>5 DEF WithReset
  <2>3. Observed(Fs(R)) \in Note
    BY <2>1, <2>2 DEF Frames, Note
  <2>4. best.at > anchor.at
    BY <1>5, <2>2 DEF TypeOK, Note, Frames
  <2> HIDE DEF best
  <2>5. CASE anchor' = audit
    BY <2>5 DEF TypeOK
  <2>6. CASE anchor' = Observed(Fs(R))
    BY <1>5, <2>1, <2>2, <2>3, <2>4, <2>6
  <2> QED  BY <1>1, <2>5, <2>6 DEF Seeded
<1> QED  BY <1>4, <1>5

LEMMA PollTypes ==
  ASSUME TypeOK, NEW R \in SUBSET Asked, Poll(R), acts' \in 0 .. Acts, faults' \in 0 .. Faults
  PROVE  TypeOK'
<1>1. Polled(Asked, R, Fs(R), Ours(Fs(R)))
  BY PollIs
<1>2. dial' \in Dials
  BY <1>1, PollIs, DialIs DEF Polled
<1>3. remembered' \in Reading
  BY <1>1 DEF TypeOK, Polled
<1>4. broken' \in [Providers -> [since : Times, retry : Nat, wait : 0 .. MaxRetry]]
  BY <1>1, FailingIs, NothingIs DEF TypeOK, Polled
<1>5. quiet' \in [Providers -> Nat] /\ failed' \subseteq Providers /\ seeded' = TRUE
  BY <1>1 DEF TypeOK, Polled, Asked
<1>6. zeroed' \in Windows
  BY <1>1, <1>2 DEF TypeOK, Polled, Dials
<1> QED  BY <1>2, <1>3, <1>4, <1>5, <1>6, PollIs, SawIs, NotedIs DEF TypeOK

LEMMA PollBackedOff ==
  ASSUME TypeOK, BackedOff, NEW R \in SUBSET Asked, Poll(R)
  PROVE  BackedOff'
<1>1. Polled(Asked, R, Fs(R), Ours(Fs(R))) /\ UNCHANGED <<now, lag>>
  BY PollIs
<1> SUFFICES ASSUME NEW p \in Providers
             PROVE  /\ p \notin failed' => broken'[p].wait = 0
                    /\ broken'[p].wait = 0 => quiet'[p] = 0
                    /\ broken'[p].wait > 0 =>
                         /\ broken'[p].since <= now /\ broken'[p].retry = broken'[p].since + broken'[p].wait
                         /\ Waited(broken'[p], quiet'[p])
                         /\ broken'[p].since <= Wall /\ Wall < broken'[p].retry
  BY <1>1, PollIs DEF BackedOff, Waited
<1>2. CASE p \in R
  <2>1. broken'[p] = Failing(broken[p]) /\ quiet'[p] = 0 /\ p \in failed'
    BY <1>1, <1>2 DEF Polled
  <2> QED  BY <2>1, FailingIs DEF TypeOK, Waited
<1>3. CASE p \in Asked \ R
  BY <1>1, <1>3, NothingIs DEF Polled
<1>4. CASE p \notin Asked
  <2>1. broken'[p] = broken[p] /\ quiet'[p] = quiet[p] /\ (p \notin failed' => p \notin failed)
    BY <1>1, <1>4 DEF Polled
  <2>2. broken[p].wait > 0 /\ Wall < broken[p].retry /\ broken[p].since <= Wall
    BY <1>4 DEF TypeOK, Asked, SitsOut, CooldownOver
  <2> QED  BY <2>1, <2>2 DEF TypeOK, BackedOff, Waited
<1> QED  BY <1>2, <1>3, <1>4

-----------------------------------------------------------------------------
(* The weekly reset.                                                       *)

LEMMA Multiples ==
  ASSUME NEW j \in Int, NEW k \in Int, j < k
  PROVE  j * Window + Window <= k * Window
  OBVIOUS

\* There is one boundary of the account in the week to come.
LEMMA OneAhead ==
  ASSUME TypeOK, Calendar, resets # None, NEW r \in Windows, Aligned(r), NEW q \in Nat,
         now < r + q * Window, q = 0 \/ r + q * Window <= now + Window
  PROVE  r + q * Window = resets
<1>1. PICK k \in Nat : resets = r + k * Window
  BY DEF Aligned
<1>2. now < resets /\ resets <= now + Window /\ now \in Nat /\ r \in Nat
  BY DEF TypeOK, Calendar
<1>3. q * Window \in Nat /\ k * Window \in Nat
  OBVIOUS
<1>4. ~(q < k)
  <2> SUFFICES ASSUME q < k PROVE FALSE  OBVIOUS
  <2>1. q * Window + Window <= k * Window
    BY Multiples
  <2> QED  BY <1>1, <1>2, <1>3, <2>1
<1>5. ~(k < q)
  <2> SUFFICES ASSUME k < q PROVE FALSE  OBVIOUS
  <2>1. k * Window + Window <= q * Window
    BY Multiples
  <2> QED  BY <1>1, <1>2, <1>3, <2>1
<1>6. q = k
  BY <1>4, <1>5
<1> QED  BY <1>1, <1>6

LEMMA ProjectIsTrue ==
  ASSUME TypeOK, Calendar, RightClock, resets # None, NEW a \in Note, Aligned(a.resets)
  PROVE  Project(a) = resets
<1>1. a.resets \in Windows /\ now \in Nat /\ lag = 0
  BY DEF TypeOK, Note
<1>2. CASE a.resets <= Wall
  <2>1. PICK q \in Nat : Project(a) = a.resets + q * Window
    BY ProjectIs
  <2>2. now < a.resets + q * Window /\ a.resets + q * Window <= now + Window
    BY <1>1, <1>2, <2>1, ProjectIs
  <2> QED  BY <1>1, <2>1, <2>2, OneAhead
<1>3. CASE a.resets > Wall
  <2>1. Project(a) = a.resets + 0 * Window /\ now < a.resets + 0 * Window
    BY <1>1, <1>3, ProjectIs
  <2> QED  BY <1>1, <2>1, OneAhead
<1> QED  BY <1>1, <1>2, <1>3

\* A frame with a reset is the status line's or the note's.
LEMMA WeekIsTold ==
  ASSUME TypeOK, Calendar, ~Session, NEW R \in SUBSET Asked, NEW f \in Ours(Fs(R)), f.resets # None
  PROVE  \/ f \in AnchorFrames
         \/ f.src = "cli" /\ f = StatusFrame(payload, 1) /\ f.at = payload.at
            /\ f.resets = payload.resets /\ Wall < payload.resets
<1>1. f \in Fs(R) /\ f.src # "codex"
  BY DEF Ours
<1>2. f \notin DesktopFrames /\ f \notin CodexFrames /\ f \notin LsFrames
  BY <1>1, DesktopFramesAre, CodexFramesAre, LsFramesAre DEF Calendar
<1>3. CASE f \in CliFrames
  <2>1. f = StatusFrame(payload, 1) /\ payload \in Reading
    BY <1>3, CliFramesAre DEF Calendar, TypeOK
  <2> QED  BY <2>1, StatusSays DEF TypeOK, Reading, HasReset
<1> QED  BY <1>1, <1>2, <1>3, HeardIs DEF Fs

LEMMA PollVouched ==
  ASSUME IInv, NEW R \in SUBSET Asked, Poll(R)
  PROVE  Vouched'
<1>1. /\ TypeOK /\ Calendar /\ Vouched /\ Drawn
  BY DEF IInv
<1>2. UNCHANGED <<kind, lag, resets, cli, audit, moved>>
  BY <1>1, PollIs
<1> SUFFICES ASSUME ~Session, RightClock PROVE Vouched'
  BY <1>2 DEF Vouched
<1>3. saw \in Nat /\ saw' \in Nat /\ saw <= saw' /\ audit.at \in Nat /\ anchor.at \in Nat
  BY <1>1, SawIs DEF TypeOK, Note
<1>4. /\ anchor'.at <= saw' /\ (anchor'.at # None => anchor'.resets # None)
      /\ ~moved /\ anchor'.resets # None => Aligned(anchor'.resets)
  <2>1. CASE anchor' \in {anchor, audit}
    BY <1>1, <1>3, <2>1 DEF Vouched
  <2>2. ASSUME NEW f \in Ours(Fs(R)), f.resets # None, anchor'.resets = f.resets, anchor'.at = f.at,
               f.at > anchor.at
        PROVE  /\ anchor'.at <= saw' /\ (anchor'.at # None => anchor'.resets # None)
               /\ ~moved /\ anchor'.resets # None => Aligned(anchor'.resets)
    <3>1. f \notin AnchorFrames
      BY <1>1, <1>3, <2>2, AnchorFramesAre
    <3>2. f.src = "cli" /\ f.resets = payload.resets /\ f \in Fs(R)
      BY <1>1, <2>2, <3>1, WeekIsTold DEF Ours
    <3>3. f.at <= saw'
      BY <1>1, <2>2, <3>2, SawIs
    <3>4. payload.resets = cli.resets
      BY <1>1, <2>2, <3>2 DEF Drawn
    <3> QED  BY <1>1, <2>2, <3>2, <3>3, <3>4 DEF Vouched
  <2> QED  BY <1>1, <2>1, <2>2, NotedIs
<1> QED  BY <1>1, <1>2, <1>3, <1>4, SameBoundary DEF Vouched

LEMMA PollShowsReset ==
  ASSUME IInv, NEW R \in SUBSET Asked, Poll(R)
  PROVE  ResetShown'
<1> DEFINE best == Pick(WithReset(Ours(Fs(R))))
<1>1. /\ TypeOK /\ Calendar /\ Vouched /\ Drawn
  BY DEF IInv
<1>2. UNCHANGED <<kind, lag, resets, moved, now>> /\ dial' \in Merges(Ours(Fs(R)))
  BY <1>1, PollIs DEF Polled
<1> SUFFICES ASSUME ~Session, RightClock, dial'.resets # None
             PROVE  now - saw' <= AnchorMax /\ (~moved => dial'.resets = resets)
  BY <1>2 DEF ResetShown
<1>3. dial'.resets = best.resets
  <2>1. Ours(Fs(R)) \in SUBSET Frames
    BY <1>1, PollIs
  <2> QED  BY <1>2, <2>1, DialIs
<1>4. best \in Ours(Fs(R)) /\ best.resets # None
  <2>1. WithReset(Ours(Fs(R))) \in SUBSET Frames
    BY <1>1, PollIs DEF WithReset
  <2>2. best \in WithReset(Ours(Fs(R))) \cup {Blank}
    BY <2>1, PickType
  <2> QED  BY <1>3, <2>2 DEF WithReset, Blank
<1> HIDE DEF best
<1>5. saw' \in Nat /\ saw \in Nat /\ saw <= saw' /\ now \in Nat /\ lag = 0 /\ resets # None
  BY <1>1, SawIs DEF TypeOK, Calendar
<1>6. CASE best \in AnchorFrames
  <2>1. /\ Offered(anchor) /\ best.resets = Project(anchor) /\ anchor \in Note
    BY <1>1, <1>6, AnchorFramesAre DEF TypeOK
  <2>2. anchor.at # None /\ now - anchor.at <= AnchorMax /\ anchor.at <= saw /\ anchor.at \in Nat
    BY <1>1, <1>5, <2>1 DEF Offered, Vouched, Note
  <2>3. ~moved => Project(anchor) = resets
    BY <1>1, <1>5, <2>1, <2>2, ProjectIsTrue DEF Vouched
  <2> QED  BY <1>3, <1>5, <2>1, <2>2, <2>3
<1>7. CASE best \notin AnchorFrames
  <2>1. /\ best.src = "cli" /\ best.at = payload.at /\ best.resets = payload.resets
        /\ now < payload.resets /\ best \in Fs(R)
    BY <1>1, <1>4, <1>5, <1>7, WeekIsTold DEF Ours
  <2>2. payload.at <= saw'
    BY <1>1, <1>4, <2>1, SawIs
  <2>3. payload.resets = cli.resets /\ cli.resets <= payload.at + Window /\ payload.at \in Nat
        /\ cli.resets \in Windows
    BY <1>1, <1>4, <2>1 DEF Drawn, TypeOK, Reading
  <2>4. ~moved => cli.resets = resets
    <3>1. ~moved => Aligned(cli.resets)
      BY <1>1, <1>4, <2>1, <2>3 DEF Vouched
    <3>2. cli.resets + 0 * Window = cli.resets
      BY <2>3
    <3> QED  BY <1>1, <1>5, <2>1, <2>3, <3>1, <3>2, OneAhead
  <2> QED  BY <1>3, <1>5, <2>1, <2>2, <2>3, <2>4
<1> QED  BY <1>6, <1>7

\* The falls of the figure are where the note says that weeks end.
LEMMA NotRefuted ==
  ASSUME TypeOK, Calendar, Sampled, ~Session, RightClock, ~moved, NEW a \in Note, Aligned(a.resets)
  PROVE  ~Refuted(a)
<1> SUFFICES ASSUME NEW s \in samples, NEW t \in samples, s.at < t.at, t.used < s.used
             PROVE  LET r == t.at - ((t.at - a.resets) % Window)
                    IN s.at - Tolerance <= r /\ r <= t.at + Tolerance
  BY DEF Refuted, Drops
<1> DEFINE m == (t.at - a.resets) % Window
           q == (t.at - a.resets) \div Window
<1>1. s.at \in Nat /\ t.at \in Nat /\ s.win \in Nat /\ a.resets \in Nat /\ Window \in Nat
      /\ 0 < Window /\ Tolerance \in Nat
  BY DEF TypeOK, Note
<1>2. s.at < s.win /\ s.win <= t.at
  BY DEF Sampled
<1>3. PICK j \in Nat : resets = s.win + j * Window
  BY DEF Sampled, Aligned
<1>4. PICK k \in Nat : resets = a.resets + k * Window
  BY DEF Aligned
<1>5. m \in 0 .. Window - 1 /\ q \in Int /\ t.at - a.resets = Window * q + m
  BY <1>1
<1> HIDE DEF m, q
<1>6. (k - j) * Window = k * Window - j * Window /\ k * Window \in Int /\ j * Window \in Int
      /\ q * Window = Window * q
      /\ q * Window \in Int
  BY <1>1, <1>5
<1>7. s.win = a.resets + (k - j) * Window
  <2> DEFINE x == j * Window
             y == k * Window
             z == (k - j) * Window
  <2>1. s.win + x = a.resets + y /\ x \in Int /\ y \in Int /\ z = y - x
    BY <1>3, <1>4, <1>6
  <2> HIDE DEF x, y, z
  <2>2. s.win = a.resets + z
    BY <1>1, <2>1
  <2> QED  BY <2>2 DEF z
<1>8. ~(q < k - j)
  <2> SUFFICES ASSUME q < k - j PROVE FALSE  OBVIOUS
  <2> DEFINE x == q * Window
             y == (k - j) * Window
  <2>1. x + Window <= y /\ x \in Int /\ y \in Int
    BY <1>5, <1>6, Multiples
  <2>2. t.at - a.resets = x + m /\ s.win = a.resets + y
    BY <1>5, <1>6, <1>7
  <2> HIDE DEF x, y
  <2> QED  BY <1>1, <1>2, <1>5, <2>1, <2>2
<1>9. (k - j) * Window <= q * Window
  <2>1. CASE k - j = q
    BY <1>6, <2>1
  <2>2. CASE k - j < q
    <3>1. (k - j) * Window + Window <= q * Window
      BY <1>5, <2>2, Multiples
    <3> QED  BY <1>1, <1>6, <3>1
  <2> QED  BY <1>5, <1>8, <2>1, <2>2
<1>10. s.win <= t.at - m
  BY <1>1, <1>5, <1>6, <1>7, <1>9
<1> QED  BY <1>1, <1>2, <1>5, <1>10 DEF m
-----------------------------------------------------------------------------
(* The forgiven zero.                                                      *)

\* No source has seen a rollover that is still to come.
LEMMA RolledPast ==
  ASSUME TypeOK, NEW R \in SUBSET Asked
  PROVE  RolledAt(Ours(Fs(R))) <= Wall
<1>1. ASSUME NEW f \in Ours(Fs(R)) PROVE f.rolled # None => f.rolled <= Wall
  <2>1. CASE f \in CliFrames
    <3>1. payload \in Reading /\ remembered \in Reading
      BY DEF TypeOK
    <3>2. PICK r \in Reading, n \in {1, 2} : f = StatusFrame(r, n)
      BY <2>1, <3>1, CliFramesAre
    <3> QED  BY <3>2, StatusSays DEF HasReset
  <2>2. CASE f \notin CliFrames
    BY <2>2, HeardIs, DesktopFramesAre, LsFramesAre, CodexFramesAre, AnchorFramesAre DEF Ours, Fs
  <2> QED  BY <2>1, <2>2
<1>2. Ours(Fs(R)) \in SUBSET Frames
  BY HeardType DEF Fs
<1>3. Wall >= 0
  BY DEF TypeOK
<1> QED  BY <1>1, <1>2, <1>3, RolledIs

\* A frame of the status line has been made of what it shows or of what it remembers.
LEMMA StatusTold ==
  ASSUME TypeOK, NEW R \in SUBSET Asked, NEW f \in Ours(Fs(R)), f.src = "cli"
  PROVE  /\ "cli" \in Asked \ R
         /\ \/ payload # NoReading /\ f = StatusFrame(payload, 1)
            \/ ~Remembers /\ remembered # NoReading /\ f = StatusFrame(remembered, 2)
<1>1. f \notin DesktopFrames /\ f \notin CodexFrames /\ f \notin AnchorFrames
  BY DesktopFramesAre, CodexFramesAre, AnchorFramesAre
<1>2. f \notin LsFrames
  BY DEF LsFrames, LsFrame, Frame
<1> QED  BY <1>1, <1>2, HeardIs, CliFramesAre DEF Fs, Ours

\* What is remembered is what Claude Code last heard.
LEMMA RemembersLast ==
  ASSUME TypeOK, Drawn, RightClock, Remembers
  PROVE  payload.used >= 0 /\ payload.resets # None /\ payload.resets = cli.resets /\ payload # NoReading
<1>1. payload \in Reading /\ StatusFrame(payload, 1).pct >= 0
  BY DEF TypeOK, Remembers
<1>2. payload.used >= 0
  BY <1>1, StatusSays DEF RolledOver, Reading
<1> QED  BY <1>1, <1>2, NothingIs DEF Drawn, Reading

LEMMA PollForgiven ==
  ASSUME IInv, NEW R \in SUBSET Asked, Poll(R)
  PROVE  Forgiven'
<1>1. TypeOK /\ Drawn /\ Forgiven
  BY DEF IInv
<1>2. /\ UNCHANGED <<kind, lag, now, resets, cli, payload, samples>>
      /\ Polled(Asked, R, Fs(R), Ours(Fs(R)))
  BY <1>1, PollIs
<1> SUFFICES ASSUME Session, RightClock PROVE Forgiven'
  BY <1>2 DEF Forgiven
<1>3. /\ cli \in Reading /\ payload \in Reading /\ remembered \in Reading
      /\ cli.resets \in Nat /\ payload.resets \in Nat /\ remembered.resets \in Nat
      /\ cli.at \in Nat /\ payload.at \in Nat /\ remembered.at \in Nat /\ zeroed \in Nat
         /\ now \in Nat /\ lag = 0
  BY <1>1 DEF TypeOK, Reading
<1>4. remembered' = IF "cli" \in Asked \ R /\ Remembers THEN payload ELSE remembered
  BY <1>2 DEF Polled
<1>5. /\ remembered'.resets # None => remembered'.used >= 0
      /\ remembered'.resets <= cli.resets /\ remembered.resets <= remembered'.resets
      /\ remembered'.resets < cli.resets => remembered'.resets <= cli.at
  <2>1. CASE remembered' = remembered
    BY <1>1, <1>3, <2>1 DEF Forgiven
  <2>2. CASE remembered' = payload /\ Remembers
    BY <1>1, <1>3, <2>2, RemembersLast DEF Forgiven
  <2> QED  BY <1>4, <2>1, <2>2
<1>6. /\ zeroed' # None => zeroed' <= now /\ zeroed' <= remembered'.resets
      /\ \A r \in {cli, payload, remembered'} : zeroed' < r.resets => zeroed' <= r.at
  <2>1. CASE zeroed' = zeroed
    BY <1>1, <1>3, <1>4, <1>5, <2>1 DEF Forgiven
  <2>2. CASE zeroed' # zeroed
    <3>1. dial' \in Merges(Ours(Fs(R))) /\ dial'.pct = 0 /\ dial'.src = "cli"
          /\ dial'.win = RolledAt(Ours(Fs(R)))
          /\ zeroed' = dial'.win
      BY <1>2, <2>2 DEF Polled
    <3>2. PICK f \in Ours(Fs(R)) : f.src = "cli" /\ f.pct = 0 /\ f.win = zeroed'
      <4>1. Ours(Fs(R)) \in SUBSET Frames
        BY <1>1, PollIs
      <4>2. dial' = Merge(Ours(Fs(R)))
        BY <3>1, <4>1, DialIs
      <4> QED  BY <3>1, <4>1, <4>2, MergeIs DEF UNKNOWN
    <3>3. zeroed' <= now
      BY <1>1, <1>3, <3>1, RolledPast
    <3>4. CASE f = StatusFrame(payload, 1)
      <4>1. payload.resets = zeroed' /\ StatusFrame(payload, 1).pct >= 0
        BY <1>1, <1>3, <3>2, <3>4, StatusSays
      <4>2. payload.used >= 0
        BY <1>1, <1>3, <4>1, StatusSays DEF RolledOver, Reading
      <4>3. Remembers
        BY <1>1, <4>1, <4>2 DEF Drawn, Remembers
      <4>4. remembered' = payload /\ payload.resets = cli.resets
        BY <1>1, <1>4, <3>2, <4>3, StatusTold, RemembersLast
      <4> QED  BY <1>3, <3>3, <4>1, <4>4
    <3>5. CASE f = StatusFrame(remembered, 2) /\ ~Remembers
      <4>1. remembered.resets = zeroed' /\ remembered' = remembered
        BY <1>1, <1>3, <1>4, <3>2, <3>5, StatusSays
      <4> QED  BY <1>1, <1>3, <3>3, <4>1 DEF Forgiven, Drawn
    <3> QED  BY <1>1, <3>2, <3>4, <3>5, StatusTold
  <2> QED  BY <2>1, <2>2
<1> QED  BY <1>1, <1>2, <1>5, <1>6 DEF Forgiven

LEMMA PollKeepsZero ==
  ASSUME IInv, NEW R \in SUBSET Asked, Poll(R)
  PROVE  ZeroStaysZero'
<1>1. TypeOK /\ Drawn /\ Forgiven
  BY DEF IInv
<1>2. UNCHANGED <<kind, lag, now>> /\ Polled(Asked, R, Fs(R), Ours(Fs(R))) /\ Ours(Fs(R)) \in SUBSET Frames
  BY <1>1, PollIs
<1> SUFFICES ASSUME Session, RightClock, broken'["cli"].wait = 0, dial'.pct > 0
             PROVE  dial'.win = None \/ dial'.win > zeroed'
  <2>1. "cli" \notin SittingOut' => ~(broken'["cli"].wait > 0)
    BY DEF SittingOut, SitsOut
  <2>2. broken' \in [Providers -> [since : Times, retry : Nat, wait : 0 .. MaxRetry]]
    BY <1>1, <1>2, FailingIs, NothingIs DEF TypeOK, Polled
  <2> QED  BY <1>2, <2>1, <2>2 DEF ZeroStaysZero
<1>3. zeroed' = zeroed /\ dial' = Merge(Ours(Fs(R)))
  <2>1. dial' \in Merges(Ours(Fs(R))) /\ dial' \in Dials
    BY <1>2, DialIs DEF Polled
  <2> QED  BY <1>2, <2>1, DialIs DEF Polled, Dials
<1>4. "cli" \in Asked \ R
  <2>1. "cli" \in R => broken'["cli"] = Failing(broken["cli"])
    BY <1>2 DEF Polled
  <2>2. "cli" \notin Asked => broken'["cli"] = broken["cli"] /\ broken["cli"].wait > 0
    BY <1>2 DEF Polled, Asked, SitsOut
  <2> QED  BY <1>1, <2>1, <2>2, FailingIs
<1> DEFINE rolled == RolledAt(Ours(Fs(R)))
<1>5. PICK f \in Ours(Fs(R)) :
        /\ f.pct > 0 /\ Survives(f, rolled) /\ f.win = dial'.win
        /\ \A g \in Ours(Fs(R)) : g.pct >= 0 /\ Survives(g, rolled) => g.at <= f.at
  <2> QED  BY <1>2, <1>3, MergeIs DEF UNKNOWN
<1>6. rolled \in Windows /\ \A g \in Ours(Fs(R)) : g.rolled <= rolled
  BY <1>2, RolledIs
<1> HIDE DEF rolled
<1>7. /\ payload \in Reading /\ remembered \in Reading /\ now \in Nat /\ lag = 0 /\ zeroed \in Nat
      /\ f.at \in Nat /\ f.win \in Nat
  BY <1>1, <1>2 DEF TypeOK, Frames
<1>8. CASE zeroed = None
  BY <1>3, <1>5, <1>7, <1>8
<1>9. CASE zeroed # None /\ f \notin DesktopFrames
  <2>1. zeroed <= now
    BY <1>1, <1>9 DEF Forgiven
  <2>2. f.win = None \/ now < f.win
    <3>1. CASE f \in CliFrames
      <4>1. PICK r \in Reading, n \in {1, 2} : f = StatusFrame(r, n)
        BY <1>7, <3>1, CliFramesAre
      <4>2. f.win = r.resets /\ ~HasReset(r.resets) /\ r.resets \in Nat
        <5>1. r.resets \in Nat /\ f.win = r.resets
          BY <1>1, <4>1, StatusSays DEF Reading
        <5>2. HasReset(r.resets) => f.pct = RolledOver(r) /\ RolledOver(r) <= 0
          BY <1>1, <4>1, StatusSays
        <5>3. RolledOver(r) \in {UNKNOWN, 0}
          BY DEF RolledOver
        <5> QED  BY <1>5, <5>1, <5>2, <5>3
      <4> QED  BY <1>7, <4>2 DEF HasReset
    <3>2. CASE f \in LsFrames
      BY <1>1, <1>5, <1>7, <3>2, LsFramesAre
    <3>3. f \notin AnchorFrames /\ f \notin CodexFrames
      BY <1>1, <1>5, AnchorFramesAre, CodexFramesAre DEF Ours
    <3> QED  BY <1>9, <3>1, <3>2, <3>3, HeardIs DEF Ours, Fs
  <2> QED  BY <1>3, <1>5, <1>7, <2>1, <2>2
<1>10. CASE zeroed # None /\ f \in DesktopFrames
  <2>1. PICK s \in samples : f.at = s.at /\ f.win = s.win /\ f.rolled = None
    BY <1>1, <1>10, DesktopFramesAre
  <2>2. f.win # None => f.at < f.win
    BY <1>1, <2>1 DEF Forgiven
  <2>3. zeroed <= f.at
    <3>1. CASE zeroed <= rolled
      BY <1>5, <1>6, <1>7, <2>1, <3>1 DEF Survives
    <3>2. CASE rolled < zeroed
      <4>1. zeroed <= now /\ zeroed <= remembered.resets /\ remembered.resets # None
            /\ remembered.resets \in Nat
        BY <1>1, <1>7, <1>10 DEF Forgiven, Reading
      <4>2. ASSUME NEW r \in {payload, remembered}, NEW n \in {1, 2}, StatusFrame(r, n) \in Ours(Fs(R)),
                   zeroed <= r.resets, r.used >= 0, zeroed < r.resets => zeroed <= r.at
            PROVE  zeroed <= f.at
        <5>1. r \in Reading /\ r.resets \in Nat /\ r.at \in Nat
          BY <1>7 DEF Reading
        <5>2. ~HasReset(r.resets)
          <6>1. HasReset(r.resets) => StatusFrame(r, n).rolled = r.resets
            BY <1>1, <5>1, StatusSays
          <6>2. r.resets <= rolled => zeroed <= rolled
            BY <1>6, <1>7, <4>2, <5>1
          <6>3. ~(zeroed <= rolled)
            BY <1>6, <1>7, <3>2
          <6> QED  BY <1>6, <4>2, <6>1, <6>2, <6>3
        <5>3. zeroed < r.resets
          BY <1>7, <1>10, <4>1, <4>2, <5>1, <5>2 DEF HasReset
        <5>4. StatusFrame(r, n).pct = r.used /\ StatusFrame(r, n).at = r.at
          BY <1>1, <5>1, <5>2, StatusSays
        <5>5. Survives(StatusFrame(r, n), rolled)
          BY <1>6, <1>7, <3>2, <4>2, <5>1, <5>3, <5>4 DEF Survives
        <5> QED  BY <1>5, <1>7, <4>2, <5>1, <5>3, <5>4, <5>5
      <4>3. ASSUME NEW r \in {payload, remembered}, NEW n \in {1, 2}, StatusFrame(r, n) \in CliFrames
            PROVE  StatusFrame(r, n) \in Ours(Fs(R))
        BY <1>1, <1>4, <1>7, <4>3, HeardIs, StatusSays DEF Ours, Fs
      <4>4. CASE Remembers
        <5>1. payload.used >= 0 /\ payload.resets = cli.resets /\ payload # NoReading
          BY <1>1, <4>4, RemembersLast
        <5>2. zeroed <= payload.resets
          BY <1>1, <1>7, <4>1, <5>1 DEF Forgiven, Reading
        <5> QED  BY <1>1, <4>2, <4>3, <5>1, <5>2, CliFramesAre DEF Forgiven
      <4>5. CASE ~Remembers
        <5>1. remembered.used >= 0 /\ remembered # NoReading
          BY <1>1, <4>1, NothingIs DEF Forgiven
        <5> QED  BY <1>1, <4>1, <4>2, <4>3, <4>5, <5>1, CliFramesAre DEF Forgiven
      <4> QED  BY <4>4, <4>5
    <3> QED  BY <1>6, <1>7, <3>1, <3>2
  <2> QED  BY <1>3, <1>5, <1>7, <2>2, <2>3
<1> QED  BY <1>8, <1>9, <1>10

-----------------------------------------------------------------------------
LEMMA PollStep ==
  ASSUME IInv, NEW R \in SUBSET Asked, Poll(R), acts' \in 0 .. Acts, faults' \in 0 .. Faults
  PROVE  IInv'
<1>1. TypeOK'
  BY PollTypes DEF IInv
<1>2. /\ UNCHANGED <<kind, used, resets, cli, payload, samples, record, codex, audit, moved, now, lag>>
      /\ ~Session => remembered' = remembered
  BY PollIs DEF IInv, Polled, Remembers
<1>3. Calendar' /\ Drawn'
  BY <1>2 DEF IInv, Calendar, Drawn
<1>4. Sampled'
  BY <1>2, SameBoundary DEF IInv, Sampled
<1>5. BackedOff'
  BY PollBackedOff DEF IInv
<1> QED  BY <1>1, <1>3, <1>4, <1>5, PollForgiven, PollVouched, PollKeepsZero, PollShowsReset DEF IInv

LEMMA StutterStep ==
  ASSUME IInv, UNCHANGED vars
  PROVE  IInv'
<1> USE DEF vars, desk, daemon
<1>1. TypeOK' /\ Calendar' /\ Drawn' /\ Forgiven'
  BY DEF IInv, TypeOK, Calendar, Drawn, Forgiven
<1>2. Vouched' /\ Sampled'
  BY SameBoundary DEF IInv, Vouched, Sampled
<1>3. BackedOff' /\ ZeroStaysZero' /\ ResetShown'
  BY DEF IInv, BackedOff, Waited, ZeroStaysZero, SittingOut, SitsOut, ResetShown
<1> QED  BY <1>1, <1>2, <1>3 DEF IInv

\* The invariant is inductive: every step of the account, of those who write of it,
\* of the clock and of the daemon keeps it.
THEOREM Inductive == IInv /\ [Next]_vars => IInv'
<1> SUFFICES ASSUME IInv, [Next]_vars PROVE IInv'  OBVIOUS
<1>1. CASE PollAll
  BY <1>1, PollStep DEF PollAll, IInv, TypeOK
<1>2. CASE PollFails
  <2>1. PICK p \in Asked \cap Fragile :
          Poll({p}) /\ ((SitsOut(p) /\ UNCHANGED <<acts, faults>>) \/ (~SitsOut(p) /\ Fault))
    BY <1>2 DEF PollFails
  <2>2. acts' \in 0 .. Acts /\ faults' \in 0 .. Faults
    BY <2>1 DEF IInv, TypeOK, Fault
  <2> QED  BY <2>1, <2>2, PollStep
<1>3. CASE UNCHANGED vars
  BY <1>3, StutterStep
<1> QED  BY <1>1, <1>2, <1>3, TurnStep, RedrawStep, ElsewhereStep, SampleStep, RecordStep, CodexTurnStep,
            MoveStep, TickStep, StepBackStep, RestartStep DEF Next

-----------------------------------------------------------------------------
(* What follows of it.                                                     *)

\* So it holds in every reachable state.
THEOREM Invariance == Spec => []IInv
<1>1. Init => IInv
  BY InitInv
<1>2. IInv /\ [Next]_vars => IInv'
  BY Inductive
<1> QED  BY <1>1, <1>2, PTL DEF Spec

\* Every variable keeps its type, every time its bound.
THEOREM TypeCorrect == Spec => []TypeOK
<1>1. IInv => TypeOK
  BY DEF IInv
<1> QED  BY <1>1, Invariance, PTL

\* A five-hour window that the dial has shown as forgiven does not come back to it.
THEOREM ZeroStays == Spec => []ZeroStaysZero
<1>1. IInv => ZeroStaysZero
  BY DEF IInv
<1> QED  BY <1>1, Invariance, PTL

\* A provider that raised is asked again within its longest wait, or two of them
\* when the clock was put back meanwhile.
THEOREM AskedAgain == Spec => []HeardAgain
<1>1. ASSUME IInv PROVE HeardAgain
  <2> SUFFICES ASSUME polled, NEW p \in Providers
               PROVE  quiet[p] <= IF p \notin failed THEN 0 ELSE MaxRetry + (IF lag > 0 THEN MaxRetry ELSE 0)
    BY DEF HeardAgain
  <2> DEFINE b == broken[p]
  <2>1. /\ b.since \in Nat /\ b.wait \in 0 .. MaxRetry /\ quiet[p] \in Nat
        /\ lag \in {0, Back} /\ now \in Nat
    BY <1>1 DEF IInv, TypeOK
  <2>2. /\ p \notin failed => b.wait = 0
        /\ b.wait = 0 => quiet[p] = 0
        /\ b.wait > 0 => b.retry = b.since + b.wait /\ Waited(b, quiet[p]) /\ Wall < b.retry
    BY <1>1 DEF IInv, BackedOff
  <2> HIDE DEF b
  <2> QED  BY <2>1, <2>2 DEF Waited
<1> QED  BY <1>1, Invariance, PTL

\* The weekly reset on the dial is the account's own, and is there whenever the
\* daemon has learnt of it.
THEOREM ResetHolds == Spec => []ResetIsTrue
<1>1. ASSUME IInv PROVE ResetIsTrue
  <2>1. TypeOK /\ Calendar /\ Vouched /\ Sampled /\ ResetShown
    BY <1>1 DEF IInv
  <2>2. ASSUME ~Session, RightClock, ~moved, anchor.at # None, now - anchor.at <= AnchorMax,
               NEW ours, ours = Ours(Heard(Providers))
        PROVE  Merge(ours).resets # None
    <3>1. anchor \in Note /\ Aligned(anchor.resets)
      BY <2>1, <2>2 DEF TypeOK, Vouched
    <3>2. Offered(anchor)
      <4>1. ~Refuted(anchor)
        BY <2>1, <2>2, <3>1, NotRefuted
      <4>2. Wall - anchor.at <= AnchorMax
        BY <2>1, <2>2, <3>1 DEF TypeOK, Note
      <4> QED  BY <2>2, <4>1, <4>2 DEF Offered
    <3>3. PICK f \in AnchorFrames : TRUE
      BY <2>2, <3>2 DEF AnchorFrames
    <3>4. f \in WithReset(ours)
      <4>1. f.src = "anchor" /\ f.resets = Project(anchor)
        BY <2>1, AnchorFramesAre
      <4>2. Project(anchor) # None
        BY <2>1, <2>2, <3>1, ProjectIs DEF TypeOK
      <4> QED  BY <2>2, <4>1, <4>2, HeardIs DEF Ours, WithReset
    <3>5. ours \in SUBSET Frames
      BY <2>1, <2>2, HeardType
    <3>6. Pick(WithReset(ours)) \in WithReset(ours)
      <4>1. WithReset(ours) \in SUBSET Frames
        BY <3>5 DEF WithReset
      <4> QED  BY <3>4, <4>1, PickIs
    <3>7. Merge(ours).resets = Pick(WithReset(ours)).resets
      BY <3>5, MergeIs
    <3> QED  BY <3>6, <3>7 DEF WithReset
  <2> QED  BY <2>1, <2>2 DEF ResetIsTrue, ResetShown
<1> QED  BY <1>1, Invariance, PTL

=============================================================================
