----------------------------- MODULE GlassProof -----------------------------
(***************************************************************************)
(* What holds of the board's glass for any windows of time, any number of  *)
(* touches, pages and changes of the theme, and however late LVGL is:      *)
(* types, that what is up on the top layer keeps strokes and taps from     *)
(* asking for another screen, and that a touch moves the screen once.      *)
(***************************************************************************)
EXTENDS Glass, TLAPS

-----------------------------------------------------------------------------
(* Pages and requests.                                                     *)

Requests == [open: BOOLEAN, close: BOOLEAN, face: BOOLEAN, move: Dirs \cup {None}]
Pages == {"gauges", "music", "launcher", "panel"}

LEMMA SpokePages == {"gauges"} \cup DOMAIN Spoke = Pages
BY DEF Spoke, Pages

\* Every way out of the gauges that is a move leads to a page.
LEMMA SpokeOf ==
  ASSUME NEW d \in {"left", "right", "down"}
  PROVE  (CHOOSE p \in DOMAIN Spoke : Spoke[p] = d) \in Pages
<1>1. DOMAIN Spoke = {"music", "launcher", "panel"}
  BY DEF Spoke
<1>2. Spoke["music"] = "left" /\ Spoke["launcher"] = "right" /\ Spoke["panel"] = "down"
  BY DEF Spoke
<1>3. \E p \in DOMAIN Spoke : Spoke[p] = d
  BY <1>1, <1>2
<1>4. (CHOOSE p \in DOMAIN Spoke : Spoke[p] = d) \in DOMAIN Spoke
  BY <1>3
<1> QED
  BY <1>1, <1>4 DEF Pages

\* A remainder is smaller than what was divided by.
LEMMA Remainder ==
  ASSUME NEW a \in Nat, NEW b \in 1 .. Panels
  PROVE  a % b \in 0 .. Panels
BY Times

LEMMA RaiseType ==
  ASSUME want \in Requests, NEW d \in Dirs, Raise(d)
  PROVE  want' \in Requests
BY DEF Raise, Requests

LEMMA NothingType == Nothing \in Requests
BY DEF Nothing, Requests

LEMMA CountsType ==
  ASSUME moved \in 0 .. 2, NEW yes, Counts(yes)
  PROVE  moved' \in 0 .. 2
BY DEF Counts

LEMMA ClosePanelType ==
  ASSUME TypeOK, ClosePanel
  PROVE  want' \in Requests /\ closing' \in BOOLEAN
BY DEF ClosePanel, TypeOK, Requests

LEMMA GoType ==
  ASSUME TypeOK, NEW d \in Dirs, Go(d)
  PROVE  cur' \in Pages /\ showing' \in 0 .. Panels
<1>1. cur \in Pages /\ panels \in 0 .. Panels /\ showing \in 0 .. Panels
  BY SpokePages DEF TypeOK
<1>2. CASE Would(d) # "done"
  BY <1>1, <1>2 DEF Go
<1>3. CASE Would(d) = "done" /\ cur = "panel" /\ d \in {"left", "right"}
  <2>1. panels > 1
    BY <1>3 DEF Would, Opposite, Spoke
  <2>2. panels \in 1 .. Panels /\ showing + 1 \in Nat /\ showing + panels - 1 \in Nat
    BY <1>1, <2>1, Times
  <2>3. (showing + 1) % panels \in 0 .. Panels /\ (showing + panels - 1) % panels \in 0 .. Panels
    BY <2>2, Remainder
  <2> QED
    BY <1>1, <1>3, <2>3 DEF Go
<1>4. CASE Would(d) = "done" /\ cur # "gauges" /\ ~(cur = "panel" /\ d \in {"left", "right"})
  BY <1>1, <1>4 DEF Go, Pages
<1>5. CASE Would(d) = "done" /\ cur = "gauges"
  <2>1. d \in {"left", "right", "down"}
    BY <1>5 DEF Would, Dirs
  <2>2. cur' \in Pages
    BY <1>5, <2>1, SpokeOf DEF Go
  <2> QED
    BY <1>1, <1>5, <2>2, Times DEF Go
<1> QED
  BY <1>2, <1>3, <1>4, <1>5

-----------------------------------------------------------------------------
(* Types.                                                                  *)

LEMMA TypeInit == Init => TypeOK
<1> SUFFICES ASSUME Init PROVE TypeOK
  OBVIOUS
<1>1. {Stitch, Tail, Panels, Acts, Themes} \subseteq Nat
  BY Times
<1>2. 0 \in 0 .. Stitch /\ 0 \in 0 .. Panels /\ 0 \in 0 .. Tail /\ 0 \in 0 .. Acts /\ 0 \in 0 .. Themes
  BY <1>1
<1>3. modal \subseteq {"notice", "news", "prompt", "download"}
  BY DEF Init
<1>4. want \in [open: BOOLEAN, close: BOOLEAN, face: BOOLEAN, move: Dirs \cup {None}]
  BY NothingType DEF Init, Requests
<1>5. {active, fired, there, closing, theme, takeover} \subseteq BOOLEAN
  BY DEF Init
<1> QED
  BY <1>2, <1>3, <1>4, <1>5 DEF Init, TypeOK, None

LEMMA ReportType ==
  ASSUME TypeOK, NEW d \in Dirs, NEW to \in 0 .. 2, Report(d, to)
  PROVE  gap' \in 0 .. Stitch /\ active' \in BOOLEAN /\ fired' \in BOOLEAN /\ far' \in 0 .. 2
         /\ pending' \in Dirs \cup {None}
<1>1. gap' \in 0 .. Stitch
  BY Times DEF Report
<1>2. far' \in 0 .. 2 /\ active' \in BOOLEAN
  BY DEF Report
<1>3. (fired' = TRUE /\ pending' = d) \/ (fired' = (active /\ fired) /\ pending' = pending)
  BY DEF Report
<1> QED
  BY <1>1, <1>2, <1>3 DEF TypeOK

Finger == Press \/ Move \/ Lift \/ StrokeEnd \/ Tick \/ Drain \/ Gesture

LEMMA TypeOfFinger ==
  ASSUME TypeOK, Finger
  PROVE  TypeOK'
<1> USE DEF TypeOK
<1>r. want \in Requests /\ moved \in 0 .. 2
  BY DEF Requests
<1>1. CASE Press
  <2>1. gap' \in 0 .. Stitch /\ active' \in BOOLEAN /\ fired' \in BOOLEAN /\ far' \in 0 .. 2
        /\ pending' \in Dirs \cup {None}
    BY <1>1, ReportType DEF Press
  <2>2. acts' \in 0 .. Acts
    BY <1>1, Times DEF Press
  <2>3. on' \in Dirs \cup {None, "home", "nav", "back", "row", "theme", "face", "notice", "more",
        "news", "prompt"}
    BY <1>1 DEF Press, Controls, Below, Zones
  <2>4. moved' \in 0 .. 2 /\ astray' \subseteq {"tapped", "late"}
    <3>1. CASE active
      BY <1>1, <3>1 DEF Press
    <3>2. CASE ~active
      BY <1>1, <3>2 DEF Press
    <3> QED
      BY <3>1, <3>2
  <2>5. UNCHANGED Rest /\ touch' = "down"
    BY <1>1 DEF Press
  <2> QED
    BY <2>1, <2>2, <2>3, <2>4, <2>5 DEF Rest, pages, settings, loop
<1>2. CASE Move
  <2>1. gap' \in 0 .. Stitch /\ active' \in BOOLEAN /\ fired' \in BOOLEAN /\ far' \in 0 .. 2
        /\ pending' \in Dirs \cup {None}
    BY <1>2, ReportType DEF Move
  <2>2. UNCHANGED <<Rest, touch, on, moved, astray, acts>>
    BY <1>2 DEF Move
  <2> QED
    BY <2>1, <2>2 DEF Rest, pages, settings, loop
<1>3. CASE Lift
  BY <1>3 DEF Lift, Rest, pages, settings, loop
<1>4. CASE StrokeEnd
  <2>1. active' = FALSE /\ fired' = FALSE /\ far' = 0
        /\ UNCHANGED <<Rest, touch, on, gap, pending, moved, astray, acts>>
    BY <1>4 DEF StrokeEnd
  <2>2. {active', fired', there', closing', theme', takeover'} \subseteq BOOLEAN
    BY <2>1 DEF Rest, settings
  <2> QED
    BY <2>1, <2>2 DEF Rest, pages, settings, loop
<1>5. CASE Tick
  <2>1. gap' \in 0 .. Stitch /\ mute' \in 0 .. Tail
    BY <1>5, Times DEF Tick
  <2> QED
    BY <1>5, <2>1 DEF Tick, pages, settings, bounds
<1>6. CASE Drain
  <2>1. want' \in Requests /\ moved' \in 0 .. 2
    BY <1>6, <1>r, RaiseType, CountsType DEF Drain
  <2>2. modal' \subseteq {"notice", "news", "prompt", "download"} /\ pending' = None
    BY <1>6 DEF Drain
  <2>3. UNCHANGED <<touch, on, gap, active, fired, far, astray, pages, settings, closing, takeover,
        loop, bounds>>
    BY <1>6 DEF Drain
  <2> QED
    BY <2>1, <2>2, <2>3 DEF pages, settings, loop, bounds, Requests
<1>7. CASE Gesture
  <2>1. want' \in Requests /\ closing' \in BOOLEAN /\ panel' \in {None, "list", "bright"}
        /\ moved' \in 0 .. 2
    BY <1>7, <1>r, ClosePanelType, CountsType DEF Gesture
  <2>2. UNCHANGED <<touch, on, gap, active, fired, far, pending, astray, pages, there, theme, modal,
        takeover, loop, bounds>>
    BY <1>7 DEF Gesture
  <2> QED
    BY <2>1, <2>2 DEF pages, loop, bounds, Requests
<1> QED
  BY <1>1, <1>2, <1>3, <1>4, <1>5, <1>6, <1>7 DEF Finger

\* What a click leaves of the touch.
LEMMA ClickedType ==
  ASSUME TypeOK, NEW c, Clicked(c)
  PROVE  /\ touch' = "none" /\ on' = None
         /\ astray \subseteq astray' /\ astray' \subseteq {"tapped", "late"}
         /\ UNCHANGED <<gap, active, fired, far, pending>>
BY DEF Clicked, TypeOK

LEMMA TypeOfClick ==
  ASSUME TypeOK, Click
  PROVE  TypeOK'
<1> USE DEF TypeOK
<1>r. want \in Requests /\ moved \in 0 .. 2
  BY DEF Requests
<1>c. touch' = "none" /\ on' = None /\ astray' \subseteq {"tapped", "late"}
      /\ UNCHANGED <<gap, active, fired, far, pending>>
  BY ClickedType DEF Click, ClickNothing, ClickZone, ClickPage, ClickPanel, ClickModal, ClickFace
<1>1. CASE ClickNothing
  <2>1. UNCHANGED Held /\ UNCHANGED moved
    BY <1>1 DEF ClickNothing
  <2> QED
    BY <1>c, <2>1 DEF Held, pages, loop
<1>2. CASE ClickZone
  <2>1. want' \in Requests /\ moved' \in 0 .. 2
    BY <1>2, <1>r, RaiseType, CountsType DEF ClickZone
  <2>2. UNCHANGED <<pages, settings, modal, closing, takeover, loop, bounds>>
    BY <1>2 DEF ClickZone
  <2> QED
    BY <1>c, <2>1, <2>2 DEF pages, settings, loop, bounds, Requests
<1>3. CASE ClickPage
  <2>1. moved' \in 0 .. 2 /\ UNCHANGED panels
    BY <1>3, <1>r, CountsType DEF ClickPage
  <2>2. cur' \in {"gauges"} \cup DOMAIN Spoke
    BY <1>3 DEF ClickPage
  <2>3. showing' \in 0 .. Panels
    <3>1. panels > 1 => (showing + 1) % panels \in 0 .. Panels
      BY Remainder, Times
    <3> QED
      BY <1>3, <3>1 DEF ClickPage
  <2>4. UNCHANGED <<settings, modal, want, closing, takeover, loop, bounds>>
    BY <1>3 DEF ClickPage
  <2> QED
    BY <1>c, <2>1, <2>2, <2>3, <2>4 DEF settings, loop, bounds
<1>4. CASE ClickPanel
  <2>1. want' \in Requests /\ closing' \in BOOLEAN /\ panel' \in {None, "list", "bright"}
    BY <1>4, <1>r, ClosePanelType DEF ClickPanel
  <2>2. themes' \in 0 .. Themes
    BY <1>4, Times DEF ClickPanel
  <2>4. theme' \in {theme, TRUE}
    BY <1>4 DEF ClickPanel
  <2>3. UNCHANGED <<there, pages, modal, takeover, loop, acts, moved>>
    BY <1>4 DEF ClickPanel
  <2> QED
    BY <1>c, <2>1, <2>2, <2>3, <2>4 DEF pages, loop, Requests
<1>5. CASE ClickModal
  <2>1. modal' \subseteq {"notice", "news", "prompt", "download"}
    BY <1>5 DEF ClickModal
  <2>2. UNCHANGED <<pages, settings, want, closing, takeover, loop, bounds, moved>>
    BY <1>5 DEF ClickModal
  <2> QED
    BY <1>c, <2>1, <2>2 DEF pages, settings, loop, bounds
<1>6. CASE ClickFace
  <2>1. /\ at' \in {"loop", "slide", "doze", "peek", "face"} /\ want' \in Requests
        /\ cur' \in {"gauges"} \cup DOMAIN Spoke
           /\ modal' \subseteq {"notice", "news", "prompt", "download"}
    BY <1>6, <1>r, NothingType DEF ClickFace
  <2>2. UNCHANGED <<moved, panels, showing, settings, closing, takeover, mute, bounds>>
    BY <1>6 DEF ClickFace
  <2> QED
    BY <1>c, <2>1, <2>2 DEF settings, bounds, Requests
<1> QED
  BY <1>1, <1>2, <1>3, <1>4, <1>5, <1>6 DEF Click

LEMMA TypeOfLoop ==
  ASSUME TypeOK, Serve
  PROVE  TypeOK'
<1> USE DEF TypeOK
<1>n. Nothing \in [open: BOOLEAN, close: BOOLEAN, face: BOOLEAN, move: Dirs \cup {None}]
      /\ Tail \in 0 .. Tail
  BY NothingType, Times DEF Requests
<1>1. CASE ServeOpen
  BY <1>1, <1>n DEF ServeOpen, stroke, pages, bounds
<1>2. CASE ServeClose
  <2>1. panel' \in {None, "list", "bright"} /\ there' \in BOOLEAN /\ closing' \in BOOLEAN
    BY <1>2 DEF ServeClose
  <2>2. at' \in {"loop", "slide", "doze", "peek", "face"} /\ mute' \in 0 .. Tail
    BY <1>2, <1>n DEF ServeClose, loop
  <2>3. on' \in {on, None}
    BY <1>2 DEF ServeClose
  <2>4. want' = Nothing /\ UNCHANGED <<touch, gap, active, fired, far, pending, moved, astray, pages,
        theme, modal, takeover, bounds>>
    BY <1>2 DEF ServeClose
  <2> QED
    BY <1>n, <2>1, <2>2, <2>3, <2>4 DEF pages, bounds
<1>3. CASE ServeMove
  <2>1. want.move \in Dirs
    BY <1>3 DEF ServeMove
  <2>2. cur' \in {"gauges"} \cup DOMAIN Spoke /\ showing' \in 0 .. Panels
    BY <1>3, <2>1, GoType, SpokePages DEF ServeMove
  <2>3. want' = Nothing /\ UNCHANGED <<stroke, panels, settings, modal, closing, takeover, loop, bounds>>
    BY <1>3 DEF ServeMove
  <2> QED
    BY <1>n, <2>2, <2>3 DEF stroke, settings, loop, bounds
<1>4. CASE ServeFace
  <2>1. at' \in {"loop", "slide", "doze", "peek", "face"}
        /\ modal' \subseteq {"notice", "news", "prompt", "download"}
    BY <1>4 DEF ServeFace
  <2>2. want' = Nothing /\ UNCHANGED <<stroke, pages, settings, closing, takeover, mute, bounds>>
    BY <1>4 DEF ServeFace
  <2> QED
    BY <1>n, <2>1, <2>2 DEF stroke, pages, settings, bounds
<1>5. CASE SlideEnds
  BY <1>5 DEF SlideEnds, stroke, pages, settings, bounds
<1>6. CASE Rebuild
  BY <1>6 DEF Rebuild, loop, bounds
<1> QED
  BY <1>1, <1>2, <1>3, <1>4, <1>5, <1>6 DEF Serve

Others == Modals \/ Message \/ Doze \/ Wake \/ HostWakes \/ PeekEnds

LEMMA TypeOfOthers ==
  ASSUME TypeOK, Others
  PROVE  TypeOK'
<1> USE DEF TypeOK
<1>1. CASE Modals
  <2>1. acts' \in 0 .. Acts
    BY <1>1, Times DEF Modals
  <2>2. \/ modal' \in {modal \cup {"notice"}, modal \cup {"prompt"}, modal \ {"prompt"}}
        \/ modal' \in {(modal \ {"prompt"}) \cup {"download"}, (modal \ {"download"}) \cup {"notice"}}
    BY <1>1 DEF Modals
  <2>3. modal' \subseteq {"notice", "news", "prompt", "download"}
    BY <2>2
  <2> QED
    BY <1>1, <2>1, <2>3 DEF Modals, stroke, pages, settings, loop
<1>2. CASE Message
  <2>1. panels' \in 0 .. Panels
    BY <1>2, Times DEF Message
  <2>3. takeover' \in BOOLEAN
    BY <1>2 DEF Message
  <2> QED
    BY <1>2, <2>1, <2>3 DEF Message, stroke, settings, loop, bounds
<1>3. CASE Doze \/ HostWakes \/ PeekEnds
  <2>1. at' \in {"loop", "slide", "doze", "peek", "face"}
        /\ modal' \subseteq {"notice", "news", "prompt", "download"}
    BY <1>3 DEF Doze, HostWakes, PeekEnds
  <2> QED
    BY <1>3, <2>1 DEF Doze, HostWakes, PeekEnds, stroke, pages, settings, bounds
<1>4. CASE Wake
  <2>1. /\ want' \in [open: BOOLEAN, close: BOOLEAN, face: BOOLEAN, move: Dirs \cup {None}]
        /\ cur' \in {"gauges"} \cup DOMAIN Spoke
           /\ modal' \subseteq {"notice", "news", "prompt", "download"}
    BY <1>4, NothingType DEF Wake, Requests
  <2> QED
    BY <1>4, <2>1 DEF Wake, stroke, settings, bounds
<1> QED
  BY <1>1, <1>2, <1>3, <1>4 DEF Others

LEMMA TypeInvariant == TypeOK /\ [Next]_vars => TypeOK'
<1> SUFFICES ASSUME TypeOK, [Next]_vars PROVE TypeOK'
  OBVIOUS
<1>1. CASE Finger \/ Click \/ Serve \/ Others
  BY <1>1, TypeOfFinger, TypeOfClick, TypeOfLoop, TypeOfOthers
<1>2. CASE UNCHANGED vars
  BY <1>2 DEF vars, stroke, pages, settings, loop, bounds, TypeOK
<1> QED
  BY <1>1, <1>2 DEF Next, Finger, Others

\* Every variable of the glass keeps its type, for any windows of time and any number
\* of pages.
THEOREM TypeCorrect == Spec => []TypeOK
BY TypeInit, TypeInvariant, PTL DEF Spec

-----------------------------------------------------------------------------
(* Modals.                                                                 *)

NoMore == (want'.open => want.open) /\ (want'.face => want.face) /\ want'.move \in {want.move, None}

LEMMA ClosesOnly ==
  ASSUME TypeOK, ClosePanel
  PROVE  NoMore
BY DEF ClosePanel, TypeOK, NoMore

\* While something on the top layer waits for an answer, no stroke and no tap asks
\* for another screen: every way in looks at modal_up.
THEOREM ModalsOwn == Spec => ModalOwnsGlass
<1>1. TypeOK /\ [Next]_vars => [modal # {} => NoMore]_vars
  <2> SUFFICES ASSUME TypeOK, Next, modal # {} PROVE NoMore
    OBVIOUS
  <2>n. ~Nothing.open /\ ~Nothing.face /\ Nothing.move = None
    BY DEF Nothing
  <2>1. CASE UNCHANGED want
    BY <2>1 DEF NoMore
  <2>2. CASE want' = Nothing
    BY <2>2, <2>n DEF NoMore
  <2>3. CASE Drain \/ ClickZone
    <3>1. UNCHANGED want
      BY <2>3 DEF Drain, ClickZone, ModalUp
    <3> QED
      BY <2>1, <3>1
  <2>4. CASE Gesture \/ ClickPanel
    <3>1. UNCHANGED want \/ ClosePanel
      BY <2>4 DEF Gesture, ClickPanel
    <3> QED
      BY <2>1, <3>1, ClosesOnly
  <2>5. CASE Press \/ Move \/ Lift \/ StrokeEnd \/ Tick
    BY <2>1, <2>5 DEF Press, Move, Lift, StrokeEnd, Tick, Rest
  <2>6. CASE ClickNothing \/ ClickPage \/ ClickModal
    BY <2>1, <2>6 DEF ClickNothing, ClickPage, ClickModal, Held
  <2>7. CASE ClickFace \/ Wake
    <3>1. UNCHANGED want \/ want' = Nothing
      BY <2>7 DEF ClickFace, Wake
    <3> QED
      BY <2>1, <2>2, <3>1
  <2>8. CASE Serve
    BY <2>1, <2>2, <2>8 DEF Serve, ServeOpen, ServeClose, ServeMove, ServeFace, SlideEnds, Rebuild
  <2>9. CASE Modals \/ Message \/ Doze \/ HostWakes \/ PeekEnds
    BY <2>1, <2>9 DEF Modals, Message, Doze, HostWakes, PeekEnds
  <2> QED
    BY <2>3, <2>4, <2>5, <2>6, <2>7, <2>8, <2>9 DEF Next, Click
<1> QED
  BY <1>1, TypeCorrect, PTL DEF Spec, ModalOwnsGlass, NoMore

-----------------------------------------------------------------------------
(* One move for a touch.                                                   *)

\* Settings open from the gauges and stay on top of them, and a slide has nothing
\* left to serve.
GaugesBelow ==
  /\ panel # None \/ want.open \/ at = "slide" => cur = "gauges"
  /\ at = "slide" => mute > 0 /\ want = Nothing

\* A finger on the glass keeps its stroke open.
StrokeHeld == touch = "down" => active /\ gap <= Release

\* Behind a slide are the gauges, and nothing is on its way to another page.
Quiet == mute > 0 => cur = "gauges" /\ want.move = None

\* A stroke has counted because of the way it has gone.
FarGone == fired => active /\ far = 2

\* A stroke that has counted waits for its hand-over with the stroke still open, or
\* is muted.
StrokePends == pending # None => mute > 0 \/ (gap < Rearm /\ active /\ far = 2)

\* A touch that has moved the screen cannot move it again, or has gone astray.
Spent ==
  moved > 0 /\ astray = {} =>
    /\ pending = None \/ panel # None \/ mute > 0
    /\ touch # "none" => (active /\ far = 2) \/ (touch = "up" /\ gap >= Rearm)

Touches == GaugesBelow /\ StrokeHeld /\ Quiet /\ FarGone /\ StrokePends /\ Spent /\ OneMovePerTouch
IInv == TypeOK /\ Touches

\* The numbers that the argument compares.
LEMMA Numbers ==
  ASSUME TypeOK
  PROVE  /\ gap \in Nat /\ mute \in Nat /\ moved \in Nat /\ far \in 0 .. 2
         /\ Rearm \in Nat /\ Release \in Nat /\ Tail \in Nat
         /\ Release < Rearm /\ Window \in Nat /\ Rearm <= Window /\ 0 < Tail
<1>1. gap \in Nat /\ mute \in Nat /\ moved \in Nat /\ far \in 0 .. 2
  BY Times DEF TypeOK
<1>2. Rearm \in Nat /\ Release \in Nat /\ Tail \in Nat /\ Stitch \in Nat
  BY Times
<1>3. Window \in Nat /\ Rearm <= Window
  BY <1>2, Times DEF Window
<1> QED
  BY <1>1, <1>2, <1>3, Times

LEMMA NothingIs == ~Nothing.open /\ Nothing.move = None
BY DEF Nothing

LEMMA CloseKeepsMove ==
  ASSUME TypeOK, ClosePanel
  PROVE  want'.move = want.move
BY DEF ClosePanel, TypeOK

\* A request for the settings is made from the gauges.
LEMMA RaiseFromGauges ==
  ASSUME want \in Requests, NEW d \in Dirs, Raise(d), want'.open
  PROVE  want.open \/ cur = "gauges"
BY DEF Raise, Would, Requests

LEMMA CloseKeepsOpen ==
  ASSUME TypeOK, ClosePanel
  PROVE  want'.open = want.open
BY DEF ClosePanel, TypeOK

\* A touch that had not been taken for anything counts once.
LEMMA CountsOnce ==
  ASSUME moved = 0, NEW yes, Counts(yes)
  PROVE  moved' \in {0, 1}
BY DEF Counts

LEMMA TouchesInit == Init => Touches
<1> SUFFICES ASSUME Init PROVE Touches
  OBVIOUS
<1>1. panel = None /\ ~want.open /\ at = "loop" /\ touch = "none" /\ pending = None /\ moved = 0
      /\ mute = 0 /\ ~fired
  BY NothingIs DEF Init
<1> QED
  BY <1>1 DEF Touches, GaugesBelow, StrokeHeld, Quiet, FarGone, StrokePends, Spent, OneMovePerTouch

\* What the finger, the input thread and time do.
LEMMA TouchesOfFinger ==
  ASSUME TypeOK, Touches, Press \/ Move \/ Lift \/ StrokeEnd \/ Tick
  PROVE  Touches'
<1> USE Numbers DEF Touches, GaugesBelow, StrokeHeld, Quiet, FarGone, StrokePends, Spent, OneMovePerTouch
<1>1. CASE Press
  <2>1. PICK d \in Dirs, to \in 0 .. 2 : to >= far /\ Report(d, to)
    BY <1>1 DEF Press
  <2>2. touch' = "down" /\ UNCHANGED <<panel, want, at, cur, mute>>
    BY <1>1 DEF Press, Rest, pages, settings, loop
  <2>3. gap' = 0 /\ active'
    BY <2>1 DEF Report
  <2>4. CASE ~active
    <3>1. moved' = 0
      BY <1>1, <2>4 DEF Press
    <3>3. far' = 0
      BY <2>1, <2>4 DEF Report
    <3>5. far' # 2
      BY <3>3
    <3>6. fired' = (active /\ fired) /\ pending' = pending
      BY <2>1, <3>5 DEF Report
    <3>4. ~fired' /\ pending' = pending
      BY <2>4, <3>6
    <3>2. pending = None \/ mute > 0
      BY <2>4
    <3> QED
      BY <2>2, <2>3, <3>1, <3>2, <3>4
  <2>5. CASE active /\ fired
    <3>1. moved' = moved /\ astray' = astray
      BY <1>1, <2>5 DEF Press
    <3>2. far = 2
      BY <2>5
    <3>3. far' = 2
      BY <2>1, <2>5, <3>2 DEF Report
    <3>4. fired' /\ pending' = pending
      BY <2>1, <2>5 DEF Report
    <3> QED
      BY <2>2, <2>3, <3>1, <3>2, <3>3, <3>4
  <2>6. CASE active /\ ~fired
    <3>1. moved' = moved /\ (moved > 0 => astray' # {})
      BY <1>1, <2>6 DEF Press
    <3>2. fired' => far' = 2
      BY <2>1, <2>6 DEF Report
    <3>3. pending' # None => mute > 0 \/ far' = 2
      BY <2>1, <2>6 DEF Report
    <3> QED
      BY <2>2, <2>3, <3>1, <3>2, <3>3
  <2> QED
    BY <2>4, <2>5, <2>6 DEF TypeOK
<1>2. CASE Move
  <2>1. PICK d \in Dirs, to \in far .. 2 : Report(d, to)
    BY <1>2 DEF Move
  <2>2. touch = "down" /\ far < 2 /\ UNCHANGED <<touch, moved, astray, panel, want, at, cur, mute>>
    BY <1>2 DEF Move, Rest, pages, settings, loop
  <2>3. gap' = 0 /\ active'
    BY <2>1 DEF Report
  <2>4. active /\ ~fired /\ (moved > 0 => astray # {})
    BY <2>2
  <2>5. fired' => far' = 2
    BY <2>1, <2>4 DEF Report
  <2>6. pending' # None => mute > 0 \/ far' = 2
    BY <2>1, <2>2, <2>4 DEF Report
  <2> QED
    BY <2>2, <2>3, <2>4, <2>5, <2>6
<1>3. CASE Lift
  <2>1. touch = "down" /\ touch' = "up"
    BY <1>3 DEF Lift
  <2>2. UNCHANGED <<gap, active, fired, far, pending, moved, astray, panel, want, at, cur, mute>>
    BY <1>3 DEF Lift, Rest, pages, settings, loop
  <2> QED
    BY <2>1, <2>2
<1>4. CASE StrokeEnd
  <2>1. active /\ gap >= Rearm /\ touch # "down" /\ ~fired'
    BY <1>4 DEF StrokeEnd
  <2>2. UNCHANGED <<touch, gap, pending, moved, astray, panel, want, at, cur, mute>>
    BY <1>4 DEF StrokeEnd, Rest, pages, settings, loop
  <2>3. touch # "none" => touch = "up"
    BY <2>1 DEF TypeOK
  <2> QED
    BY <2>1, <2>2, <2>3
<1>5. CASE Tick
  <2>1. UNCHANGED <<touch, active, fired, far, pending, moved, astray, panel, want, at, cur>>
    BY <1>5 DEF Tick, pages, settings
  <2>2. gap' \in {gap, gap + 1} /\ (touch = "down" => gap < Release)
    BY <1>5 DEF Tick
  <2>3. gap' \in Nat /\ gap' >= gap /\ (touch = "down" => gap' <= Release)
    BY <2>2
  <2>4. CASE Alive
    <3>1. pending = None /\ at # "slide"
      BY <1>5, <2>4 DEF Tick, Alive
    <3>2. mute' > 0 => mute > 0
      BY <1>5 DEF Tick
    <3>3. GaugesBelow' /\ StrokeHeld' /\ FarGone' /\ OneMovePerTouch'
      BY <2>1, <2>3, <3>1
    <3>4. Quiet' /\ StrokePends'
      BY <2>1, <3>1, <3>2
    <3>5. Spent'
      BY <2>1, <2>3, <3>1
    <3> QED
      BY <3>3, <3>4, <3>5
  <2>5. CASE ~Alive
    <3>1. at = "slide" /\ mute' = mute
      BY <1>5, <2>5 DEF Tick, Alive
    <3>2. GaugesBelow' /\ StrokeHeld' /\ FarGone' /\ Quiet' /\ StrokePends' /\ OneMovePerTouch'
      BY <2>1, <2>3, <3>1
    <3>3. Spent'
      BY <2>1, <2>3, <3>1
    <3> QED
      BY <3>2, <3>3
  <2> QED
    BY <2>4, <2>5
<1> QED
  BY <1>1, <1>2, <1>3, <1>4, <1>5

\* What the strokes raise.
LEMMA TouchesOfStroke ==
  ASSUME TypeOK, Touches, Drain \/ Gesture
  PROVE  Touches'
<1> USE Numbers DEF Touches, GaugesBelow, StrokeHeld, Quiet, FarGone, StrokePends, Spent, OneMovePerTouch
<1>r. want \in Requests
  BY DEF TypeOK, Requests
<1>1. CASE Drain
  <2>1. at # "slide" /\ pending # None /\ pending' = None /\ pending \in Dirs
    BY <1>1 DEF Drain, Alive, TypeOK
  <2>2. UNCHANGED <<touch, gap, active, fired, far, astray, cur, panel, at, mute>>
    BY <1>1 DEF Drain, pages, settings, loop
  <2>3. CASE UNCHANGED <<want, moved>>
    BY <2>1, <2>2, <2>3
  <2>4. CASE panel = None /\ ~Muted /\ Raise(pending) /\ Counts(Would(pending) # "nothing")
    <3>1. mute = 0 /\ gap < Rearm /\ active /\ far = 2
      BY <2>1, <2>4 DEF Muted
    <3>2. moved = 0 \/ astray # {}
      BY <2>1, <2>4, <3>1
    <3>3. moved' \in {0, 1} \/ astray # {}
      BY <2>4, <3>2, CountsOnce
    <3>4. want'.open => cur = "gauges"
      BY <1>r, <2>1, <2>4, RaiseFromGauges
    <3>5. GaugesBelow'
      BY <2>1, <2>2, <2>4, <3>4
    <3>6. Quiet' /\ StrokePends' /\ StrokeHeld' /\ FarGone' /\ OneMovePerTouch'
      BY <2>1, <2>2, <3>1, <3>3
    <3>7. Spent'
      BY <2>1, <2>2, <3>1
    <3> QED
      BY <3>5, <3>6, <3>7
  <2> QED
    BY <1>1, <2>3, <2>4 DEF Drain
<1>2. CASE Gesture
  <2>1. at # "slide" /\ touch = "down" /\ far = 2 /\ panel # None /\ moved = 0
    BY <1>2 DEF Gesture, Alive
  <2>2. moved' \in {0, 1}
    BY <1>2, <2>1, CountsOnce DEF Gesture
  <2>3. panel' # None
    BY <1>2, <2>1 DEF Gesture, None
  <2>4. want'.open = want.open /\ want'.move = want.move /\ (at = "slide" => want' = want)
    BY <1>2, <2>1, CloseKeepsOpen, CloseKeepsMove DEF Gesture
  <2>5. UNCHANGED <<touch, gap, active, fired, far, pending, astray, cur, at, mute>>
    BY <1>2 DEF Gesture, pages, loop
  <2>6. GaugesBelow' /\ Quiet'
    BY <2>1, <2>4, <2>5
  <2>7. StrokePends' /\ StrokeHeld' /\ FarGone' /\ OneMovePerTouch' /\ Spent'
    BY <2>1, <2>2, <2>3, <2>5
  <2> QED
    BY <2>6, <2>7
<1> QED
  BY <1>1, <1>2

\* What LVGL makes of a touch when it believes in the lift.
LEMMA TouchesOfClick ==
  ASSUME TypeOK, Touches, Click
  PROVE  Touches'
<1> USE Numbers DEF Touches, GaugesBelow, StrokeHeld, Quiet, FarGone, StrokePends, Spent, OneMovePerTouch
<1>r. want \in Requests
  BY DEF TypeOK, Requests
<1>c. touch' = "none" /\ UNCHANGED <<gap, active, fired, far, pending>> /\ touch = "up" /\ at # "slide"
  BY ClickedType DEF Click, ClickNothing, ClickZone, ClickPage, ClickPanel, ClickModal, ClickFace,
  Clicked, Alive
<1>a. astray \subseteq astray' /\ (gap >= Rearm /\ mute = 0 => astray' # {})
  BY DEF Click, ClickNothing, ClickZone, ClickPage, ClickPanel, ClickModal, ClickFace, Clicked
<1>s. astray' = {} => astray = {}
  BY <1>a
\* A tap that is not muted and does not come of a stroke is the first of its touch.
<1>f. ASSUME ~Dragging, mute = 0
      PROVE  pending = None /\ (moved = 0 \/ astray' # {})
  <2>1. ~(active /\ far = 2)
    BY <1>f DEF Dragging
  <2>2. pending = None
    BY <1>f, <2>1
  <2>3. moved > 0 /\ astray = {} => gap >= Rearm
    BY <1>c, <2>1
  <2> QED
    BY <1>a, <1>f, <1>s, <2>2, <2>3
<1>1. CASE ClickNothing \/ ClickModal
  <2>1. UNCHANGED <<panel, want, at, cur, mute, moved>>
    BY <1>1 DEF ClickNothing, ClickModal, Held, pages, settings, loop
  <2> QED
    BY <1>c, <1>s, <2>1
<1>2. CASE ClickZone
  <2>1. UNCHANGED <<panel, cur, at, mute>>
    BY <1>2 DEF ClickZone, pages, settings, loop
  <2>2. CASE UNCHANGED <<want, moved>>
    BY <1>c, <1>s, <2>1, <2>2
  <2>3. CASE \E d \in Dirs : panel = None /\ ~Muted /\ ~Dragging /\ Raise(d) /\ Counts(Would(d) # "nothing")
    <3>1. PICK d \in Dirs : panel = None /\ ~Muted /\ ~Dragging /\ Raise(d) /\ Counts(Would(d) # "nothing")
      BY <2>3
    <3>2. mute = 0
      BY <3>1 DEF Muted
    <3>3. pending = None /\ (moved = 0 \/ astray' # {})
      BY <1>f, <3>1, <3>2
    <3>4. moved' \in {0, 1} \/ astray' # {}
      BY <3>1, <3>3, CountsOnce
    <3>5. want'.open => cur = "gauges"
      BY <1>r, <3>1, RaiseFromGauges
    <3>6. GaugesBelow'
      BY <1>c, <2>1, <3>1, <3>5
    <3>7. Quiet' /\ StrokePends' /\ StrokeHeld' /\ FarGone' /\ OneMovePerTouch' /\ Spent'
      BY <1>c, <2>1, <3>2, <3>3, <3>4
    <3> QED
      BY <3>6, <3>7
  <2> QED
    BY <1>2, <2>2, <2>3 DEF ClickZone
<1>3. CASE ClickPage
  <2>1. UNCHANGED <<panel, want, at, mute>> /\ cur' \in {cur, "gauges"}
    BY <1>3 DEF ClickPage, settings, loop
  <2>2. CASE moved' = moved
    BY <1>c, <1>s, <2>1, <2>2
  <2>3. CASE moved' # moved
    <3>1. ~Dragging /\ cur # "gauges"
      BY <1>3, <2>3 DEF ClickPage, Counts
    <3>2. mute = 0
      BY <3>1
    <3>3. pending = None /\ (moved = 0 \/ astray' # {})
      BY <1>f, <3>1, <3>2
    <3>4. moved' \in {0, 1} \/ astray' # {}
      BY <1>3, <3>3, CountsOnce DEF ClickPage
    <3>5. OneMovePerTouch' /\ Spent'
      BY <1>c, <2>1, <3>3, <3>4
    <3>6. GaugesBelow' /\ Quiet' /\ StrokePends' /\ StrokeHeld' /\ FarGone'
      BY <1>c, <2>1, <3>2, <3>3
    <3> QED
      BY <3>5, <3>6
  <2> QED
    BY <2>2, <2>3
<1>4. CASE ClickPanel
  <2>1. UNCHANGED <<cur, at, mute, moved>>
    BY <1>4 DEF ClickPanel, pages, loop
  <2>2. want'.open = want.open /\ want'.move = want.move
    BY <1>4, CloseKeepsOpen, CloseKeepsMove DEF ClickPanel
  <2>3. panel' # None <=> panel # None
    BY <1>4 DEF ClickPanel, None
  <2> QED
    BY <1>c, <1>s, <2>1, <2>2, <2>3
<1>5. CASE ClickFace
  <2>1. at' # "slide" /\ (cur' = cur \/ cur' = "gauges") /\ (want' = want \/ want' = Nothing)
    BY <1>5, <1>c DEF ClickFace
  <2>2. UNCHANGED <<moved, panel, mute>>
    BY <1>5 DEF ClickFace, settings
  <2> QED
    BY <1>c, <1>s, <2>1, <2>2, NothingIs
<1> QED
  BY <1>1, <1>2, <1>3, <1>4, <1>5 DEF Click

\* What the mode loop serves.
LEMMA TouchesOfLoop ==
  ASSUME TypeOK, Touches, Serve
  PROVE  Touches'
<1> USE Numbers, NothingIs DEF Touches, GaugesBelow, StrokeHeld, Quiet, FarGone, StrokePends, Spent,
    OneMovePerTouch
<1>1. CASE ServeOpen
  <2>1. want.open /\ mute' = Tail /\ want' = Nothing
        /\ UNCHANGED <<touch, gap, active, fired, far, pending, moved, astray, cur>>
    BY <1>1 DEF ServeOpen, stroke, pages
  <2> QED
    BY <2>1
<1>2. CASE ServeClose
  <2>1. panel # None /\ at = "loop" /\ want' = Nothing
        /\ UNCHANGED <<touch, gap, active, fired, far, pending, moved, astray, cur>>
    BY <1>2 DEF ServeClose, pages
  <2>2. UNCHANGED <<panel, at, mute>> \/ mute' = Tail
    BY <1>2 DEF ServeClose, loop
  <2> QED
    BY <2>1, <2>2
<1>3. CASE ServeMove
  <2>1. at = "loop" /\ want.move # None /\ want' = Nothing
        /\ UNCHANGED <<touch, gap, active, fired, far, pending, moved, astray, panel, at, mute>>
    BY <1>3 DEF ServeMove, stroke, settings, loop
  <2>2. panel # None => cur' = cur
    BY <1>3 DEF ServeMove
  <2>3. ~(mute > 0)
    BY <2>1
  <2> QED
    BY <2>1, <2>2, <2>3
<1>4. CASE ServeFace
  <2>1. at' # "slide" /\ want' = Nothing
        /\ UNCHANGED <<touch, gap, active, fired, far, pending, moved, astray, cur, panel, mute>>
    BY <1>4 DEF ServeFace, stroke, pages, settings
  <2> QED
    BY <2>1
<1>5. CASE SlideEnds
  <2>1. at' = "loop" /\ UNCHANGED <<touch, gap, active, fired, far, pending, moved, astray, cur, panel,
        want, mute>>
    BY <1>5 DEF SlideEnds, stroke, pages, settings
  <2> QED
    BY <2>1
<1>6. CASE Rebuild
  <2>1. cur' = "gauges" /\ UNCHANGED <<touch, gap, active, fired, far, pending, moved, astray, panel,
        want, at, mute>>
    BY <1>6 DEF Rebuild, loop
  <2> QED
    BY <2>1
<1> QED
  BY <1>1, <1>2, <1>3, <1>4, <1>5, <1>6 DEF Serve

\* What comes from elsewhere.
LEMMA TouchesOfOthers ==
  ASSUME TypeOK, Touches, Others
  PROVE  Touches'
<1> USE NothingIs DEF Touches, GaugesBelow, StrokeHeld, Quiet, FarGone, StrokePends, Spent, OneMovePerTouch
<1>1. CASE Modals \/ Message
  <2>1. UNCHANGED <<touch, gap, active, fired, far, pending, moved, astray, cur, panel, want, at, mute>>
    BY <1>1 DEF Modals, Message, stroke, pages, settings, loop
  <2> QED
    BY <2>1
<1>2. CASE Doze \/ HostWakes \/ PeekEnds
  <2>1. at' # "slide" /\ UNCHANGED <<touch, gap, active, fired, far, pending, moved, astray, cur,
        panel, want, mute>>
    BY <1>2 DEF Doze, HostWakes, PeekEnds, stroke, pages, settings
  <2> QED
    BY <2>1
<1>3. CASE Wake
  <2>1. at' # "slide" /\ (cur' = cur \/ cur' = "gauges") /\ (want' = want \/ want' = Nothing)
    BY <1>3 DEF Wake
  <2>2. UNCHANGED <<touch, gap, active, fired, far, pending, moved, astray, panel, mute>>
    BY <1>3 DEF Wake, stroke, settings
  <2> QED
    BY <2>1, <2>2
<1> QED
  BY <1>1, <1>2, <1>3 DEF Others

LEMMA IInvInvariant == IInv /\ [Next]_vars => IInv'
<1> SUFFICES ASSUME TypeOK, Touches, [Next]_vars PROVE IInv'
  BY DEF IInv
<1>1. TypeOK'
  BY TypeInvariant
<1>2. CASE Finger \/ Click \/ Serve \/ Others
  BY <1>1, <1>2, TouchesOfFinger, TouchesOfStroke, TouchesOfClick, TouchesOfLoop,
  TouchesOfOthers DEF Finger, IInv
<1>3. CASE UNCHANGED vars
  BY <1>1, <1>3 DEF vars, stroke, pages, settings, loop, bounds, IInv, Touches, GaugesBelow,
  StrokeHeld, Quiet, FarGone, StrokePends, Spent, OneMovePerTouch
<1> QED
  BY <1>2, <1>3 DEF Next, Finger, Others

\* The strengthened invariant of a touch holds in every reachable state.
THEOREM Invariance == Spec => []IInv
<1>1. Init => IInv
  BY TypeInit, TouchesInit DEF IInv
<1> QED
  BY <1>1, IInvInvariant, PTL DEF Spec

\* A touch moves the screen once at most, however far LVGL is behind and for however
\* long the finger is out of contact, but for the two cases its excuse names.
THEOREM OneMove == Spec => []OneMovePerTouch
BY Invariance, PTL DEF IInv, Touches
=============================================================================
