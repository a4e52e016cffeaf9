-------------------------------- MODULE Glass --------------------------------
(***************************************************************************)
(* The board's glass: strokes and taps, pages, settings, modals and dozes. *)
(*                                                                         *)
(* A stroke is followed by the input thread (ui_swipe.c), which bridges    *)
(* the moments a moving finger loses contact and decides the direction     *)
(* with the finger still down.  LVGL learns of the lift later, and sends   *)
(* CLICKED for the same touch whether or not it was a stroke.  Neither     *)
(* moves the screen: they raise requests, which the mode loop takes one    *)
(* per pass (ui_settings_service), blocking for a slide where settings     *)
(* open or close.  A doze takes the mode loop away, a modal the taps.      *)
(*                                                                         *)
(* Time is in units of 40 ms, and is kept only for the end of a touch and  *)
(* the mute behind a slide.  How far LVGL is behind the touch driver is    *)
(* left open (by one comment it drains a queue more slowly than that       *)
(* fills), and so is how long a finger is out of contact: past Release     *)
(* the driver takes that for a lift, and the way back for a press.         *)
(***************************************************************************)
EXTENDS Integers, FiniteSets

CONSTANTS
  Stitch,   \* a stroke that has not counted ends after this silence
  Rearm,    \* one that has counted, after this
  Release,  \* the touch driver believes in a lift after this
  Tail,     \* the mute that is left when a slide is over
  Panels,   \* bound: the pages the daemon describes
  Acts,     \* bound: touches, and modals that come up
  Themes    \* bound: changes of the theme

ASSUME Times ==
  /\ {Stitch, Rearm, Release, Tail, Panels, Acts, Themes} \subseteq Nat
  /\ Release < Rearm /\ Rearm <= Stitch /\ 0 < Tail

VARIABLES
  touch, on, gap,  \* the finger, what it was put on, and the time since the panel reported it
  active, fired, far, pending,  \* ui_swipe.c: the stroke, how far it went, what it asks for
  cur, panels, showing,         \* ui_pages.c and ui_panel.c
  panel, there,    \* ui_settings.c: the panel as its pointers have it, and whether it exists
  modal,           \* what is up on the top layer
  want, closing,   \* the requests
  theme,           \* the theme has changed and the screen is not rebuilt
  takeover,        \* CONNECTING covers the gauges
  at, mute,        \* what the mode loop is doing; the rest of the mute
  acts, themes,
  moved,           \* history: how often this touch has moved the screen
  astray           \* history: what of it the windows are too short for

stroke == <<touch, on, gap, active, fired, far, pending, moved, astray>>
pages == <<cur, panels, showing>>
settings == <<panel, there, theme>>
loop == <<at, mute>>
bounds == <<acts, themes>>
vars == <<stroke, pages, settings, modal, want, closing, takeover, loop, bounds>>

Dirs == {"left", "right", "up", "down"}
None == "none"
Spoke == [music |-> "left", launcher |-> "right", panel |-> "down"]
Opposite == [left |-> "right", right |-> "left", up |-> "down", down |-> "up"]

Nothing == [open |-> FALSE, close |-> FALSE, face |-> FALSE, move |-> None]
\* ui_settings_busy
Busy == panel # None \/ want # Nothing

Init ==
  /\ touch = "none" /\ on = None /\ gap = 0 /\ moved = 0 /\ astray = {}
  /\ active = FALSE /\ fired = FALSE /\ far = 0 /\ pending = None
  /\ cur = "gauges" /\ panels \in 0 .. Panels /\ showing = 0
  /\ panel = None /\ there = FALSE /\ theme = FALSE
  /\ modal \in {{}, {"notice"}}
  /\ want = Nothing /\ closing = FALSE
  /\ takeover \in BOOLEAN
  /\ at = "loop" /\ mute = 0 /\ acts = 0 /\ themes = 0

-----------------------------------------------------------------------------
(* The finger and the input thread.                                        *)

\* A slide blocks the mode loop, and LVGL with it.
Alive == at # "slide"
Showing == at \in {"loop", "peek", "slide"}

Zones == IF cur = "gauges" THEN Dirs ELSE {"home"} \cup (IF cur = "panel" /\ panels > 1 THEN {"nav"} ELSE {})
Below == IF ~Showing THEN {"face"}
         ELSE IF panel = None \/ ~there THEN Zones
         ELSE IF panel = "list" THEN {"back", "row"} ELSE {"back", "theme"}
\* What can be pressed: a full-screen modal covers everything, a box leaves the
\* edges of the screen free.
Controls ==
  {None} \cup
  (IF "download" \in modal THEN {}
   ELSE IF "news" \in modal THEN {"news"}
   ELSE Below \cup (modal \cap {"notice", "prompt"}) \cup (IF "notice" \in modal THEN {"more"} ELSE {}))

\* A report of the panel (report, consider): the finger has got this far.  With
\* no stroke under way a new one begins here.
Report(d, to) ==
  /\ gap' = 0 /\ active' = TRUE
  /\ far' = (IF active THEN to ELSE 0)
  /\ IF far' = 2 /\ ~(active /\ fired)
     THEN fired' = TRUE /\ pending' = d
     ELSE fired' = (active /\ fired) /\ UNCHANGED pending

Rest == <<pages, settings, modal, want, closing, takeover, loop, themes>>

\* A press into the tail of the stroke before goes on with it, from wherever it is:
\* the finger is back, and it is the same touch still.  What was taken for a tap
\* before it got anywhere may become a stroke now.
Press ==
  /\ touch = "none" /\ acts < Acts /\ acts' = acts + 1
  /\ touch' = "down"
  /\ IF active
     THEN UNCHANGED moved /\ astray' = astray \cup (IF moved > 0 /\ ~fired THEN {"tapped"} ELSE {})
     ELSE moved' = 0 /\ astray' = {}
  /\ on' \in (IF Alive THEN Controls ELSE {None})
  /\ \E d \in Dirs, to \in 0 .. 2 : to >= far /\ Report(d, to)
  /\ UNCHANGED Rest

Move ==
  /\ touch = "down" /\ far < 2
  /\ \E d \in Dirs, to \in far .. 2 : Report(d, to)
  /\ UNCHANGED <<Rest, touch, on, moved, astray, acts>>

Lift ==
  /\ touch = "down" /\ touch' = "up"
  /\ UNCHANGED <<Rest, on, gap, active, fired, far, pending, moved, astray, acts>>

\* Mutant of Window: as soon as it has counted, and before LVGL knows of the lift.
WindowSoon == IF fired THEN Release - 1 ELSE Stitch
Window == IF fired THEN Rearm ELSE Stitch

\* stroke_end
StrokeEnd ==
  /\ active /\ gap >= Window
  /\ active' = FALSE /\ fired' = FALSE /\ far' = 0
  /\ UNCHANGED <<Rest, touch, on, gap, pending, moved, astray, acts>>

\* Nothing that is due is passed over, but what LVGL has yet to hear.
Tick ==
  /\ gap < Stitch \/ mute > 0
  /\ active => gap < Window
  /\ touch = "down" => gap < Release
  /\ Alive => pending = None
  /\ at = "loop" => want = Nothing
  /\ gap' = (IF gap < Stitch THEN gap + 1 ELSE gap)
  /\ mute' = (IF mute > 0 /\ Alive THEN mute - 1 ELSE mute)
  /\ UNCHANGED <<touch, on, active, fired, far, pending, moved, astray, pages, settings, modal, want, closing, takeover, at, bounds>>

\* ui_swipe_dragging
Dragging == active /\ far >= 1

-----------------------------------------------------------------------------
(* LVGL's callbacks.                                                       *)

\* ui_pages_would
Would(d) ==
  IF cur # "gauges"
  THEN IF (cur = "panel" /\ panels > 1 /\ d \in {"left", "right"}) \/ d = Opposite[Spoke[cur]] THEN "done" ELSE "nothing"
  ELSE IF d = "up" THEN "settings" ELSE IF d = "down" /\ panels = 0 THEN "face" ELSE "done"

\* modal_up.  Mutant: without the boxes.
ModalUpFull == modal \cap {"news", "download"} # {}
ModalUp == modal # {}

\* What a stroke or a tap in direction d raises.
Raise(d) ==
  want' = (IF Would(d) = "settings" THEN [want EXCEPT !.open = TRUE]
           ELSE IF Would(d) = "face" THEN [want EXCEPT !.face = TRUE]
           ELSE IF Would(d) = "done" THEN [want EXCEPT !.move = d] ELSE want)
\* A touch is taken for at most two things before the run is of no more interest.
Counts(yes) == moved' = (IF yes /\ moved < 2 THEN moved + 1 ELSE moved)

Muted == mute > 0

\* swipe_cb, by way of drain_cb
Drain ==
  /\ Alive /\ pending # None /\ pending' = None
  /\ IF "news" \in modal
     THEN /\ modal' = (IF pending = "right" THEN modal \ {"news"} ELSE modal)
          /\ UNCHANGED <<want, moved>>
     ELSE /\ UNCHANGED modal
          /\ IF ModalUp \/ panel # None \/ Muted \/ (Would(pending) = "settings" /\ takeover)
             THEN UNCHANGED <<want, moved>>
             ELSE Raise(pending) /\ Counts(Would(pending) # "nothing")
  /\ UNCHANGED <<touch, on, gap, active, fired, far, astray, pages, settings, closing, takeover, loop, bounds>>

\* close_panel
ClosePanel ==
  IF closing \/ "download" \in modal THEN UNCHANGED <<want, closing>>
  ELSE closing' = TRUE /\ want' = [want EXCEPT !.close = TRUE]

Held == <<pages, panel, there, theme, modal, want, closing, takeover, loop, themes, acts>>

\* LVGL believes in the lift: CLICKED, at what was pressed; late, when a stroke that
\* counted can be over, and no slide has muted what comes after it.
Clicked(c) ==
  /\ Alive /\ touch = "up" /\ gap >= Release /\ on = c
  /\ touch' = "none" /\ on' = None
  /\ astray' = astray \cup (IF gap >= Rearm /\ mute = 0 THEN {"late"} ELSE {})
  /\ UNCHANGED <<gap, active, fired, far, pending>>

ClickNothing == Clicked(None) /\ UNCHANGED <<Held, moved>>

\* zone_dir_cb.  LVGL presses stay with their object, wherever the screen went since.
ClickZone ==
  /\ \E d \in Dirs :
       /\ Clicked(d)
       /\ IF panel = None /\ ~ModalUp /\ ~Muted /\ ~Dragging
          THEN Raise(d) /\ Counts(Would(d) # "nothing")
          ELSE UNCHANGED <<want, moved>>
  /\ UNCHANGED <<pages, settings, modal, closing, takeover, loop, bounds>>

\* on_home_tap, on_nav_tap
ClickPage ==
  /\ \/ /\ Clicked("home")
        /\ cur' = (IF Dragging THEN cur ELSE "gauges") /\ Counts(cur' # cur)
        /\ UNCHANGED <<panels, showing>>
     \/ /\ Clicked("nav")
        /\ showing' = (IF Dragging \/ panels <= 1 THEN showing ELSE (showing + 1) % panels)
        /\ Counts(showing' # showing /\ cur = "panel" /\ Showing)
        /\ UNCHANGED <<cur, panels>>
  /\ UNCHANGED <<settings, modal, want, closing, takeover, loop, bounds>>

\* back_cb and bright_close_cb, show_bright, theme_cb.  What is pressed goes with
\* the panel when that is deleted.
ClickPanel ==
  /\ \/ /\ Clicked("back")
        /\ IF panel = "list" THEN ClosePanel /\ UNCHANGED panel
           ELSE panel' = (IF panel = "bright" THEN "list" ELSE panel) /\ UNCHANGED <<want, closing>>
        /\ UNCHANGED <<theme, themes>>
     \/ /\ Clicked("row")
        /\ panel' = (IF panel = "list" THEN "bright" ELSE panel)
        /\ UNCHANGED <<want, closing, theme, themes>>
     \/ /\ Clicked("theme") /\ themes < Themes
        /\ theme' = TRUE /\ themes' = themes + 1
        /\ UNCHANGED <<panel, want, closing>>
  /\ UNCHANGED <<there, pages, modal, takeover, loop, acts, moved>>

\* notice_ok_cb, wn_open_cb, wn_close_cb, and both buttons of the offer
ClickModal ==
  /\ \/ Clicked("notice") /\ modal' = modal \ {"notice"}
     \/ Clicked("more") /\ modal' = modal \cup {"news"}
     \/ Clicked("news") /\ modal' = modal \ {"news"}
     \/ Clicked("prompt") /\ modal' = modal \ {"prompt"}
  /\ UNCHANGED <<pages, settings, want, closing, takeover, loop, bounds, moved>>

\* panel_gesture_cb and bright_gesture_cb: LVGL's own gesture, which takes a longer
\* way than a stroke, from the bare panel.
Gesture ==
  /\ Alive /\ touch = "down" /\ far = 2 /\ on = None /\ modal = {} /\ panel # None /\ there /\ moved = 0
  /\ Counts(TRUE)
  /\ IF panel = "bright" THEN panel' = "list" /\ UNCHANGED <<want, closing>>
     ELSE ClosePanel /\ UNCHANGED panel
  /\ UNCHANGED <<touch, on, gap, active, fired, far, pending, astray, pages, there, theme, modal, takeover, loop, bounds>>

-----------------------------------------------------------------------------
(* What comes from elsewhere.                                              *)

\* upd_timer_cb and upd_prompt_step: an outcome to read, an offer, a download that
\* covers the screen, until it fails.
Modals ==
  /\ \/ /\ acts < Acts /\ acts' = acts + 1
        /\ \/ modal' = modal \cup {"notice"}
           \/ /\ panel = None /\ modal \cap {"notice", "download", "prompt"} = {}
              /\ modal' = modal \cup {"prompt"}
           \/ modal' = (modal \ {"prompt"}) \cup {"download"}
     \/ "prompt" \in modal /\ modal' = modal \ {"prompt"} /\ UNCHANGED acts
     \/ "download" \in modal /\ modal' = (modal \ {"download"}) \cup {"notice"} /\ UNCHANGED acts
  /\ Alive
  /\ UNCHANGED <<stroke, pages, settings, want, closing, takeover, loop, themes>>

\* The daemon speaks: a page it describes, the first reading.
Message ==
  /\ \/ panels < Panels /\ panels' = panels + 1 /\ UNCHANGED takeover
     \/ takeover /\ takeover' = FALSE /\ UNCHANGED panels
  /\ UNCHANGED <<stroke, cur, showing, settings, modal, want, closing, loop, bounds>>

-----------------------------------------------------------------------------
(* The mode loop.                                                          *)

\* ui_pages_go and ui_pages_home.  ui_panel_show(0) precedes the panel page.
Go(d) ==
  IF Would(d) # "done" THEN UNCHANGED <<cur, showing>>
  ELSE IF cur = "panel" /\ d \in {"left", "right"}
  THEN /\ showing' = (IF d = "right" THEN showing + 1 ELSE showing + panels - 1) % panels
       /\ UNCHANGED cur
  ELSE IF cur # "gauges" THEN cur' = "gauges" /\ UNCHANGED showing
  ELSE /\ cur' = (CHOOSE p \in DOMAIN Spoke : Spoke[p] = d)
       /\ showing' = (IF d = "down" THEN 0 ELSE showing)

\* A request that is not served by this pass is dropped by it.
ServeOpen ==
  /\ at = "loop" /\ want.open /\ panel = None
  /\ panel' = "list" /\ there' = TRUE /\ at' = "slide" /\ mute' = Tail
  /\ want' = Nothing
  /\ UNCHANGED <<stroke, pages, theme, modal, closing, takeover, bounds>>

Unserved == ~(want.open /\ panel = None)

\* do_close, refused under a download, after which it can be asked for again.
ServeClose ==
  /\ at = "loop" /\ Unserved /\ want.close /\ panel # None
  /\ IF "download" \in modal
     THEN closing' = FALSE /\ UNCHANGED <<panel, there, loop, on>>
     ELSE /\ panel' = None /\ there' = FALSE /\ closing' = FALSE
          /\ at' = "slide" /\ mute' = Tail
          /\ on' = (IF on \in {"back", "row", "theme"} THEN None ELSE on)
  /\ want' = Nothing
  /\ UNCHANGED <<touch, gap, active, fired, far, pending, moved, astray, pages, theme, modal, takeover, bounds>>

ServeMove ==
  /\ at = "loop" /\ Unserved /\ ~want.close /\ want.move # None
  /\ IF panel = None THEN Go(want.move) ELSE UNCHANGED <<cur, showing>>
  /\ want' = Nothing
  /\ UNCHANGED <<stroke, panels, settings, modal, closing, takeover, loop, bounds>>

\* ui_sleep_show_face: `until a touch'
ServeFace ==
  /\ at = "loop" /\ Unserved /\ ~want.close /\ want.move = None /\ want.face
  /\ IF panel = None THEN at' = "face" /\ modal' = modal \ {"news"} ELSE UNCHANGED <<at, modal>>
  /\ want' = Nothing
  /\ UNCHANGED <<stroke, pages, settings, closing, takeover, mute, bounds>>

\* The slide takes longer than any window of the input thread, but a finger may rest
\* on the glass through all of it.
SlideEnds ==
  /\ at = "slide" /\ at' = "loop"
  /\ gap = Stitch \/ touch = "down"
  /\ UNCHANGED <<stroke, pages, settings, modal, want, closing, takeover, mute, bounds>>

\* theme_rebuild: the screen goes, with everything that hangs off it.
Rebuild ==
  /\ at = "loop" /\ theme /\ theme' = FALSE
  /\ there' = FALSE /\ cur' = "gauges" /\ on' = None
  /\ UNCHANGED <<touch, gap, active, fired, far, pending, moved, astray, panels, showing, panel, modal, want, closing, takeover, loop, bounds>>

\* ui_sleep_run, when nobody is at the board and no update is in flight
Doze ==
  /\ at = "loop" /\ ~Busy /\ "download" \notin modal /\ touch = "none"
  /\ at' = "doze" /\ modal' = modal \ {"news"}
  /\ UNCHANGED <<stroke, pages, settings, want, closing, takeover, mute, bounds>>

\* tap_cb, on the sleeping screen: a look at the dashboard, with a note; or the
\* end of the face asked for, which goes home.
ClickFace ==
  /\ Clicked("face")
  /\ IF at = "doze" THEN at' = "peek" /\ modal' = modal \cup {"notice"} /\ UNCHANGED <<cur, want>>
     ELSE IF at = "face" THEN at' = "loop" /\ cur' = "gauges" /\ want' = Nothing /\ UNCHANGED modal
     ELSE UNCHANGED <<at, cur, want, modal>>
  /\ UNCHANGED <<moved, panels, showing, settings, closing, takeover, mute, bounds>>

\* Mutant of Woken: only what the caller waits for ends a doze.
WokenByHost == FALSE
\* woken, but for the caller's own reason
Woken == Busy

Wake ==
  /\ \/ at \in {"doze", "peek"} /\ Woken
     \/ at = "face" /\ Woken
  /\ at' = "loop"
  /\ modal' = (IF at = "peek" THEN modal \ {"notice"} ELSE modal)
  /\ IF at = "face" THEN cur' = "gauges" /\ want' = Nothing ELSE UNCHANGED <<cur, want>>
  /\ UNCHANGED <<stroke, panels, showing, settings, closing, takeover, mute, bounds>>

\* The app speaks, or the reading moves.
HostWakes ==
  /\ at \in {"doze", "peek"} /\ at' = "loop"
  /\ modal' = (IF at = "peek" THEN modal \ {"notice"} ELSE modal)
  /\ UNCHANGED <<stroke, pages, settings, want, closing, takeover, mute, bounds>>

PeekEnds ==
  /\ at = "peek" /\ ~Busy /\ at' = "doze" /\ modal' = modal \ {"notice"}
  /\ UNCHANGED <<stroke, pages, settings, want, closing, takeover, mute, bounds>>

Serve == ServeOpen \/ ServeClose \/ ServeMove \/ ServeFace \/ SlideEnds \/ Rebuild
Click == ClickNothing \/ ClickZone \/ ClickPage \/ ClickPanel \/ ClickModal \/ ClickFace

Next ==
  \/ Press \/ Move \/ Lift \/ StrokeEnd \/ Tick \/ Drain \/ Click \/ Gesture \/ Modals \/ Message
  \/ Serve \/ Doze \/ Wake \/ HostWakes \/ PeekEnds

\* The mode loop turns, a doze looks at its reasons to end, time passes, a finger is
\* lifted.  Nobody need ever touch the board again, and the host may stay silent.
Fairness == WF_vars(Serve) /\ WF_vars(Wake) /\ WF_vars(Lift) /\ WF_vars(Tick \/ StrokeEnd \/ Click)
Spec == Init /\ [][Next]_vars /\ Fairness

-----------------------------------------------------------------------------
(* Properties.                                                             *)

TypeOK ==
  /\ touch \in {"none", "down", "up"} /\ gap \in 0 .. Stitch /\ moved \in 0 .. 2 /\ astray \subseteq {"tapped", "late"}
  /\ on \in Dirs \cup {None, "home", "nav", "back", "row", "theme", "face", "notice", "more", "news", "prompt"}
  /\ {active, fired, there, closing, theme, takeover} \subseteq BOOLEAN
  /\ far \in 0 .. 2 /\ pending \in Dirs \cup {None}
  /\ cur \in {"gauges"} \cup DOMAIN Spoke /\ panels \in 0 .. Panels /\ showing \in 0 .. Panels
  /\ panel \in {None, "list", "bright"} /\ modal \subseteq {"notice", "news", "prompt", "download"}
  /\ want \in [open: BOOLEAN, close: BOOLEAN, face: BOOLEAN, move: Dirs \cup {None}]
  /\ at \in {"loop", "slide", "doze", "peek", "face"} /\ mute \in 0 .. Tail
  /\ acts \in 0 .. Acts /\ themes \in 0 .. Themes

\* A touch moves the screen once at most: not as a stroke and again as the tap
\* that LVGL makes of it, not by closing settings and again on what they uncover,
\* not again when the finger has lost contact and is back within its stroke.  The
\* windows do not cover a CLICKED that comes when they are over, nor a contact
\* lost at the very start, for so long that it is a tap to LVGL, and found again.
OneMovePerTouch == moved > 1 => astray # {}

\* While something on the top layer waits for an answer, no stroke and no tap at the
\* edges of the gauges asks for another screen.
ModalOwnsGlass == [][modal # {} => (want'.open => want.open) /\ (want'.face => want.face) /\ want'.move \in {want.move, None}]_vars

\* Whatever was asked for is answered by the loop, soon and not hours later when the
\* board happens to wake, and a close that had to be refused can be asked for again.
Answered == (want # Nothing \/ closing) ~> (want = Nothing /\ ~closing)

\* The panel is NULL when closed (ui_settings.c:75), and what it points to can be
\* closed again.
PanelIsThere == panel # None => there

=============================================================================
