SPECIFICATION Spec
CONSTANTS
  Stitch = 6
  Rearm = 4
  Release = 3
  Tail = 6
  Panels = 2
  Acts = 3
  Themes = 1
INVARIANT OneMovePerTouch
PROPERTIES ModalOwnsGlass Answered
CHECK_DEADLOCK FALSE
