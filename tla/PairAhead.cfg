SPECIFICATION Spec
CONSTANTS
  Proto <- MCProto
  Floor <- MCFloor
  HasBuild = TRUE
  ResumeTries = 2
  MaxVer = 3
  FirstFws = {2}
  FirstApps = {1}
  FirstFeed = 3
  MaxTaps = 1
  MaxFaults = 2
  MaxUp = 2
  MaxDown = 3
CHECK_DEADLOCK FALSE
PROPERTIES AheadIsHeld
