SPECIFICATION FairSpec
CONSTANTS
  Proto <- MCProto
  Floor <- MCFloor
  HasBuild = TRUE
  ResumeTries = 2
  MaxVer = 3
  FirstFws = {1, 2}
  FirstApps = {1}
  FirstFeed = 2
  MaxTaps = 1
  MaxFaults = 1
  MaxUp = 1
  MaxDown = 3
CHECK_DEADLOCK FALSE
INVARIANT NoDeadOffer
PROPERTIES ConsentSettles ImplementsConsent ConsentKept AppGoesFirst ResumeIsHeld
