SPECIFICATION Spec
CONSTANTS
  Readings = {"one", "two", "long"}
  TwoPages = {"two", "long"}
  OldSecond = {"two"}
  Names = {"p", "q"}
  TooLong = {"long"}
  HostTimeout = 2
  AppWait = 3
  StaleAfter = 3
  AbsentAfter = 6
  MaxAge = 6
  Liveness = 2
  PollEvery = 3
  Budget = 4
  FirstVals = {"one"}
  FirstNames = {"p"}
  FirstAges = {0}
INVARIANTS Restated FastNews AgeIsHonest NoFlapping EyesOpen
PROPERTIES ByeIsNotSleep
