\* One network, one computer, three tokens, three releases, three faults or acts.
SPECIFICATION FairSpec
CONSTANTS
  BLIND_MAX = 2
  REFRESH_REJECT_LIMIT = 2
  UNAUTH_REFRESH_TRIES = 1
  MaxTok = 3
  MaxVer = 3
  MaxActs = 3
INVARIANT SetupKept
PROPERTIES Arrives TrialEnds
\* The tethered mode, which is modelled elsewhere, ends every other activity here.
CHECK_DEADLOCK FALSE
