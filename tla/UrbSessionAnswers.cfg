SPECIFICATION FairSpec
CONSTANTS
  MaxUrbs = 3
  MaxUnlinks = 0
  WaitMayFail = FALSE
  AllocMayFail = FALSE
PROPERTIES
  EveryUrbAnswered
