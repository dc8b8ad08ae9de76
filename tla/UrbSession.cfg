SPECIFICATION FairSpec
CONSTANTS
  MaxUrbs = 2
  MaxUnlinks = 2
  WaitMayFail = TRUE
  AllocMayFail = TRUE
INVARIANTS
  DeviceOpenWhileUsed
  AnswersSound

  
  
