SPECIFICATION FairSpec
CONSTANTS
  MaxUrbs = 3
  Seqnums = {1, 2}
  WaitMayFail = TRUE
INVARIANTS
  EveryUrbAccounted
  StatusTruthful
  SubmissionOrder
  NoLostWakeup
  StoppedIsQuiet
  AtMostOneLate
PROPERTIES
  OutcomeDecidedOnce
  StopReturns
  EveryUrbDecided
