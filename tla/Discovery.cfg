SPECIFICATION FairSpec
CONSTANTS
  Servers = {s1, s2}
  MAX_DISCOVERED_SERVERS = 3
  Timeout = 3
  Slice = 2
  Wrap = 5
  MaxDelay = 1
  MaxNoise = 1
INVARIANTS
  RowsAreAnswers
  TableKept
  EndsInTime
PROPERTIES
  DiscoveryEnds
