SPECIFICATION FairSpec
CONSTANTS
  Tokens <- MCTokens
  AUTH_TOKEN_MAX_LEN = 2
  AUTH_TIMEOUT_MS = 2
  DwordMod = 5
INVARIANTS
  
  FramingKept
  VerdictBounded
  RejectionJustified

  
