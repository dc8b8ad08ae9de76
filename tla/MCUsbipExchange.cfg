SPECIFICATION Spec
CONSTANTS
  Names = {p1, p2, p3, b1, b2, b3}
  Lists <- MCLists
  Urbs <- MCUrbs
  MAX_DEVICES = 2
  MaxUrbs = 2
  Losses = {0, 1}
  p1 = p1
  p2 = p2
  p3 = p3
  b1 = b1
  b2 = b2
  b3 = b3
INVARIANTS
  RequestsUnderstood
  RepliesUnderstood
  NeverBothWaiting
CHECK_DEADLOCK FALSE
