SPECIFICATION FairSpec
CONSTANTS
  Clients = {c1, c2}
  Devices = {d1}
  MAX_CLIENTS = 2
  None = None
INVARIANTS
  ClientsAccounted
  
PROPERTIES
  
  
  WindowExits
CHECK_DEADLOCK FALSE
