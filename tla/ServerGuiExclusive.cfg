SPECIFICATION FairSpec
CONSTANTS
  Clients = {c1, c2}
  Devices = {d1}
  MAX_CLIENTS = 2
  None = None
PROPERTIES
  OneUserPerDevice
CHECK_DEADLOCK FALSE
