SPECIFICATION FairSpec
CONSTANTS
  Clients = {c1, c2}
  Devices = {d1, d2}
  MAX_CLIENTS = 2
  None = None
INVARIANTS
  AttachedOwnsDevice
  DeviceListConsistent
  NothingLeftBehind
PROPERTIES
  OneUserPerDevice
  
