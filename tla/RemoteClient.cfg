SPECIFICATION FairSpec
CONSTANTS
  Procs = {p1}
  Busids = {b1, b2, b3}
  Handles = {h1, h2, h3, h4}
  MaxPorts = 2
  GuiToken = FALSE
  UnplugMayFail = FALSE
  None = None
INVARIANTS
  PortsAccounted
  
  
  RowsFollowDevices
PROPERTIES
  InterruptedExits
