SPECIFICATION Spec
CONSTANTS
  Procs = {p1, p2}
  Busids = {b1, b2}
  Handles = {h1, h2, h3}
  MaxPorts = 2
  GuiToken = TRUE
  UnplugMayFail = FALSE
  None = None
INVARIANTS
  FreeIsAvailable
