SPECIFICATION ServerSpec
CONSTANTS
  c1 = c1
  c2 = c2
  d1 = d1
  d2 = d2
  Clients = {c1, c2}
  Devices = {d1}
  NumPorts = 1
  OpenErrors = {"Io", "NotFound"}
  MayDiffer = {c2}
  MaxReq = 2
INVARIANTS
  ServerTypeOK
  
  
  GrantBacked
  OneMoreAfterCancel

  
  
CHECK_DEADLOCK FALSE
