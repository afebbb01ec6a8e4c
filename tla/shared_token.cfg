SPECIFICATION ServerSpec
CONSTANTS
  c1 = c1
  c2 = c2
  d1 = d1
  d2 = d2
  Clients = {c1, c2}
  Devices = {d1, d2}
  NumPorts = 1
  OpenErrors = {}
  MayDiffer = {}
  MaxReq = 2
INVARIANTS
  StopsForItself
CHECK_DEADLOCK FALSE
