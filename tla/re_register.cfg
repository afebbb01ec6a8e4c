SPECIFICATION DemuxSpec
CONSTANTS
  p1 = p1
  p2 = p2
  h1 = h1
  h2 = h2
  Ports = {p1, p2}
  Handles = {h1, h2}
  Addresses = {1, 2}
  MaxSession = 2
  MaxUrb = 1
  MaxReset = 1
  Overlap = {"port"}
INVARIANTS
  PortIsNew
CHECK_DEADLOCK FALSE
