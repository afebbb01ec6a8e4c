SPECIFICATION DemuxSpec
CONSTANTS
  p1 = p1
  p2 = p2
  h1 = h1
  h2 = h2
  Ports = {p1, p2}
  Handles = {h1, h2}
  Addresses = {1, 2}
  MaxSession = 2
  MaxUrb = 3
  MaxReset = 2
  Overlap = {}
INVARIANTS
  DemuxTypeOK
  FindsOwner
  RoutedToOwner
  AssertionsHold
CHECK_DEADLOCK FALSE
SYMMETRY DemuxSymmetry
