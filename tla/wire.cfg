SPECIFICATION WireSpec
CONSTANTS
  Urbs <- AllKinds
  Moves = {3, 65500}
  Chunks = {3}
  MaxShort = 1
  MaxUrb = 2
  MaxBare = 1
  Cuts = {28}
INVARIANTS
  WireTypeOK
  CutWhole
  EofIsReal
  LengthFromHeader
  
PROPERTIES
  Delivered
CHECK_DEADLOCK FALSE
