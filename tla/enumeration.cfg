SPECIFICATION Spec
CONSTANTS
  h1 = h1
  h2 = h2
  r1 = r1
  Handles = {h1, h2}
  ResetHandles = {r1}
  Shapes <- Enumeration
  MaxUrb = 2
  MaxReset = 2
  MaxUnlink = 1
  SeqLimit = 4
  LendSeqnum = {0, 1, 2, 3}
  NoToken = 99
  Results = {"Completed"}
  BlockingResults = {"Completed","NoDeviceErr"}
  AllowLoss = FALSE
  BorrowCancel = FALSE
  LendCancel = FALSE
CONSTRAINT FewEvents
SYMMETRY HandleSymmetry
INVARIANTS
  AddressAgrees
  ResetDoneInTime
  
  DisconnectLast
PROPERTIES
  ImplementsService
CHECK_DEADLOCK FALSE
