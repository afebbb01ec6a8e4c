SPECIFICATION Spec
CONSTANTS
  h1 = h1
  h2 = h2
  r1 = r1
  Handles = {h1}
  ResetHandles = {r1}
  Shapes <- Endings
  MaxUrb = 1
  MaxReset = 1
  MaxUnlink = 1
  SeqLimit = 2
  LendSeqnum = {0, 1}
  NoToken = 99
  Results = {"NoDevice","Error"}
  BlockingResults = {"Completed","NoDeviceErr"}
  AllowLoss = TRUE
  BorrowCancel = TRUE
  LendCancel = TRUE
PROPERTIES
  
  ResetEnds
  TeardownCompletes
CHECK_DEADLOCK FALSE
