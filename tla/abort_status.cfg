SPECIFICATION Spec
CONSTANTS
  h1 = h1
  h2 = h2
  r1 = r1
  Handles = {h1}
  ResetHandles = {r1}
  Shapes <- Control
  MaxUrb = 1
  MaxReset = 1
  MaxUnlink = 0
  SeqLimit = 2
  LendSeqnum = {0, 1}
  NoToken = 99
  Results = {"Error"}
  BlockingResults = {"Completed"}
  AllowLoss = FALSE
  BorrowCancel = FALSE
  LendCancel = FALSE
INVARIANTS
  AbortUnderstood
CHECK_DEADLOCK FALSE
