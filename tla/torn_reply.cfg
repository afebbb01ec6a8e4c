SPECIFICATION Spec
CONSTANTS
  h1 = h1
  h2 = h2
  r1 = r1
  Handles = {h1, h2}
  ResetHandles = {r1}
  Shapes <- Control
  MaxUrb = 2
  MaxReset = 1
  MaxUnlink = 0
  SeqLimit = 3
  LendSeqnum = {0, 1, 2}
  NoToken = 99
  Results = {"Completed", "NoDevice"}
  BlockingResults = {"Completed"}
  AllowLoss = FALSE
  BorrowCancel = FALSE
  LendCancel = FALSE
SYMMETRY HandleSymmetry
INVARIANTS
  RepliesWhole
CHECK_DEADLOCK FALSE
