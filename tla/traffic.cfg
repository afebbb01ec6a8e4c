SPECIFICATION Spec
CONSTANTS
  h1 = h1
  h2 = h2
  r1 = r1
  Handles = {h1, h2}
  ResetHandles = {r1}
  Shapes <- Control
  MaxUrb = 3
  MaxReset = 1
  MaxUnlink = 2
  SeqLimit = 4
  LendSeqnum = {0, 1, 2, 3}
  NoToken = 99
  Results = {"Completed"}
  BlockingResults = {"Completed"}
  AllowLoss = FALSE
  BorrowCancel = FALSE
  LendCancel = FALSE
SYMMETRY HandleSymmetry
INVARIANTS
  TypeOK
  ReplyIsExpected
  MapsInverse
  GivebackMatches
  NoStrandedFrame
  CancelledOnlyIfUnlinked
  TokensExclusive
  SubmittedInOrder
CHECK_DEADLOCK FALSE
