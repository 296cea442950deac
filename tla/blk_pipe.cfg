SPECIFICATION FairSpec
CONSTANTS
  NConn = 2
  TOTAL_REQ = 5
  ENABLE_PIPE = TRUE
  NUM_GAP = 2
  ReqSize = 1
  SndCap = 8
  MaxFaults = 2
  Kinds <- AnyAnswer
  Losses <- AnyLoss
  GARBAGE <- SomeGarbage
  U32_MOD <- ScaledU32
INVARIANTS
  NeverNegative
  NoneForgotten
  AbandonedHasWork
PROPERTIES
  TerminationWithoutLoss
  OnlyTimeoutStrands
