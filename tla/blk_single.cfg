SPECIFICATION Spec
CONSTANTS
  NConn = 2
  TOTAL_REQ = 5
  ENABLE_PIPE = FALSE
  NUM_GAP = 1
  ReqSize = 1
  SndCap = 8
  MaxFaults = 3
  Kinds <- NoRedirect
  Losses <- Closes
  GARBAGE <- SomeGarbage
  U32_MOD <- ScaledU32
INVARIANTS
  Accounting
  EndMeansDone
  WorkloadIsCounted
  NoStreamMixing
PROPERTIES
  RefinesLoadGen
