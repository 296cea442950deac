SPECIFICATION FairSpec
CONSTANTS
  NConn = 1
  TOTAL_REQ = 2
  ENABLE_PIPE = TRUE
  NUM_GAP = 2
  ReqSize = 1
  SndCap = 8
  MaxFaults = 1
  Kinds <- Finishing404
  Losses <- NoLoss
  GARBAGE <- SomeGarbage
  U32_MOD <- ScaledU32
PROPERTIES
  Termination
