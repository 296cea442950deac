SPECIFICATION FairSpec
CONSTANTS
  NConn = 1
  TOTAL_REQ = 3
  ENABLE_PIPE = TRUE
  G_FAST = FALSE
  NUM_GAP = 2
  ReqSize = 1
  SndCap = 4
  MaxFaults = 1
  POLL_TIMEOUT = 1
  POLL_MAX_TIMEOUT = 2
  Kinds <- ClosesOnReject
  LEFTOVER_MOD <- Leftover8
  U32_MOD <- ScaledU32
PROPERTIES
  Termination
