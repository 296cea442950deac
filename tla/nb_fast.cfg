SPECIFICATION FairSpec
CONSTANTS
  NConn = 1
  TOTAL_REQ = 3
  ENABLE_PIPE = TRUE
  G_FAST = TRUE
  NUM_GAP = 2
  ReqSize = 2
  SndCap = 3
  MaxFaults = 2
  POLL_TIMEOUT = 1
  POLL_MAX_TIMEOUT = 2
  Kinds <- ClosesOnReject
  LEFTOVER_MOD <- Leftover8
  U32_MOD <- ScaledU32
INVARIANTS
  UnansweredIsReal
  FramingKept
  PackedReadInBounds
PROPERTIES
  Termination
