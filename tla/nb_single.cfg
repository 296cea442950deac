SPECIFICATION FairSpec
CONSTANTS
  NConn = 2
  TOTAL_REQ = 3
  ENABLE_PIPE = FALSE
  G_FAST = FALSE
  NUM_GAP = 1
  ReqSize = 1
  SndCap = 4
  MaxFaults = 1
  POLL_TIMEOUT = 1
  POLL_MAX_TIMEOUT = 2
  Kinds <- AnyAnswer
  LEFTOVER_MOD <- Leftover8
  U32_MOD <- ScaledU32
INVARIANTS
  TypeOK
  Accounting
  AllFinExact
  NoStreamMixing
  NoEarlyEnd
  RetryPaid
PROPERTIES
  Termination
