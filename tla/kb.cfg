CONSTANTS
  Argvs <- AnyArgv
  U16_MOD = 16
  U32_MOD = 64
  MAX_THREAD = 3
  NUM_GAP = 2
  MAX_NUM_GAP = 4
  MAX_ARBIT_REQS = 2
  LOG_LEVEL_MAXIMUM = 101
  get_req_header_name_by_idx <- HeaderNames
  NPROC = 8
  NOFILE = 20
  DEFAULT_PORT = 1
  DEFAULT_SSL_PORT = 4
  Kinds <- AllKinds
  MaxFaults = 4
  NConn = 1
  ReqSize = 1
  SndCap = 2
  NUris = 3
  Losses <- AllLosses
SPECIFICATION FairSpec
INVARIANTS
  ArgsUsable
  PortRule
  ProbeVerdict
PROPERTIES
  ProbesEnd
