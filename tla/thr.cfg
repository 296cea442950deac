CONSTANTS
  Commands <- TwoThreads
  MAX_THREAD = 2
  THRD_NUM_MOD = 2
  UserHeaders <- OneAccept
  CUSTOM = TRUE
  Failures <- AnyFailure
  INTERRUPT = TRUE
  GARBAGE <- ZeroOrSeven
  MaxErrs = 1
SPECIFICATION FairSpec
INVARIANTS
  EachRequestOnce
  RequestsWellFormed
  LogsToOwnFile
  DumpExact
  InterruptHonest
PROPERTIES
  MainEnds
