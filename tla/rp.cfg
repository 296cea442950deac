SPECIFICATION Spec
CONSTANTS
  Streams <- AllStreams
  Truncated <- EndingStreams
  Drivers <- BothDrivers
  CHUNK_SIZE = 6
  RECV_BUFF_SCALE = 8
  U32_MOD <- ScaledU32
INVARIANTS
  Verdict
  FieldsFound
  BufferHasRoom
PROPERTIES
  EndsWhereSent
