SPECIFICATION Spec
CONSTANTS
  Streams <- NewlineAtEnd
  Truncated <- NoStream
  Drivers <- NonBlocking
  CHUNK_SIZE = 6
  RECV_BUFF_SCALE = 8
  U32_MOD <- ScaledU32
INVARIANTS
  Verdict
