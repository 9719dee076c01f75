SPECIFICATION Spec
CONSTANTS
  OFP_VER_MAX = 2
  OFP_MSG_TYPE_MAX = 2
  atk_drop_action_table <- DropTable
  atk_dup_action_table <- DupTable
  StrayBytes = {0, 3, 100}
  OverlapCopies = {"intact", "garbled"}
  OFP_HEADER_BYTES = 2
  DEFAULT_STREAM_LEN = 3
  Wire <- AnyWire
  MaxChunk = 4
  Faults = {"realloc", "write"}
  ExitIsDeferred = TRUE
  MaxMsgs = 3
INVARIANTS
  TypeOK
  BufferBounded
  InStep
  NoCompleteLeft
  NothingPastMalformed
CHECK_DEADLOCK FALSE
