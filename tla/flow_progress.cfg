SPECIFICATION FairSpec
CONSTANTS
  OFP_VER_MAX = 2
  OFP_MSG_TYPE_MAX = 2
  atk_drop_action_table <- DropTable
  atk_dup_action_table <- DupTable
  StrayBytes = {0, 3, 100}
  OverlapCopies = {"intact"}
  OFP_HEADER_BYTES = 2
  DEFAULT_STREAM_LEN = 3
  Wire <- GoodWire
  MaxChunk = 4
  Faults = {}
  ExitIsDeferred = TRUE
  MaxMsgs = 3
INVARIANTS
  NothingLostAtEof
  CapBounded
PROPERTIES
  RelaySpec
  EventuallyRelayed
  EventuallyEnds
CHECK_DEADLOCK FALSE
