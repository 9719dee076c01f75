SPECIFICATION ListSpec
CONSTANTS
  Lines <- QuotedLines
  Header <- Head8
  Rows <- WrittenRows
  Fresh = {"?"}
  MemSize = 40
  MaxRows = 2
INVARIANTS
  CountsThisRow
CHECK_DEADLOCK FALSE
