SPECIFICATION ListSpec
CONSTANTS
  Lines <- RuleLines
  Header <- Head8
  Rows <- WrittenRows
  Fresh = {",", "?"}
  MemSize = 40
  MaxRows = 3
INVARIANTS
  TypeOK
  LastRuleWins
  AsWritten
  
PROPERTIES
  DupIsForGood
CHECK_DEADLOCK FALSE
