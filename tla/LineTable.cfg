CONSTANTS
  Tables <- MCTables
  Pcs <- MCPcs
  MaxRows = 4
  MaxAddr = 3
SPECIFICATION Spec
INVARIANTS
  TypeOK
  NearestRow
  StopsAtFirstAbove
  UndefinedWithoutFirstRow
  PrevAllocated
  OneStringLeaks
PROPERTIES
  ScanEnds
\* The call returns.
CHECK_DEADLOCK FALSE
