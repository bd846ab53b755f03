CONSTANTS
  Tables <- TwoSequences
  Pcs <- MCPcs
  MaxRows = 4
  MaxAddr = 3
SPECIFICATION Spec
INVARIANTS
  SequenceRowFound
CHECK_DEADLOCK FALSE
