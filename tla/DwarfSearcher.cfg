CONSTANTS
  Infos <- MCInfos
  Pcs <- MCPcs
  LibMayFail = TRUE
  MaxDies = 4
SPECIFICATION Spec
INVARIANTS
  TypeOK
  HandlesLive
  OnlySiblingsLeak
  AnswerSound
  InLevelCoversDepth
PROPERTIES
  ImplementsLookup
  LookupEnds
