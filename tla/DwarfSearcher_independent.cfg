CONSTANTS
  Infos <- MCInfos
  Pcs <- MCPcs
  LibMayFail = FALSE
  MaxDies = 4
SPECIFICATION Spec
INVARIANT LookupsIndependent
