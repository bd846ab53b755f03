CONSTANTS
  Files <- MCFiles
  Requests <- MCRequests
  MaxItems = 3
  AddrSpace = 8
SPECIFICATION Spec
INVARIANT ContextsAreRead
CHECK_DEADLOCK FALSE
