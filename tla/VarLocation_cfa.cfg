CONSTANTS
  W = 4
  ByteBits = 2
  Jobs <- MCJobs
  MaxCalls = 7
  MaxStack = 6
SPECIFICATION Spec
INVARIANT CfaIsThatOfPc
CHECK_DEADLOCK FALSE
