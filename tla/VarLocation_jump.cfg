CONSTANTS
  W = 4
  ByteBits = 2
  Jobs <- MCJobs
  MaxCalls = 7
  MaxStack = 6
SPECIFICATION Spec
PROPERTY JumpLandsOnTarget
CHECK_DEADLOCK FALSE
