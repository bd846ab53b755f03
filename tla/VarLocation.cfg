CONSTANTS
  W = 4
  ByteBits = 2
  Jobs <- MCJobs
  MaxCalls = 7
  MaxStack = 6
SPECIFICATION Spec
INVARIANTS TypeOK NestingBounded OperationsDefined
PROPERTIES ShufflesPermute EvaluationEnds
CHECK_DEADLOCK FALSE
