CONSTANTS
  Files <- MCFiles
  Requests <- MCRequests
  MaxItems = 3
  AddrSpace = 8
SPECIFICATION Spec
INVARIANTS
  TypeOK
  ContextsOwned
  OnlyShadowedLeak
  CrashContextIsExceptions
  HealthyListsWhole
  CompleteFileLoads
  MemoryAnswer
  RegisterOfThread
\* The process ends, by the null pointer or after the destructor.
CHECK_DEADLOCK FALSE
