CONSTANTS
  Jobs <- MCJobs
  Scenes <- MCScenes
  Incidents <- MCIncidents
  RowBytes <- MCRowBytes
  Huge = 999
  MaxSize = 1023
  Unset <- MCUnset
SPECIFICATION SceneSpec
INVARIANTS OnlyOwnVariables
CHECK_DEADLOCK FALSE
