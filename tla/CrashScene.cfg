CONSTANTS
  Jobs <- MCJobs
  Scenes <- MCScenes
  Incidents <- MCIncidents
  RowBytes <- MCRowBytes
  Huge = 999
  MaxSize = 1023
  Unset <- MCUnset
SPECIFICATION SceneSpec
INVARIANTS SceneTypeOK HandlesLive SingleOwner ReportLeaks VariablesOfWalk OnlyKnownUndefined
  NamePrinted ReadsOwnStorage ParsedAsPrinted InStepUntilCut PrefixIntact ValuesFromText
PROPERTIES ReportEnds
CHECK_DEADLOCK FALSE
