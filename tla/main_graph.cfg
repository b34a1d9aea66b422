SPECIFICATION FairSpec
CONSTANTS
  Tools = {search, note}
  Subagents = {review}
  Unknown = {}
  Guarded = {note}
  MaxCalls = 3
  MaxBatch = 2
  MaxRuns = 2
  RecursionLimit = 14
INVARIANTS
  MainGraphInv
  NothingRunsUnapproved
  ResultsAreTrue
  OpenCallsAreOfFailedRuns
  HistoryIsTrue
PROPERTIES
  RunsEnd
CHECK_DEADLOCK FALSE
