SPECIFICATION FairSpec
CONSTANTS
  Papers = {1, 2}
  Requests = {q1, q2}
  NoRequest = NoRequest
  ClaimLimit = 1
  ParseLimit = 1
  Adversity = {"serviceFault", "parseFault", "indexFault", "lease", "cancel", "publication", "shutdown", "crash"}
INVARIANTS
  RagInv
  ReportsAreTrue
  EndedRunHoldsNothing
  SuccessIsConfirmed
PROPERTIES
  ProgressNeverFalls
  RequestsAndRunsEnd
CHECK_DEADLOCK FALSE
