SPECIFICATION FairSpec
CONSTANTS
  None = None
  YearFrom = 1
  YearTo = 5
  Sources <- MCSources
  PageSize = 1
  FirstPages = 2
  MaxExtraPages = 1
  MaxRounds = 2
  Target = 2
  NamedTasks = {"none", "SEARCH_FAILED"}
  Known <- MCKnown
  Dois = {"d1"}
  Adversity = {"sourceFault", "nodeFault", "serviceFault", "lostReply", "cleanupFault", "cancel"}
INVARIANTS
  SearchInv
  
  AnswerMatchesTask
  FilesAreRemoved
PROPERTIES
  SearchEnds
CHECK_DEADLOCK FALSE
