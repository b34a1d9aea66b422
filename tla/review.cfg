SPECIFICATION FairSpec
CONSTANTS
  Papers = {1, 2}
  Sections = {1, 2}
  Candidates <- MCCandidates
  Comparative = {"broad"}
  SectionClaims = 2
  ReviewClaims = 2
  MaxClaims = 2
  MaxReflectionRounds = 3
  MaxWritingRounds = 1
  Adversity = {"fault", "lostReply", "cancel"}
INVARIANTS
  ReviewInv
  WrittenIsSupported
  StoredIsApproved
PROPERTIES
  SettledStays
  ReviewEnds
CHECK_DEADLOCK FALSE
