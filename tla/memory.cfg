CONSTANTS
  c1 = c1
  c2 = c2
  k1 = k1
  k2 = k2
  j1 = j1
  j2 = j2
  None = None
  Conversations <- MCConversations
  Keys = {k1, k2}
  Jobs = {j1, j2}
  Threshold = 2
  MaxTurns <- MCMaxTurns
  MaxFacts = 2
  MaxCalls = 2
SPECIFICATION Spec
INVARIANT MemoryInv
 
CHECK_DEADLOCK FALSE
SYMMETRY MCSymmetry
