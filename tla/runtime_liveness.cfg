SPECIFICATION FairSpec
CONSTANTS
  c1 = c1
  r1 = r1
  r2 = r2
  Conversations = {c1}
  Runs = {r1}
  Callers = {u1, u2}
  NoRun = NoRun
  ConvOf <- MCConvOf
  MaxAction = 1
  MaxEvents = 2
  Adversity = {"deleteRace", "lateWrite", "shutdown"}
INVARIANTS
  
  GoneStaysGone

  
  
CHECK_DEADLOCK FALSE
