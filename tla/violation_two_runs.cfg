SPECIFICATION Spec
CONSTANTS
  c1 = c1
  r1 = r1
  r2 = r2
  Conversations = {c1}
  Runs = {r1, r2}
  Callers = {u1, u2}
  NoRun = NoRun
  ConvOf <- MCConvOf
  MaxAction = 1
  MaxEvents = 1
  Adversity = {"earlyResume", "storeFault"}
INVARIANTS
  ThreadHasOneWriter
SYMMETRY HandlerSymmetry
CHECK_DEADLOCK FALSE
