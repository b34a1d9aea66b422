SPECIFICATION Spec
CONSTANTS
  Nodes = {n1}
  Subscribers = {s1}
  MaxSegment = 1
  MaxEvents = 1
  PageLimit = 2
  Adversity = {"earlyResume"}
INVARIANTS
  EndsAtTerminalEvent
CHECK_DEADLOCK FALSE
