SPECIFICATION FairSpec
CONSTANTS
  Nodes = {n1}
  Subscribers = {s1}
  MaxSegment = 1
  MaxEvents = 1
  PageLimit = 2
  Adversity = {"storeFault", "disconnect"}
INVARIANTS
  DeliveredInOrder
  EndsAtTerminalEvent
  NoLostWakeup
  LogIsTrue
PROPERTIES
  SubscriptionEnds
CHECK_DEADLOCK FALSE
