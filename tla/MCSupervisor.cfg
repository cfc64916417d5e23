CONSTANTS
  Stations = {}  McAddr = mc  StrayFrames <- MCStray  QueueCap = 1  NoFrame = none
  MaxRequests = 1  Ports = {p1}  NoSocket = nosock  Unbound = unbound
  MaxFd = 2  BaseFds = 0
SPECIFICATION FairSpec
INVARIANTS LeakBudget RequestsInCallback
PROPERTIES NoReplyWhenExhausted ImplementsParts LossIsNoticed ExhaustionEnds
CHECK_DEADLOCK FALSE
