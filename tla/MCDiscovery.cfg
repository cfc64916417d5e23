CONSTANTS
  Stations = {s1, s2}
  McAddr = mc
  StrayFrames <- MCStray
  MaxFd = 3
  QueueCap = 2
  NoFrame = NoFrame
SPECIFICATION FairSpec
INVARIANTS TableWithinArray ReceiverReturnsSocket RequestBudget
PROPERTIES AnswerReported ReceiverListens
