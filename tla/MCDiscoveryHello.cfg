CONSTANTS
  Stations = {s1}
  McAddr = mc
  StrayFrames <- MCStrayFew
  MaxFd = 3
  QueueCap = 2
  NoFrame = NoFrame
SPECIFICATION FairSpec
PROPERTY HelloAddsDevice
