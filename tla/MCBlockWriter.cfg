\* The writer in small buffers, some of odd size.
SPECIFICATION FairSpec
CONSTANTS
  Rooms <- SmallRooms
  Starts <- SmallStarts
  Blocks <- SmallBlocks
  MaxBlocks = 3
INVARIANTS
  WithinRoom
  ReadsBack
  InOnePiece
PROPERTIES
  CallReturns
