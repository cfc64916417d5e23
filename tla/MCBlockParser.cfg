CONSTANTS
  MCMaxBlocks = 4
  Payloads <- MCPayloads
  Strays <- MCStrays
SPECIFICATION Spec
INVARIANTS TypeOK ReportedInOrder StaysInside AddressTaken
CHECK_DEADLOCK FALSE
