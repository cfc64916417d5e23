\* The three functions in any order, in a small descriptor table.
SPECIFICATION RequestsSpec
CONSTANTS
  Lines <- MCLines
  MaxFd = 3
INVARIANTS
  SocketsAccounted
  BlockFillsData
  CarriesWhatWasRead
