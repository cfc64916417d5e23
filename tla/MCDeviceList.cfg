\* The pool, from its first address to its end.
SPECIFICATION Spec
CONSTANTS
  Macs = {MacA, MacB}
  Leftovers <- MCLeftovers
  MaxDevices = 2
INVARIANTS
  DistinctAddresses
  LookUpByMac
  LookUpByIp
