CONSTANTS
  c1 = c1
  c2 = c2
  c3 = c3
  ip1 = ip1
  ip2 = ip2
  ip3 = ip3
  Client = {c1, c2, c3}
  Key = {ip1, ip2, ip3}
  AddressOf <- MCAddressOf
  MaxTracked = 1
  EntryTtl = 2
  Burst = 2
  Workers = 2
  Slots = 1
  Floor = 1
SPECIFICATION FairSpec
INVARIANTS
  SlotsAccounted
  FloorSinceBody
  TableNearBound
PROPERTIES
  ImplementsAllowance
  GateAnswers
