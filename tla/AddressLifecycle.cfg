CONSTANTS
  a1 = a1
  a2 = a2
  a3 = a3
  n1 = n1
  n2 = n2
  p1 = p1
  p2 = p2
  Accounts <- MCAccounts
  Networks <- MCNetworks
  NetworkOf <- MCNetworkOf
  Commands <- MCCommands
  MaxOffset = 3
  SubnetLists <- MCSubnetLists
SYMMETRY Symmetric
SPECIFICATION Spec
INVARIANTS
  TypeOK
  OpenSpanHasOwner
  NeverReallocated
  ActiveHasOffset
  OffsetOnlyOwn
  AddressesDistinct
  PoolsNumbered
