CONSTANTS
  c1 = c1
  c2 = c2
  Chains <- MCChains
  Accepts <- MCAccepts
  Printed <- MCPrinted
  Wantable <- MCWantable
  NoChain = NoChain
  MaxChanges = 1
  MaxFailures = 1
SPECIFICATION Spec
INVARIANTS
  TypeOK
  FailClosed
  AcceptsReachable
  NoRuleTwice
  SettledChains
PROPERTIES
  GrantsUninterrupted
  JumpOnlyWhenFilled
  ClosedStaysClosed
  Converges
CHECK_DEADLOCK FALSE
