CONSTANTS
  c1 = c1
  c2 = c2
  Chains <- MCChains
  Accepts <- MCAccepts
  Printed <- MCPrinted
  Wantable <- MCWantable
  NoChain = NoChain
  MaxChanges = 1
  MaxFailures = 1
SPECIFICATION Spec
INVARIANT RevokedIsGone
CHECK_DEADLOCK FALSE
