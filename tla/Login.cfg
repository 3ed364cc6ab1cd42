CONSTANTS
  Accounts = {a}
  Devices = {d1, d2}
  Logins = {l}
  Commands = {c}
  MaxPin = 2
  MaxSecret = 2
  Windows = 2
SYMMETRY Symmetric
SPECIFICATION Spec
INVARIANTS
  TypeOK
  CachedLoginIsCurrent
PROPERTIES
  LoginVerdictIsRight
  HandedCredentialsWork
