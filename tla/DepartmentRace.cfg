CONSTANTS
  d1 = d1
  d2 = d2
  d3 = d3
  k1 = k1
  k2 = k2
  Departments <- MCDepartments
  NoDepartment = null
  Tags = {t}
  Accounts = {a}
  Commands <- MCCommands
  MaxCommits = 2
SYMMETRY Symmetric
SPECIFICATION MCSpec
PROPERTIES
  MovesKeepForest
