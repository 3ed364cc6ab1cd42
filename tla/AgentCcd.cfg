CONSTANTS
  a1 = a1
  s1 = s1
  d1 = d1
  l1 = l1
  Accounts <- MCAccounts
  Services <- MCServices
  Departments <- MCDepartments
  Links <- MCLinks
  LinkOf <- MCLinkOf
  AccountRows <- MCAccountRows
  ServiceRows <- MCServiceRows
  DepartmentRows <- MCDepartmentRows
  InitialRows <- MCInitialRows
  NotYet = NotYet
  Deleted = Deleted
  Lag = 1
  CommitDelay = 1
  LastChange = 2
  MaxClock = 4
  MaxChanges = 2
  MaxFailures = 0
SPECIFICATION Spec
PROPERTY CcdFollowsRules
