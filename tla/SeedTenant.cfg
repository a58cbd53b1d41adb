SPECIFICATION Spec
CONSTANTS
  older = older
  current = current
  Shells = {shell1, shell2}
  Scripts = {older, current}
  TenantOf <- NotDefault
  PermsOf <- Perms
  Permissions = {"po", "masterdata"}
  Required = "masterdata"
  Checks = {c1}
  MaxId = 5
  MaxReverts = 2
INVARIANT DemoAccountsWork
CHECK_DEADLOCK FALSE
