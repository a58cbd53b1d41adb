SPECIFICATION Spec
CONSTANTS
  Instances = {app1, app2}
  Requests = {r1}
  Junk = {}
  MaxSends = 2
  DeliveryLimit = 1
  FreshBroker = TRUE
  Budgets <- None
INVARIANT NoSilentLoss
CHECK_DEADLOCK FALSE
