SPECIFICATION Spec
CONSTANTS
  Instances = {app1, app2}
  Requests = {r1}
  Junk = {}
  MaxSends = 2
  DeliveryLimit = 1
  FreshBroker = FALSE
  Budgets <- Drop
INVARIANT SideEffectOnce
CHECK_DEADLOCK FALSE
