SPECIFICATION Spec
CONSTANTS
  Instances = {app1, app2}
  Requests = {r1}
  Junk = {}
  MaxSends = 1
  DeliveryLimit = 3
  FreshBroker = FALSE
  Budgets <- DbOutage
INVARIANT DeadLetteredInTime
CHECK_DEADLOCK FALSE
