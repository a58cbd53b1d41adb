SPECIFICATION Spec
CONSTANTS
  Instances = {app1, app2}
  Requests = {r1, r2}
  Junk = {}
  MaxSends = 2
  DeliveryLimit = 1
  FreshBroker = FALSE
  Budgets <- BrokerOutage
INVARIANT CommittedWriteAnswered
CHECK_DEADLOCK FALSE
