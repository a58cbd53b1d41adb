SPECIFICATION FairSpec
CONSTANTS
  Instances = {app1, app2}
  Requests = {r1}
  Junk = {}
  MaxSends = 1
  DeliveryLimit = 1
  FreshBroker = FALSE
  Budgets <- Pairs
PROPERTIES RequestAnswered ShutdownCompletes EventuallyHandled
CHECK_DEADLOCK FALSE
