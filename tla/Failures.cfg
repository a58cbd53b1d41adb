SPECIFICATION Spec
CONSTANTS
  Instances = {app1, app2}
  Requests = {r1}
  Junk = {j1}
  MaxSends = 2
  DeliveryLimit = 1
  FreshBroker = FALSE
  Budgets <- ThreeOrTwo
INVARIANTS TypeOK NoSilentLoss NoPhantomEvent NoStuckMessage NoEarlyDeadLetter RepeatNeedsRedelivery
PROPERTY ImplementsLedger
SYMMETRY Symmetric
CHECK_DEADLOCK FALSE
