SPECIFICATION Spec
CONSTANTS
  Tabs = {tab1, tab2}
  MaxTokens = 3
  MaxTasks = 2
INVARIANTS TypeOK ToldTheTruth
PROPERTIES LiveSessionKept MonotonicReads
SYMMETRY Symmetric
