SPECIFICATION Spec
CONSTANTS
  Tabs = {tab1, tab2}
  MaxTokens = 2
  MaxTasks = 2
INVARIANT ServerOnlyFetch
