SPECIFICATION FairSpec
CONSTANTS
  Tabs = {tab1, tab2}
  Articles = {a1}
  Paths = {go}
  None = None
  MaxEvents = 3
INVARIANTS
  InStep
PROPERTIES
  LossHasReason
  TabsConverge
