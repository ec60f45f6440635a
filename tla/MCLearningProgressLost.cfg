SPECIFICATION Spec
CONSTANTS
  Tabs = {tab1, tab2}
  Articles = {a1, a2}
  Paths = {go}
  None = None
  MaxEvents = 2
PROPERTIES
  CompletionKept
