SPECIFICATION FairSpec
CONSTANTS
  Edits = {}
  InvalidEdits = {}
  None = None
  DEFAULT_PAGE_SIZE = 2
  MaxRevisions = 3
INVARIANTS
  OneOperation
  ConfirmedIsPreviewed
  OutcomeIsTrue
  OutcomeIsShown
PROPERTIES
  WorkflowRecovers
