SPECIFICATION ListsSpec
CONSTANTS
  Statuses = {draft, published}
  AllStatuses = all
  PageSize = 1
  MaxItems = 3
  MaxRetries = 1
  N = 7
  Concurrency = 3
  RevisionPage = 2
  MaxRevisions = 5
INVARIANTS
  RowsMatchFilter
  GapsHaveReason
  FulfilledIsComplete
  HistoryHasNoGaps
PROPERTIES
  ListSettles
  Settles
CHECK_DEADLOCK FALSE
