SPECIFICATION SiteSpec
CONSTANTS
  go = go
  sql = sql
  every = every
  topic = topic
  Terms <- MCTerms
  Kinds <- MCKinds
  All = every
  Blank = Blank
  None = None
  Limit = 2
  MaxFound = 4
  MaxPublications = 2
  MaxFetches = 2
  Emails = {ann, bob}
  NoOne = nobody
  Slots = {s1, s2}
INVARIANTS
  SettledOnQuery
  BestResultsKept
  PageIsOneRevision
  NotFoundIsTrue
  ShownIsSignedIn
PROPERTIES
  SearchEnds
  LastRevisionIsSeen
  RegisterOpensItsOwn
