SPECIFICATION FairWatchedSpec
CONSTANTS
  c1 = c1
  c2 = c2
  topic = topic
  head = head
  refs = refs
  None = None
  NoQuery = NoQuery
  Commit = {c1}
  LocalRef = {topic}
  RemoteRef = {}
  Query = {NoQuery}
  Ancestry <- MCAncestry
  Snapshot <- MCSnapshot
  MaxVersion = 3
  MaxCalls = 0
  Child = {refs}
  Directory = {refs}
  Excluded = {}
  Present = {refs}
  RootOf <- MCRootOf
  NameOf <- MCNameOf
  MaxTouches = 2
INVARIANT FreshAfterCoveredChange
PROPERTY WindowSettles
CHECK_DEADLOCK FALSE
