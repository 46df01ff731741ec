SPECIFICATION WatchedSpec
CONSTANTS
  c1 = c1
  c2 = c2
  topic = topic
  head = head
  refs = refs
  None = None
  NoQuery = NoQuery
  Commit = {c1}
  LocalRef = {topic}
  RemoteRef = {}
  Query = {NoQuery}
  Ancestry <- MCAncestry
  Snapshot <- MCSnapshot
  MaxVersion = 2
  MaxCalls = 0
  Child = {head, refs}
  Directory = {refs}
  Excluded = {}
  Present = {head, refs}
  RootOf <- LinkedRootOf
  NameOf <- MCNameOf
  MaxTouches = 1
INVARIANT FreshAfterCoveredChange
CHECK_DEADLOCK FALSE
