SPECIFICATION PanelsSpec
CONSTANTS
  c1 = c1
  c2 = c2
  topic = topic
  origin = origin
  newer = newer
  None = None
  NoQuery = NoQuery
  Commit = {c1, c2}
  LocalRef = {topic}
  RemoteRef = {origin}
  Query = {NoQuery, newer}
  Ancestry <- MCAncestry
  Matching <- MCMatching
  Snapshot <- MCSnapshot
  MaxVersion = 1
  MaxCalls = 1
INVARIANT BadgesFollowReferences
CHECK_DEADLOCK FALSE
