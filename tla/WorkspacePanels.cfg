SPECIFICATION PanelsSpec
CONSTANTS
  c1 = c1
  c2 = c2
  topic = topic
  origin = origin
  newer = newer
  None = None
  NoQuery = NoQuery
  Commit = {c1, c2}
  LocalRef = {topic}
  RemoteRef = {origin}
  Query = {NoQuery, newer}
  Ancestry <- MCAncestry
  Matching <- MCMatching
  Snapshot <- MCSnapshot
  MaxVersion = 2
  MaxCalls = 2
INVARIANTS
  PanelsTypeOK
  SelectionIsListed
  PanelsMirrorRepository
PROPERTY DetailGoesWithSelection
CHECK_DEADLOCK FALSE
