SPECIFICATION FairSpec
CONSTANTS
  c1 = c1
  c2 = c2
  topic = topic
  origin = origin
  None = None
  NoQuery = NoQuery
  Commit = {c1, c2}
  LocalRef = {topic}
  RemoteRef = {origin}
  Query = {NoQuery}
  Ancestry <- MCAncestry
  Snapshot <- MCSnapshot
  MaxVersion = 2
  MaxCalls = 1
INVARIANTS
  TypeOK
  DetailIsOfSelection
  HistoryIsOfFilter
  LoadingHasReader
  AnswersLatestRequest
  ReadsServeCurrentState
PROPERTIES
  DetailSurvivesReload
  EveryLoadEnds
CHECK_DEADLOCK FALSE
