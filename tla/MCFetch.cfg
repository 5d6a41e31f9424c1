SPECIFICATION MCSpec
CONSTANTS
  Task = {t1, t2}
  Cache = {"kpis", "places"}
  Plans <- MCPlans
  Listings <- MCListings
  Url = {"k", "g", "m"}
  Links = {"k", "m"}
  NoTask = NoTask
  NoUrl = NoUrl
  Nothing = Nothing

  Catalogues <- MCCatalogues
  Riket = "0000"
  Units = {"u"}
  First = 1
  FirstChange = 3
  Last = 5
  Limit = 2
  Worlds <- MCWorlds

  V1Payloads <- MCV1
  V2Payloads <- MCV2

  Tables <- MCTables
  Limits = {1, 2, 3, 4, 8}
  Samples <- MCSamples

  Requests <- MCRequests
  Tries = 3
  Rounds = 3
CHECK_DEADLOCK FALSE
INVARIANTS
  OneContent
  CacheIsComplete
  ProbeIsExact
  DocumentsAreFaithful
  V1RefusedForBlanks
  SampleIsSound
  SavedFromOneRound
  EarlyFailureIsFinal
PROPERTY
  FetchEnds
