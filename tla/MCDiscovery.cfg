SPECIFICATION MCSpec
CONSTANTS
  Id = {"a", "A"}
  Key = {"a"}
  Fold <- MCFold
  Answers <- MCAnswers
  MaxFolders = 3

  TableId = {"a", "A", "b"}
  TableFold <- MCTableFold
  WebPath = {"p", "q"}
  NoPath = "none"
  FlatAnswers <- MCFlatAnswers
  WebAnswers <- MCWebAnswers

  Databases <- MCDatabases
  DatabaseId = {"a", "b"}
  Place = {0, 1}
  Stamp = {1}
  NoStamp = NoStamp
  DatabaseListings <- MCDatabaseListings

  Table <- MCTable
  Unusable = {2}
  PageSize = 2
  PageListings <- MCPageListings
  MaxChanges = 3
  MaxPage = 9
CHECK_DEADLOCK FALSE
INVARIANTS
  ListingIsExact
  CapIsExact
  WebListIsSound
  CompleteHasAll
  CodeIsOneTable
  FaultsAreExplained
PROPERTY
  DiscoveryEnds
