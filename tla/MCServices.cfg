SPECIFICATION MCSpec
CONSTANTS
  Coll <- MCColl
  Common <- MCCommon
  CommonEnabled = TRUE
  Who = {"acme", "admin", "anonymous", "stranger"}
  DocId = {"d", "e"}
  Ranked <- MCRanked
  QueryId = {1, 2}
  K = 2
  Outdated = Outdated
  NoQuery = NoQuery
  Unlogged = Unlogged
  NoReply = NoReply
  Budget = 2
  Doc <- MCDoc
  Chunk <- MCChunk
  DocOf <- MCDocOf
  RawKey <- MCRawKey
  Field <- MCField
  Atom <- MCAtom
  Safe <- MCSafe
  Numeric <- MCNumeric
  DocTags <- MCDocTags
  ChunkTags <- MCChunkTags
  Filterings <- MCFilterings
  Ranking <- MCRanking
  MaxWanted = 2
  Counter = {known, late}
  Known = {known}
  Handler = {h1, h2}
  Main = Main
  MaxCount = 2
  MaxText = 6
  MaxWindow = 4
  Name = {"a", "b", "row"}
  ColName <- MCColName
  Specs <- MCSpecs
  MaxCols = 2
  MaxRows = 3
INVARIANTS
  QueryIdResolves ReplayIsFaithful
  HitsAreCanonical TaggedIsFound
  CleanIsSaved
  PhrasesStayWhole NoCellIsLost
PROPERTIES
  RejectedIsContained TenantsAreApart
  RestartKeepsCounts
