SPECIFICATION FilterSpec
CONSTANTS
  Doc <- MCDoc
  Chunk <- MCChunk
  DocOf <- MCDocOf
  RawKey <- MCRawKey
  Field <- MCField
  Atom <- MCAtom
  Safe <- MCSafe
  Numeric <- MCNumeric
  DocTags <- MCDocTags
  ChunkTags <- MCChunkTags
  Filterings <- MCFilterings
  Ranking <- MCRanking
  MaxWanted = 2
INVARIANTS
  PushdownOnlyOptimizes
