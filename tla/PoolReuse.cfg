SPECIFICATION Spec
CONSTANTS
  t1 = t1
  t2 = t2
  c1 = c1
  c2 = c2
  c3 = c3
  c4 = c4
  c5 = c5
  NoChunk = NoChunk
  Threads <- MCThreads
  Chunks <- MCChunks
  Sizes <- MCSizes
  ChunkSize = 3
  MaxLive = 3
SYMMETRY Symmetry
INVARIANTS LiveDisjoint ChunkNotShared PoolInv
