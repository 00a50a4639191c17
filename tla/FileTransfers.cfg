SPECIFICATION FairSpec
CONSTANTS
  empty = empty
  short = short
  exact = exact
  double = double
  long = long
  NoFile = NoFile
  Files <- MCFiles
  FileSize <- MCSizes
  ChunkSize = 2
  MaxSends = 2
INVARIANTS DeliveryInv ChunksInOrder NotifiedOnce FirstFileIntact
PROPERTIES DeliverySpec FileArrives
CHECK_DEADLOCK FALSE
