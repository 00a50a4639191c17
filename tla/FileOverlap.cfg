SPECIFICATION Spec
CONSTANTS
  empty = empty
  short = short
  exact = exact
  double = double
  long = long
  NoFile = NoFile
  Files <- MCFiles
  FileSize <- MCSizes
  ChunkSize = 2
  MaxSends = 2
PROPERTY ReportedWhole
CHECK_DEADLOCK FALSE
