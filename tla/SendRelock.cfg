SPECIFICATION FairSpec
CONSTANTS
  t1 = t1
  t2 = t2
  t3 = t3
  b1 = b1
  b2 = b2
  b3 = b3
  NoThread = NoThread
  Threads <- MCTwoThreads
  Buffers <- MCBuffers
  Size <- MCSize
  MaxIov = 3
  ShortWrites = FALSE
PROPERTY QueueServed
CHECK_DEADLOCK FALSE
