SPECIFICATION Spec
CONSTANTS
  t1 = t1
  t2 = t2
  b1 = b1
  b2 = b2
  b3 = b3
  NoBlock = NoBlock
  Threads <- MCThreads
  Blocks <- MCBlocks
  Pools <- MCPools
  Asked <- MCAsked
SYMMETRY Symmetry
INVARIANT MemoryInv
PROPERTY AllocatorSpec
CHECK_DEADLOCK FALSE
