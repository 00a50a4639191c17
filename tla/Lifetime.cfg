SPECIFICATION FairSpec
CONSTANTS
  i1 = i1
  i2 = i2
  i3 = i3
  IoThreads <- MCThreads
  MaxDetached = 2
INVARIANTS LifetimeInv DestroyedDisconnected ReadHandlerOwned OnlyDetachedLate
PROPERTIES Reclaimed QuitEnds
CHECK_DEADLOCK FALSE
