SPECIFICATION FairSpec
CONSTANTS
  s1 = s1
  s2 = s2
  s3 = s3
  s4 = s4
  NoSession = NoSession
  Sessions <- MCSessions
  MaxSessions = 2
  MaxBacklog = 1
INVARIANTS CountMatches NeverRefused MembersAreLive ServiceInv
PROPERTIES PlaceReturned AcceptsWhileFree
CHECK_DEADLOCK FALSE
