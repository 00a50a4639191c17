SPECIFICATION FairSpec
CONSTANTS
  s1 = s1
  s2 = s2
  s3 = s3
  s4 = s4
  NoSession = NoSession
  Sessions <- MCThreeSessions
  MaxSessions = 1
  MaxBacklog = 1
PROPERTY FreePlaceIsTaken
CHECK_DEADLOCK FALSE
