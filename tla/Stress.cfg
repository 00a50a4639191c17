SPECIFICATION FairSpec
CONSTANTS
  Counts <- MCCounts
  MaxRequests = 3
INVARIANTS TurnInv LostIsNatural ResultExact NoDivisionByZero TimerQuiet
PROPERTY TestEnds
CHECK_DEADLOCK FALSE
