SPECIFICATION Spec
CONSTANTS
  Users = {1, 2, 3}
  Workers = {w1, w2}
  Parties <- MCParties
  MaxFollowing = 1
  FirstFollows <- MCFirstFollows
  Scenarios <- MCScenarios
  MaxAttempts = 2
  MaxStalledCount = 1
  MaxFaults = 2
INVARIANTS BlockEndsTies ResentOnlyAfterFault
PROPERTIES ContactNeedsNoBlock EveryRequestEnds EventsSettle
CHECK_DEADLOCK FALSE
