CONSTANTS
  Users = {"u1", "u2"}
  Editors = {"u1"}
  Numbers = {"b1", "b2", "n1", "n2"}
  TypeOf <- MCTypeOf
  Registry <- MCRegistry
  NotFound = NotFound
  Unknown = Unknown
  Initials = {"a", "e", "i", "o"}
  InitialOf <- MCInitialOf
  MaxCalls = 2
  EarlierMisses <- MCEarlierMisses
  MaxFailedAttempts = 2
  MaxPollFailures = 1
  MaxCrashes = 1
SPECIFICATION KycSpec
CONSTRAINT FirstCallByU1
INVARIANTS RecordsAgree MissesBounded TierEarned
PROPERTIES IdentityNeverReplaced PendingJobEnds
CHECK_DEADLOCK FALSE
