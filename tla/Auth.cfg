CONSTANTS
  NumUsers = 2
  Workers = {w1, w2}
  Callers = {1}
  OpSets <- MCOpSets
  Addresses = {2, 11}
  BankNumbers = {1}
  CodeValues = {1}
  MaxFailedLogins = 2
  MaxChallengeAttempts = 2
  MaxFailedPins = 2
  MaxSends = 2
  Cooldown = 1
  Window = 3
  Lockout = 1
  Lifetime = 2
  MaxCalls = 3
  MaxTime = 2
SPECIFICATION Spec
SYMMETRY WorkerSymmetry
CONSTRAINT Relevant
INVARIANTS SessionsEarned ChangesProven
PROPERTIES RevivedOnlyWhenOvertaken UnprovenOnlyWhenOvertaken
CHECK_DEADLOCK FALSE
