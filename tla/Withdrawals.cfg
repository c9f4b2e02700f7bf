\* Two references, and three requests so that one reference is retried twice
\* while the other is under way, under the poll's fairness.
SPECIFICATION FairSpec
CONSTANTS
  References = {r1, r2}
  Requests = {q1, q2, q3}
  Idle = Idle
  MaxCrashes = 1
INVARIANTS
  PaidOutOnce
  AnswersAreTrue
  OneTrueNotice
PROPERTIES
  KeepsPromise
  ReceivedIsDecided
CHECK_DEADLOCK FALSE
