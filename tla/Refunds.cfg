\* Two overlapping processes, and a provider that may pay a refund it first
\* reported failed.
SPECIFICATION FairSpec
CONSTANTS
  k1 = k1
  k2 = k2
  Workers = {k1, k2}
  MaxRefundAttempts = 2
  MaxReferences = 3
  MaxFaults = 1
  Recants = TRUE
INVARIANTS
  RefundedMeansPaid
  PaidOnceUnlessDenied
  AlertsAreTrue
PROPERTIES
  SecondPayoutAlerted
  HeldIsResolved
CHECK_DEADLOCK FALSE
