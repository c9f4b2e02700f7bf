\* Three references: a funding and two more rows, so a chargeback pair, a
\* transfer after a funding, or a withdrawal of charged-back money all happen.
SPECIFICATION Spec
CONSTANTS
  NumWallets = 2
  NumReferences = 3
  Amounts = {1, 3}
  ChargeFees = {1}
  TransferFee = 1
  WithdrawalFee = 1
  PayoutFee = 1
  MaxRefundAttempts = 2
CONSTRAINT InOrder
INVARIANTS
  BalanceSheet
  StatusesExplainWallets
  SuspenseBacksHeldFundings
  DebtsAreChargebacks
  CacheMatchesEntries
CHECK_DEADLOCK FALSE
