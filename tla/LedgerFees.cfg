\* One wallet, funded and withdrawing, with a provider fee on the payout.
SPECIFICATION Spec
CONSTANTS
  NumWallets = 1
  NumReferences = 2
  Amounts = {1, 3}
  ChargeFees = {1}
  TransferFee = 1
  WithdrawalFee = 1
  PayoutFee = 1
  MaxRefundAttempts = 2
CONSTRAINT InOrder
INVARIANT
  FeesRecovered
CHECK_DEADLOCK FALSE
