CONSTANTS
  NumUsers = 3
  NumReferences = 2
  Workers = {w1, w2}
  Requests <- MCRequests
  ChargeFee = 1
  Hash <- MCHash
  PairHash <- MCPairHash
  MaxKey = 4
  Cap <- MCCap
  DailyLimit <- MCDailyLimit
  StartBalance <- MCStartBalance
  MaxRequests = 2
  MaxDay = 2
  MaxCrashes = 1
SPECIFICATION Spec
INVARIANTS BalanceCapHeld HeldOnlyIfDisturbed DailyLimitHeld CyclesNeedCollision
PROPERTY PaidIsCreditedOrHeld
CHECK_DEADLOCK FALSE
