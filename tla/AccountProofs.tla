--------------------------- MODULE AccountProofs ----------------------------
(***************************************************************************)
(* What an account rests on, for every value of the constants: the books   *)
(* of the ledger, then the KYC record of the account's holder.             *)
(***************************************************************************)
EXTENDS Ledger, KycVerification, SumTheorems, SequenceTheorems, FiniteSetTheorems

(***************************************************************************)
(* Theorems about Ledger, for any number of wallets and references, any    *)
(* amounts and any fees: first the typing, the balance of the journal and  *)
(* the signs of balances, then what the books say (suspense, the statuses  *)
(* of transactions, and the entries behind the cached balances).           *)
(***************************************************************************)

-----------------------------------------------------------------------------
(* Posting *)

LegType == [direction : {"debit", "credit"}, amount : Nat, change : Int]

\* Post with well-typed legs keeps the cache and the entries well typed.
LEMMA PostTyped ==
  ASSUME balance \in [Accounts -> Int], entries \in [Accounts -> Seq(Entry)],
         NEW t \in TransactionKey, NEW legs,
         \A a \in DOMAIN legs : legs[a] \in LegType,
         Post(t, legs)
  PROVE  /\ balance' \in [Accounts -> Int]
         /\ entries' \in [Accounts -> Seq(Entry)]
<1>1. \A a \in DOMAIN legs : /\ legs[a].change \in Int
                             /\ legs[a].amount \in Nat
                             /\ legs[a].direction \in {"debit", "credit"}
  BY DEF LegType
<1>2. balance' \in [Accounts -> Int]
  BY <1>1 DEF Post
<1>3. ASSUME NEW a \in Accounts
      PROVE  entries'[a] \in Seq(Entry)
  <2>1. CASE a \notin DOMAIN legs
    BY <2>1 DEF Post
  <2>2. CASE a \in DOMAIN legs
    <3> DEFINE e == [transaction    |-> t,
                     direction      |-> legs[a].direction,
                     amount         |-> legs[a].amount,
                     runningBalance |-> balance[a] + legs[a].change]
    <3>0. balance[a] + legs[a].change \in Int
      BY <1>1, <2>2
    <3>1. e \in Entry
      BY <1>1, <2>2, <3>0 DEF Entry
    <3>2. entries'[a] = Append(entries[a], e)
      BY <2>2 DEF Post
    <3> HIDE DEF e
    <3> QED BY <3>1, <3>2
  <2> QED BY <2>1, <2>2
<1>4. entries' = [a \in Accounts |-> entries'[a]]
  BY DEF Post
<1> QED BY <1>2, <1>3, <1>4

\* The legs of a funding, credited or held, are well typed.
LEMMA FundingLegsTyped ==
  ASSUME NEW w, NEW facts \in Facts
  PROVE  \A a \in DOMAIN FundingLegs(w, facts) : FundingLegs(w, facts)[a] \in LegType
BY LedgerAssumption DEF FundingLegs, Leg, LegType, Facts

\* The legs of a settled refund are well typed.
LEMMA RefundLegsTyped ==
  ASSUME NEW amount \in Nat
  PROVE  \A a \in DOMAIN RefundLegs(amount) : RefundLegs(amount)[a] \in LegType
BY DEF RefundLegs, Leg, LegType

\* The legs of a transfer are well typed.
LEMMA TransferLegsTyped ==
  ASSUME NEW s, NEW t, NEW amount \in Nat
  PROVE  \A a \in DOMAIN TransferLegs(s, t, amount) : TransferLegs(s, t, amount)[a] \in LegType
BY LedgerAssumption DEF TransferLegs, Leg, LegType

\* The legs of a withdrawal are well typed.
LEMMA WithdrawalLegsTyped ==
  ASSUME NEW w, NEW amount \in Nat
  PROVE  \A a \in DOMAIN WithdrawalLegs(w, amount) : WithdrawalLegs(w, amount)[a] \in LegType
BY LedgerAssumption DEF WithdrawalLegs, Leg, LegType, WalletDebit, FloatCredit

\* The legs of a reversed withdrawal are well typed.
LEMMA ReversalLegsTyped ==
  ASSUME NEW w, NEW amount \in Nat
  PROVE  \A a \in DOMAIN ReversalLegs(w, amount) : ReversalLegs(w, amount)[a] \in LegType
BY LedgerAssumption DEF ReversalLegs, Leg, LegType, WalletDebit, FloatCredit

\* The legs of a chargeback are well typed.
LEMMA ChargebackLegsTyped ==
  ASSUME NEW w, NEW amount \in Nat
  PROVE  \A a \in DOMAIN ChargebackLegs(w, amount) : ChargebackLegs(w, amount)[a] \in LegType
BY DEF ChargebackLegs, Leg, LegType

\* The legs of a dispute resolved in Cliqpay's favour are well typed.
LEMMA ResolutionLegsTyped ==
  ASSUME NEW w, NEW amount \in Nat
  PROVE  \A a \in DOMAIN ResolutionLegs(w, amount) : ResolutionLegs(w, amount)[a] \in LegType
BY DEF ResolutionLegs, Leg, LegType

-----------------------------------------------------------------------------
(* Type correctness *)

\* Writing a status keeps the transactions table well typed.
LEMMA StatusTyped ==
  ASSUME NEW table \in [References -> Row], NEW r, NEW st \in TransactionStatus
  PROVE  [table EXCEPT ![r].status = st] \in [References -> Row]
BY DEF Row

\* So does writing what became of the checkout page.
LEMMA CheckoutTyped ==
  ASSUME NEW table \in [References -> Row], NEW r, NEW c \in {"null", "url", "threw"}
  PROVE  [table EXCEPT ![r].checkout = c] \in [References -> Row]
BY DEF Row

\* The status a claim or a recomputation writes is a status.
LEMMA WrittenStatus ==
  /\ \A r, facts : ClaimedStatus(r, facts, "completed") \in TransactionStatus
  /\ \A r, facts : ClaimedStatus(r, facts, "held") \in TransactionStatus
  /\ \A o, status : AggregateStatus(o, status) \in TransactionStatus
BY DEF ClaimedStatus, AggregateStatus, TransactionStatus

\* Settling an attempt keeps the history of attempts a sequence of statuses,
\* of the same length.
LEMMA SettledTyped ==
  ASSUME NEW h \in Seq(Attempt), NEW n \in DOMAIN h
  PROVE  /\ Settled(h, n) \in Seq(Attempt)
         /\ DOMAIN Settled(h, n) = DOMAIN h
<1>1. DOMAIN h = 1..Len(h) /\ Len(h) \in Nat /\ \A m \in 1..Len(h) : h[m] \in Attempt
  OBVIOUS
<1>2. Settled(h, n) \in [1..Len(h) -> Attempt]
  BY <1>1 DEF Settled, Attempt
<1> QED BY <1>1, <1>2, SeqDef

\* Every step of the ledger keeps every table well typed.
LEMMA TypeStep ==
  ASSUME TypeOK, [Next]_vars
  PROVE  TypeOK'
<1> USE LedgerAssumption DEF TypeOK
<1>1. CASE UNCHANGED vars
  BY <1>1 DEF vars
<1>2. ASSUME NEW r \in References, FundingStep(r)
      PROVE  TypeOK'
  <2>1. ASSUME NEW w \in Wallets, NEW amount \in Amounts, CreatePendingFunding(r, w, amount)
        PROVE  TypeOK'
    BY <2>1 DEF CreatePendingFunding, PostNothing, NoRow, Row, TransactionType, TransactionStatus
  <2>2. CASE SetFundingCheckoutUrl(r)
    <3>1. txns' \in [References -> Row]
      BY <2>2, CheckoutTyped DEF SetFundingCheckoutUrl
    <3> QED BY <2>2, <3>1 DEF SetFundingCheckoutUrl, PostNothing
  <2>3. CASE MarkFundingTransactionFailed(r)
    <3>1. "failed" \in TransactionStatus /\ [txns EXCEPT ![r].status = "failed"] \in [References -> Row]
      BY StatusTyped DEF TransactionStatus
    <3>2. txns' = [[txns EXCEPT ![r].status = "failed"] EXCEPT ![r].checkout = "threw"]
      BY <2>3 DEF MarkFundingTransactionFailed
    <3>3. txns' \in [References -> Row]
      BY <3>1, <3>2, CheckoutTyped
    <3> QED BY <2>3, <3>3 DEF MarkFundingTransactionFailed, PostNothing
  <2>4. ASSUME NEW facts \in Facts, PostFunding(r, facts)
        PROVE  TypeOK'
    <3>1. txns' \in [References -> Row]
      BY <2>4, StatusTyped, WrittenStatus DEF PostFunding
    <3>2. balance' \in [Accounts -> Int] /\ entries' \in [Accounts -> Seq(Entry)]
      <4>1. CASE Post(<<r, "">>, FundingLegs(txns[r].recipient, facts))
        BY <4>1, PostTyped, FundingLegsTyped DEF TransactionKey
      <4>2. CASE PostNothing
        BY <4>2 DEF PostNothing
      <4> QED BY <2>4, <4>1, <4>2 DEF PostFunding
    <3> QED BY <2>4, <3>1, <3>2 DEF PostFunding
  <2>5. ASSUME NEW facts \in Facts, HoldFunding(r, facts)
        PROVE  TypeOK'
    <3>1. txns' \in [References -> Row]
      BY <2>5, StatusTyped, WrittenStatus DEF HoldFunding
    <3>2. balance' \in [Accounts -> Int] /\ entries' \in [Accounts -> Seq(Entry)]
      <4>1. CASE Post(<<r, "">>, FundingLegs(Suspense, facts))
        BY <4>1, PostTyped, FundingLegsTyped DEF TransactionKey
      <4>2. CASE PostNothing
        BY <4>2 DEF PostNothing
      <4> QED BY <2>5, <4>1, <4>2 DEF HoldFunding
    <3>3. attempts' \in [References -> Seq(Attempt)]
      <4>1. Append(attempts[r], "pending") \in Seq(Attempt)
        BY DEF Attempt
      <4> QED BY <2>5, <4>1 DEF HoldFunding
    <3> QED BY <2>5, <3>1, <3>2, <3>3 DEF HoldFunding
  <2> QED BY <1>2, <2>1, <2>2, <2>3, <2>4, <2>5 DEF FundingStep
<1>3. ASSUME NEW r \in References, RefundStep(r)
      PROVE  TypeOK'
  <2>1. CASE StartRefundAttempt(r)
    BY <2>1 DEF StartRefundAttempt, PostNothing, Attempt
  <2>2. ASSUME NEW n \in DOMAIN attempts[r], NEW reported \in Amounts, SettleRefund(r, n, reported)
        PROVE  TypeOK'
    <3>1. txns' \in [References -> Row]
      <4>1. "refunded" \in TransactionStatus
        BY DEF TransactionStatus
      <4>2. txns' = [txns EXCEPT ![r].status = "refunded"]
        BY <2>2 DEF SettleRefund
      <4> QED BY <4>1, <4>2, StatusTyped
    <3>2. balance' \in [Accounts -> Int] /\ entries' \in [Accounts -> Seq(Entry)]
      <4>1. txns[r].amount \in Nat
        BY DEF Row
      <4> QED BY <2>2, <4>1, PostTyped, RefundLegsTyped DEF SettleRefund, TransactionKey
    <3>3. Settled(attempts[r], n) \in Seq(Attempt)
      BY <2>2, SettledTyped
    <3>4. attempts' \in [References -> Seq(Attempt)]
      BY <2>2, <3>3 DEF SettleRefund
    <3> QED BY <2>2, <3>1, <3>2, <3>4 DEF SettleRefund
  <2>3. ASSUME NEW n \in DOMAIN attempts[r], FailRefund(r, n)
        PROVE  TypeOK'
    BY <2>3 DEF FailRefund, PostNothing, Attempt
  <2> QED BY <1>3, <2>1, <2>2, <2>3 DEF RefundStep
<1>4. ASSUME NEW r \in References, PaymentStep(r)
      PROVE  TypeOK'
  <2>1. ASSUME NEW s \in Wallets, NEW t \in Wallets, NEW amount \in Amounts,
               PostTransfer(r, s, t, amount)
        PROVE  TypeOK'
    <3>1. txns' \in [References -> Row]
      BY <2>1 DEF PostTransfer, NoRow, Row, TransactionType, TransactionStatus
    <3>2. balance' \in [Accounts -> Int] /\ entries' \in [Accounts -> Seq(Entry)]
      BY <2>1, PostTyped, TransferLegsTyped DEF PostTransfer, TransactionKey
    <3> QED BY <2>1, <3>1, <3>2 DEF PostTransfer
  <2>2. ASSUME NEW w \in Wallets, NEW amount \in Amounts, PostWithdrawal(r, w, amount)
        PROVE  TypeOK'
    <3>1. txns' \in [References -> Row]
      BY <2>2 DEF PostWithdrawal, NoRow, Row, TransactionType, TransactionStatus
    <3>2. balance' \in [Accounts -> Int] /\ entries' \in [Accounts -> Seq(Entry)]
      BY <2>2, PostTyped, WithdrawalLegsTyped DEF PostWithdrawal, TransactionKey
    <3> QED BY <2>2, <3>1, <3>2 DEF PostWithdrawal
  <2>3. CASE ReverseWithdrawal(r)
    <3>1. txns' \in [References -> Row]
      BY <2>3, StatusTyped DEF ReverseWithdrawal, TransactionStatus
    <3>2. balance' \in [Accounts -> Int] /\ entries' \in [Accounts -> Seq(Entry)]
      <4>1. txns[r].amount \in Nat
        BY DEF Row
      <4> QED BY <2>3, <4>1, PostTyped, ReversalLegsTyped DEF ReverseWithdrawal, TransactionKey
    <3> QED BY <2>3, <3>1, <3>2 DEF ReverseWithdrawal
  <2>4. ASSUME NEW reported \in Amounts, CompleteWithdrawal(r, reported)
        PROVE  TypeOK'
    <3>1. "completed" \in TransactionStatus
      BY DEF TransactionStatus
    <3>2. txns' = [txns EXCEPT ![r].status = "completed"]
      BY <2>4 DEF CompleteWithdrawal
    <3>3. txns' \in [References -> Row]
      BY <3>1, <3>2, StatusTyped
    <3> QED BY <2>4, <3>3 DEF CompleteWithdrawal, PostNothing
  <2> QED BY <1>4, <2>1, <2>2, <2>3, <2>4 DEF PaymentStep
<1>5. ASSUME NEW r \in References, DisputeStep(r)
      PROVE  TypeOK'
  <2>1. ASSUME NEW o \in References, NEW amount \in Amounts, RecordChargeback(r, o, amount)
        PROVE  TypeOK'
    <3>1. txns' \in [References -> Row]
      <4> DEFINE row == [NoRow EXCEPT !.type = "chargeback", !.status = "completed",
                                      !.amount = amount, !.sender = txns[o].recipient,
                                      !.reverses = o]
      <4>1. row \in Row
        BY DEF NoRow, Row, TransactionType, TransactionStatus
      <4>2. [txns EXCEPT ![r] = row] \in [References -> Row]
        BY <4>1
      <4>3. txns' = [[txns EXCEPT ![r] = row] EXCEPT ![o].status = "disputed"]
        BY <2>1 DEF RecordChargeback
      <4>4. "disputed" \in TransactionStatus
        BY DEF TransactionStatus
      <4> HIDE DEF row
      <4> QED BY <4>2, <4>3, <4>4, StatusTyped
    <3>2. balance' \in [Accounts -> Int] /\ entries' \in [Accounts -> Seq(Entry)]
      BY <2>1, PostTyped, ChargebackLegsTyped DEF RecordChargeback, TransactionKey
    <3> QED BY <2>1, <3>1, <3>2 DEF RecordChargeback
  <2>2. CASE ResolveAsUpheld(r)
    BY <2>2, StatusTyped, WrittenStatus DEF ResolveAsUpheld, PostNothing
  <2>3. ASSUME NEW amount \in Amounts, ResolveInCliqpaysFavor(r, amount)
        PROVE  TypeOK'
    <3>1. txns' \in [References -> Row]
      BY <2>3, StatusTyped, WrittenStatus DEF ResolveInCliqpaysFavor
    <3>2. balance' \in [Accounts -> Int] /\ entries' \in [Accounts -> Seq(Entry)]
      BY <2>3, PostTyped, ResolutionLegsTyped DEF ResolveInCliqpaysFavor, TransactionKey
    <3> QED BY <2>3, <3>1, <3>2 DEF ResolveInCliqpaysFavor
  <2> QED BY <1>5, <2>1, <2>2, <2>3 DEF DisputeStep
<1> QED BY <1>1, <1>2, <1>3, <1>4, <1>5 DEF Next

\* The ledger's tables are always well typed.
THEOREM TypeCorrect == Spec => []TypeOK
<1>1. Init => TypeOK
  BY LedgerAssumption DEF Init, TypeOK, NoRow, Row, TransactionType, TransactionStatus
<1>2. TypeOK /\ [Next]_vars => TypeOK'
  BY TypeStep
<1> QED BY <1>1, <1>2, PTL DEF Spec

-----------------------------------------------------------------------------
(* What each posting does to the balances that the properties relate *)

\* Wallet w moves by dw, the float by df, fee income by di, suspense by ds,
\* and no other wallet moves.
Moves(w, dw, df, di, ds) ==
  /\ balance'[Float] = balance[Float] + df
  /\ balance'[FeeIncome] = balance[FeeIncome] + di
  /\ balance'[Suspense] = balance[Suspense] + ds
  /\ \A v \in Wallets : balance'[v] = IF v = w THEN balance[v] + dw ELSE balance[v]

\* Post adds a leg's change to the cached balance of its account.
LEMMA PostMoves ==
  ASSUME NEW t, NEW legs, Post(t, legs)
  PROVE  \A a \in Accounts : balance'[a] = IF a \in DOMAIN legs
                                           THEN balance[a] + legs[a].change
                                           ELSE balance[a]
BY DEF Post

\* No wallet is a system account, and the system accounts differ.
LEMMA AccountsDiffer ==
  /\ Wallets \subseteq Accounts /\ SystemAccounts \subseteq Accounts
  /\ \A w \in Wallets : w \notin SystemAccounts
  /\ Float \in SystemAccounts \ {Suspense, FeeIncome, FeeExpense, FeeRecovery}
  /\ Suspense \in SystemAccounts \ {FeeIncome, FeeExpense, FeeRecovery}
  /\ FeeIncome \in SystemAccounts \ {FeeExpense, FeeRecovery}
  /\ FeeExpense \in SystemAccounts \ {FeeRecovery}
  /\ FeeRecovery \in SystemAccounts
BY LedgerAssumption DEF Accounts, Wallets, SystemAccounts, Float, Suspense, FeeIncome,
                        FeeExpense, FeeRecovery

\* What legs add to the balance of account a.
Change(legs, a) == IF a \in DOMAIN legs THEN legs[a].change ELSE 0

\* A posting with at most one wallet among its legs moves the balances by its
\* legs' changes.
LEMMA LegsMove ==
  ASSUME TypeOK, NEW w \in Wallets, NEW legs, NEW t, Post(t, legs),
         \A v \in Wallets : v \in DOMAIN legs => v = w
  PROVE  Moves(w, Change(legs, w), Change(legs, Float), Change(legs, FeeIncome),
               Change(legs, Suspense))
<1>1. \A a \in Accounts : balance[a] \in Int
  BY DEF TypeOK
<1>2. \A a \in Accounts : balance'[a] = balance[a] + Change(legs, a)
  BY <1>1, PostMoves DEF Change
<1>3. ASSUME NEW v \in Wallets, v # w PROVE balance'[v] = balance[v]
  BY <1>3, PostMoves, AccountsDiffer
<1> QED BY <1>2, <1>3, AccountsDiffer DEF Moves

\* Crediting a funding: wallet and float grow by the net amount.
LEMMA FundingMoves ==
  ASSUME TypeOK, NEW w \in Wallets, NEW facts \in Facts, NEW t,
         Post(t, FundingLegs(w, facts))
  PROVE  Moves(w, facts.netAmount, facts.netAmount, 0, 0)
<1> DEFINE legs == FundingLegs(w, facts)
<1>1. DOMAIN legs = {w, Float, FeeExpense, FeeRecovery}
  BY DEF FundingLegs
<1>2. /\ Change(legs, w) = facts.netAmount
      /\ Change(legs, Float) = facts.netAmount
      /\ Change(legs, FeeIncome) = 0
      /\ Change(legs, Suspense) = 0
  BY AccountsDiffer, <1>1 DEF FundingLegs, Leg, Change
<1>3. \A v \in Wallets : v \in DOMAIN legs => v = w
  BY <1>1, AccountsDiffer
<1> HIDE DEF legs
<1>4. Post(t, legs)
  BY DEF legs
<1> QED BY <1>2, <1>3, <1>4, LegsMove

\* Holding a funding: suspense and float grow, no wallet moves.
LEMMA HoldMoves ==
  ASSUME TypeOK, NEW w \in Wallets, NEW facts \in Facts, NEW t,
         Post(t, FundingLegs(Suspense, facts))
  PROVE  Moves(w, 0, facts.netAmount, 0, facts.netAmount)
<1> DEFINE legs == FundingLegs(Suspense, facts)
<1>1. DOMAIN legs = {Suspense, Float, FeeExpense, FeeRecovery}
  BY DEF FundingLegs
<1>2. /\ Change(legs, w) = 0
      /\ Change(legs, Float) = facts.netAmount
      /\ Change(legs, FeeIncome) = 0
      /\ Change(legs, Suspense) = facts.netAmount
  BY AccountsDiffer, <1>1 DEF FundingLegs, Leg, Change
<1>3. \A v \in Wallets : v \in DOMAIN legs => v = w
  BY <1>1, AccountsDiffer
<1> HIDE DEF legs
<1>4. Post(t, legs)
  BY DEF legs
<1> QED BY <1>2, <1>3, <1>4, LegsMove

\* Settling a refund: suspense and float shrink, no wallet moves.
LEMMA RefundMoves ==
  ASSUME TypeOK, NEW w \in Wallets, NEW amount \in Nat, NEW t,
         Post(t, RefundLegs(amount))
  PROVE  Moves(w, 0, -amount, 0, -amount)
<1> DEFINE legs == RefundLegs(amount)
<1>1. DOMAIN legs = {Suspense, Float}
  BY DEF RefundLegs
<1>2. /\ Change(legs, w) = 0
      /\ Change(legs, Float) = -amount
      /\ Change(legs, FeeIncome) = 0
      /\ Change(legs, Suspense) = -amount
  BY AccountsDiffer, <1>1 DEF RefundLegs, Leg, Change
<1>3. \A v \in Wallets : v \in DOMAIN legs => v = w
  BY <1>1, AccountsDiffer
<1> HIDE DEF legs
<1>4. Post(t, legs)
  BY DEF legs
<1> QED BY <1>2, <1>3, <1>4, LegsMove

\* A withdrawal: the wallet pays amount and both fees, the float what leaves.
LEMMA WithdrawalMoves ==
  ASSUME TypeOK, NEW w \in Wallets, NEW amount \in Nat, NEW t,
         Post(t, WithdrawalLegs(w, amount))
  PROVE  Moves(w, -WalletDebit(amount), -FloatCredit(amount), WithdrawalFee, 0)
<1> DEFINE legs == WithdrawalLegs(w, amount)
<1>1. DOMAIN legs = {w, Float, FeeIncome, FeeExpense, FeeRecovery}
  BY DEF WithdrawalLegs
<1>2. /\ Change(legs, w) = -WalletDebit(amount)
      /\ Change(legs, Float) = -FloatCredit(amount)
      /\ Change(legs, FeeIncome) = WithdrawalFee
      /\ Change(legs, Suspense) = 0
  BY AccountsDiffer, <1>1 DEF WithdrawalLegs, Leg, Change
<1>3. \A v \in Wallets : v \in DOMAIN legs => v = w
  BY <1>1, AccountsDiffer
<1> HIDE DEF legs
<1>4. Post(t, legs)
  BY DEF legs
<1> QED BY <1>2, <1>3, <1>4, LegsMove

\* Its reversal undoes exactly that.
LEMMA ReversalMoves ==
  ASSUME TypeOK, NEW w \in Wallets, NEW amount \in Nat, NEW t,
         Post(t, ReversalLegs(w, amount))
  PROVE  Moves(w, WalletDebit(amount), FloatCredit(amount), -WithdrawalFee, 0)
<1> DEFINE legs == ReversalLegs(w, amount)
<1>1. DOMAIN legs = {w, Float, FeeIncome, FeeExpense, FeeRecovery}
  BY DEF ReversalLegs
<1>2. /\ Change(legs, w) = WalletDebit(amount)
      /\ Change(legs, Float) = FloatCredit(amount)
      /\ Change(legs, FeeIncome) = -WithdrawalFee
      /\ Change(legs, Suspense) = 0
  BY AccountsDiffer, <1>1 DEF ReversalLegs, Leg, Change
<1>3. \A v \in Wallets : v \in DOMAIN legs => v = w
  BY <1>1, AccountsDiffer
<1> HIDE DEF legs
<1>4. Post(t, legs)
  BY DEF legs
<1> QED BY <1>2, <1>3, <1>4, LegsMove

\* A chargeback takes the amount from wallet and float.
LEMMA ChargebackMoves ==
  ASSUME TypeOK, NEW w \in Wallets, NEW amount \in Nat, NEW t,
         Post(t, ChargebackLegs(w, amount))
  PROVE  Moves(w, -amount, -amount, 0, 0)
<1> DEFINE legs == ChargebackLegs(w, amount)
<1>1. DOMAIN legs = {w, Float}
  BY DEF ChargebackLegs
<1>2. /\ Change(legs, w) = -amount
      /\ Change(legs, Float) = -amount
      /\ Change(legs, FeeIncome) = 0
      /\ Change(legs, Suspense) = 0
  BY AccountsDiffer, <1>1 DEF ChargebackLegs, Leg, Change
<1>3. \A v \in Wallets : v \in DOMAIN legs => v = w
  BY <1>1, AccountsDiffer
<1> HIDE DEF legs
<1>4. Post(t, legs)
  BY DEF legs
<1> QED BY <1>2, <1>3, <1>4, LegsMove

\* Its resolution in Cliqpay's favour gives it back.
LEMMA ResolutionMoves ==
  ASSUME TypeOK, NEW w \in Wallets, NEW amount \in Nat, NEW t,
         Post(t, ResolutionLegs(w, amount))
  PROVE  Moves(w, amount, amount, 0, 0)
<1> DEFINE legs == ResolutionLegs(w, amount)
<1>1. DOMAIN legs = {w, Float}
  BY DEF ResolutionLegs
<1>2. /\ Change(legs, w) = amount
      /\ Change(legs, Float) = amount
      /\ Change(legs, FeeIncome) = 0
      /\ Change(legs, Suspense) = 0
  BY AccountsDiffer, <1>1 DEF ResolutionLegs, Leg, Change
<1>3. \A v \in Wallets : v \in DOMAIN legs => v = w
  BY <1>1, AccountsDiffer
<1> HIDE DEF legs
<1>4. Post(t, legs)
  BY DEF legs
<1> QED BY <1>2, <1>3, <1>4, LegsMove

\* A transfer moves two wallets; the difference is fee income, whether the
\* fee leg is posted or, for a zero fee, left out.
LEMMA TransferMoves ==
  ASSUME TypeOK, NEW s \in Wallets, NEW t \in Wallets, s # t, NEW amount \in Nat, NEW k,
         Post(k, TransferLegs(s, t, amount))
  PROVE  /\ balance'[Float] = balance[Float]
         /\ balance'[FeeIncome] = balance[FeeIncome] + TransferFee
         /\ balance'[Suspense] = balance[Suspense]
         /\ \A v \in Wallets : balance'[v] =
              IF v = s THEN balance[v] - (amount + TransferFee)
              ELSE IF v = t THEN balance[v] + amount ELSE balance[v]
<1> USE AccountsDiffer
<1> DEFINE legs == TransferLegs(s, t, amount)
<1>1. DOMAIN legs = {s, t} \cup IF TransferFee > 0 THEN {FeeIncome} ELSE {}
  BY DEF TransferLegs
<1>2. /\ legs[s].change = -(amount + TransferFee)
      /\ legs[t].change = amount
      /\ TransferFee > 0 => legs[FeeIncome].change = TransferFee
  BY LedgerAssumption DEF TransferLegs, Leg, SystemAccounts
<1> HIDE DEF legs
<1>3. \A a \in Accounts : balance'[a] = IF a \in DOMAIN legs THEN balance[a] + legs[a].change
                                                           ELSE balance[a]
  BY PostMoves DEF legs
<1>4. \A v \in Wallets : balance'[v] =
        IF v = s THEN balance[v] - (amount + TransferFee)
        ELSE IF v = t THEN balance[v] + amount ELSE balance[v]
  BY <1>1, <1>2, <1>3, LedgerAssumption DEF TypeOK, SystemAccounts
<1>5. balance'[Float] = balance[Float] /\ balance'[Suspense] = balance[Suspense]
  BY <1>1, <1>3 DEF SystemAccounts
<1>6. balance'[FeeIncome] = balance[FeeIncome] + TransferFee
  <2>1. FeeIncome \in Accounts /\ balance[FeeIncome] \in Int /\ TransferFee \in Nat
    BY LedgerAssumption DEF TypeOK
  <2>2. CASE TransferFee > 0
    BY <1>1, <1>2, <1>3, <2>1, <2>2
  <2>3. CASE TransferFee = 0
    <3>1. FeeIncome \notin DOMAIN legs
      BY <1>1, <2>3 DEF SystemAccounts
    <3> QED BY <1>3, <2>1, <2>3, <3>1
  <2> QED BY <2>1, <2>2, <2>3
<1> QED BY <1>4, <1>5, <1>6

-----------------------------------------------------------------------------
(* Well-formed rows *)

\* WellFormedRows of one row, in a given table of transactions and disputes.
RowOK(table, status, r) ==
  /\ status[r] # "none" => table[r].type = "chargeback"
  /\ table[r].type = "chargeback" =>
       /\ table[r].reverses \in References
       /\ table[r].sender \in Wallets
       /\ table[table[r].reverses].type = "funding"
       /\ table[table[r].reverses].status \in Credited
       /\ table[table[r].reverses].recipient = table[r].sender
  /\ table[r].status = "held" => table[r].type = "funding"
  /\ table[r].type = "funding" => table[r].recipient \in Wallets
  /\ table[r].type = "funding" /\ table[r].status \notin {"pending", "failed"} =>
       table[r].checkout = "url"
  /\ table[r].type = "withdrawal" => table[r].sender \in Wallets
  /\ table[r].type = "p2p_transfer" =>
       table[r].sender \in Wallets /\ table[r].recipient \in Wallets \ {table[r].sender}

\* A funding keeps the rows that point at it well formed when it keeps its
\* type and recipient and stays credited if it was.
LEMMA RowsKept ==
  ASSUME NEW t \in [References -> Row], NEW u \in [References -> Row], NEW ds, NEW es,
         NEW r \in References,
         \A q \in References : RowOK(t, ds, q),
         \A q \in References \ {r} : u[q] = t[q] /\ es[q] = ds[q],
         RowOK(u, es, r),
         t[r].type = "funding" =>
           /\ u[r].type = "funding"
           /\ u[r].recipient = t[r].recipient
           /\ t[r].status \in Credited => u[r].status \in Credited
  PROVE  \A q \in References : RowOK(u, es, q)
BY DEF RowOK

\* Every step keeps every row well formed.
LEMMA RowsStep ==
  ASSUME TypeOK, WellFormedRows, [Next]_vars
  PROVE  WellFormedRows'
<1> DEFINE OK(t, ds) == \A q \in References : RowOK(t, ds, q)
<1> USE LedgerAssumption
<1>a. OK(txns, disputes)
  BY DEF WellFormedRows, RowOK
<1>b. TypeOK'
  BY TypeStep
<1>c. txns \in [References -> Row] /\ txns' \in [References -> Row]
  BY <1>b DEF TypeOK
<1>d. SUFFICES OK(txns', disputes')
  BY DEF WellFormedRows, RowOK
<1>e. /\ \A q \in References : txns[q].status \in TransactionStatus /\ txns[q].type \in TransactionType
      /\ \A q \in References : txns[q].recipient \in Wallets \cup {Null}
  BY <1>c DEF Row
<1>1. CASE UNCHANGED vars
  BY <1>1, <1>a DEF vars
<1>2. ASSUME NEW r \in References, FundingStep(r)
      PROVE  OK(txns', disputes')
  <2>1. disputes' = disputes /\ \A q \in References \ {r} : txns'[q] = txns[q]
    BY <1>2, <1>c DEF FundingStep, CreatePendingFunding, SetFundingCheckoutUrl,
          MarkFundingTransactionFailed, PostFunding, HoldFunding
  <2>2. ASSUME NEW w \in Wallets, NEW amount \in Amounts, CreatePendingFunding(r, w, amount)
        PROVE  OK(txns', disputes')
    <3>1. RowOK(txns', disputes', r) /\ txns[r].type = "none"
      BY <2>1, <2>2, <1>a, <1>c DEF CreatePendingFunding, Unused, NoRow, RowOK
    <3> QED BY <2>1, <3>1, <1>a, <1>c, RowsKept
  <2>3. CASE SetFundingCheckoutUrl(r)
    <3>1. RowOK(txns', disputes', r) /\ txns[r].type = "funding" /\ txns'[r].type = "funding"
          /\ txns'[r].recipient = txns[r].recipient /\ txns'[r].status = txns[r].status
      BY <2>1, <2>3, <1>a, <1>c DEF SetFundingCheckoutUrl, RowOK, Row
    <3> QED BY <2>1, <3>1, <1>a, <1>c, RowsKept
  <2>4. CASE MarkFundingTransactionFailed(r)
    <3>1. RowOK(txns', disputes', r) /\ txns[r].type = "funding" /\ txns'[r].type = "funding"
          /\ txns'[r].recipient = txns[r].recipient /\ txns[r].status \notin Credited
      BY <2>1, <2>4, <1>a, <1>c DEF MarkFundingTransactionFailed, RowOK, Row, Credited
    <3> QED BY <2>1, <3>1, <1>a, <1>c, RowsKept
  <2>5. ASSUME NEW facts \in Facts, PostFunding(r, facts) \/ HoldFunding(r, facts)
        PROVE  OK(txns', disputes')
    <3>1. /\ txns[r].type = "funding" /\ txns'[r].type = "funding"
          /\ txns'[r].recipient = txns[r].recipient
          /\ txns'[r].checkout = txns[r].checkout
          /\ txns[r].status = "pending"
          /\ txns'[r].status \in {"completed", "held", "failed"}
          /\ txns'[r].status # "failed" => txns[r].checkout = "url"
      <4>1. PICK st \in {"completed", "held", "failed"} :
              /\ txns' = [txns EXCEPT ![r].status = st]
              /\ st # "failed" => facts.providerStatus = "success"
        <5>1. /\ ClaimedStatus(r, facts, "completed") \in {"completed", "failed"}
              /\ ClaimedStatus(r, facts, "held") \in {"held", "failed"}
              /\ ClaimedStatus(r, facts, "completed") # "failed" => facts.providerStatus = "success"
              /\ ClaimedStatus(r, facts, "held") # "failed" => facts.providerStatus = "success"
          BY DEF ClaimedStatus
        <5> QED BY <2>5, <5>1 DEF PostFunding, HoldFunding
      <4>2. txns[r].type = "funding" /\ txns[r].status = "pending" /\ Reportable(r, facts)
        BY <2>5 DEF PostFunding, HoldFunding, IsPending
      <4>3. /\ txns'[r].type = txns[r].type /\ txns'[r].recipient = txns[r].recipient
            /\ txns'[r].checkout = txns[r].checkout /\ txns'[r].status = st
        BY <4>1, <1>c DEF Row
      <4> QED BY <4>1, <4>2, <4>3 DEF Reportable
    <3>2. RowOK(txns', disputes', r)
      BY <2>1, <3>1, <1>a, <1>c DEF RowOK
    <3> QED BY <2>1, <3>1, <3>2, <1>a, <1>c, RowsKept DEF Credited
  <2> QED BY <1>2, <2>2, <2>3, <2>4, <2>5 DEF FundingStep
<1>3. ASSUME NEW r \in References, RefundStep(r)
      PROVE  OK(txns', disputes')
  <2>1. CASE txns' = txns /\ disputes' = disputes
    BY <1>a, <2>1
  <2>2. ASSUME NEW n \in DOMAIN attempts[r], NEW reported \in Amounts, SettleRefund(r, n, reported)
        PROVE  OK(txns', disputes')
    <3>1. /\ disputes' = disputes /\ \A q \in References \ {r} : txns'[q] = txns[q]
          /\ txns[r].type = "funding" /\ txns'[r].type = "funding"
          /\ txns'[r].recipient = txns[r].recipient
          /\ txns'[r].checkout = txns[r].checkout
          /\ txns[r].status = "held" /\ txns'[r].status = "refunded"
      BY <2>2, <1>c DEF SettleRefund, IsHeldFunding, Row
    <3>2. RowOK(txns', disputes', r)
      BY <3>1, <1>a, <1>c DEF RowOK
    <3> QED BY <3>1, <3>2, <1>a, <1>c, RowsKept DEF Credited
  <2> QED BY <1>3, <2>1, <2>2 DEF RefundStep, StartRefundAttempt, FailRefund
<1>4. ASSUME NEW r \in References, PaymentStep(r)
      PROVE  OK(txns', disputes')
  <2>1. disputes' = disputes /\ \A q \in References \ {r} : txns'[q] = txns[q]
    BY <1>4, <1>c DEF PaymentStep, PostTransfer, PostWithdrawal, ReverseWithdrawal, CompleteWithdrawal
  <2>2. RowOK(txns', disputes', r) /\ txns[r].type # "funding"
    <3>1. ASSUME NEW s \in Wallets, NEW t \in Wallets, NEW amount \in Amounts,
                 PostTransfer(r, s, t, amount)
          PROVE  RowOK(txns', disputes', r) /\ txns[r].type # "funding"
      <4>1. /\ txns[r].type = "none" /\ s # t
            /\ txns'[r].type = "p2p_transfer" /\ txns'[r].status = "completed"
            /\ txns'[r].sender = s /\ txns'[r].recipient = t
        BY <3>1, <1>c DEF PostTransfer, Unused, NoRow
      <4> QED BY <2>1, <3>1, <4>1, <1>a DEF RowOK
    <3>2. ASSUME NEW w \in Wallets, NEW amount \in Amounts, PostWithdrawal(r, w, amount)
          PROVE  RowOK(txns', disputes', r) /\ txns[r].type # "funding"
      <4>1. /\ txns[r].type = "none"
            /\ txns'[r].type = "withdrawal" /\ txns'[r].status = "pending"
            /\ txns'[r].sender = w
        BY <3>2, <1>c DEF PostWithdrawal, Unused, NoRow
      <4> QED BY <2>1, <3>2, <4>1, <1>a DEF RowOK
    <3>3. ASSUME ReverseWithdrawal(r) \/ \E reported \in Amounts : CompleteWithdrawal(r, reported)
          PROVE  RowOK(txns', disputes', r) /\ txns[r].type # "funding"
      <4>1. /\ txns[r].type = "withdrawal" /\ txns'[r].type = "withdrawal"
            /\ txns'[r].sender = txns[r].sender
            /\ txns'[r].status \in {"reversed", "completed"}
        BY <3>3, <1>c DEF ReverseWithdrawal, CompleteWithdrawal, IsPending, Row
      <4> QED BY <2>1, <4>1, <1>a, <1>c DEF RowOK
    <3> QED BY <1>4, <3>1, <3>2, <3>3 DEF PaymentStep
  <2> QED BY <2>1, <2>2, <1>a, <1>c, RowsKept
<1>5. ASSUME NEW r \in References, DisputeStep(r)
      PROVE  OK(txns', disputes')
  <2>1. ASSUME NEW o \in References, NEW amount \in Amounts, RecordChargeback(r, o, amount)
        PROVE  OK(txns', disputes')
    <3> DEFINE row == [NoRow EXCEPT !.type = "chargeback", !.status = "completed",
                                    !.amount = amount, !.sender = txns[o].recipient,
                                    !.reverses = o]
               mid == [txns EXCEPT ![o].status = "disputed"]
    <3>1. /\ txns[r].type = "none" /\ txns[o].type = "funding" /\ r # o
          /\ txns[o].status \in Credited /\ txns[o].recipient \in Wallets
          /\ txns[o].checkout = "url"
      BY <2>1, <1>a, <1>c DEF RecordChargeback, Unused, RowOK, Credited, ChargebackableWhenRead
    <3>2. mid \in [References -> Row]
      BY <1>c, StatusTyped DEF TransactionStatus
    <3>3. OK(mid, disputes)
      <4>1. /\ \A q \in References \ {o} : mid[q] = txns[q]
            /\ mid[o].type = "funding" /\ mid[o].status = "disputed" /\ mid[o].checkout = "url"
            /\ mid[o].recipient = txns[o].recipient
        BY <3>1, <1>c DEF Row
      <4>2. RowOK(mid, disputes, o)
        BY <3>1, <4>1, <1>a DEF RowOK
      <4> HIDE DEF mid
      <4> QED BY <3>1, <3>2, <4>1, <4>2, <1>a, <1>c, RowsKept DEF Credited
    <3>4. /\ txns'[r] = row /\ \A q \in References \ {r} : txns'[q] = mid[q]
          /\ disputes'[r] = "open" /\ \A q \in References \ {r} : disputes'[q] = disputes[q]
      <4>1. txns' = [txns EXCEPT ![r] = row, ![o].status = "disputed"]
        BY <2>1 DEF RecordChargeback
      <4>2. disputes' = [disputes EXCEPT ![r] = "open"]
        BY <2>1 DEF RecordChargeback
      <4>3. \A q \in References \ {r} : txns'[q] = mid[q]
        BY <4>1, <3>1, <1>c
      <4>4. txns'[r] = row
        <5> HIDE DEF row
        <5> QED BY <4>1, <3>1, <1>c
      <4> QED BY <4>2, <4>3, <4>4 DEF TypeOK
    <3>5. RowOK(txns', disputes', r)
      <4>1. /\ row.type = "chargeback" /\ row.status = "completed" /\ row.reverses = o
            /\ row.sender = txns[o].recipient
        BY DEF NoRow
      <4>2. /\ txns'[o].type = "funding" /\ txns'[o].status = "disputed"
            /\ txns'[o].recipient = txns[o].recipient
        BY <3>1, <3>4, <1>c DEF Row
      <4> HIDE DEF row, mid
      <4> QED BY <3>1, <3>4, <4>1, <4>2 DEF RowOK, Credited
    <3>6. mid[r].type = "none"
      BY <3>1, <1>c
    <3> HIDE DEF row, mid
    <3> QED BY <3>2, <3>3, <3>4, <3>5, <3>6, <1>c, RowsKept
  <2>2. ASSUME NEW st \in {"upheld", "resolved"},
               disputes[r] = "open", disputes' = [disputes EXCEPT ![r] = st],
               txns' = [txns EXCEPT ![txns[r].reverses].status =
                          AggregateStatus(txns[r].reverses, disputes')]
        PROVE  OK(txns', disputes')
    <3> DEFINE o == txns[r].reverses
    <3>1. /\ txns[r].type = "chargeback" /\ o \in References /\ o # r
          /\ txns[o].type = "funding" /\ txns[o].status \in Credited
          /\ txns[o].checkout = "url"
      BY <2>2, <1>a DEF RowOK, Credited
    <3>2. /\ \A q \in References \ {o} : txns'[q] = txns[q]
          /\ txns'[o].type = "funding" /\ txns'[o].status \in Credited
          /\ txns'[o].recipient = txns[o].recipient /\ txns'[o].checkout = "url"
      BY <2>2, <3>1, <1>c DEF AggregateStatus, Credited, Row
    <3>3. \A q \in References \ {r} : disputes'[q] = disputes[q]
      BY <2>2 DEF TypeOK
    <3> HIDE DEF o
    <3>4. RowOK(txns', disputes', o)
      BY <3>1, <3>2, <3>3, <1>a DEF RowOK, Credited
    <3>5. OK(txns', disputes)
      <4>1. RowOK(txns', disputes, o)
        BY <3>1, <3>3, <3>4 DEF RowOK
      <4> QED BY <3>1, <3>2, <4>1, <1>a, <1>c, RowsKept
    <3>6. RowOK(txns', disputes', r)
      BY <3>1, <3>2, <3>5 DEF RowOK
    <3> QED BY <3>1, <3>2, <3>3, <3>5, <3>6, <1>c, RowsKept
  <2>3. CASE ResolveAsUpheld(r)
    BY <2>2, <2>3 DEF ResolveAsUpheld
  <2>4. ASSUME NEW amount \in Amounts, ResolveInCliqpaysFavor(r, amount)
        PROVE  OK(txns', disputes')
    BY <2>2, <2>4 DEF ResolveInCliqpaysFavor
  <2> QED BY <1>5, <2>1, <2>3, <2>4 DEF DisputeStep
<1> QED BY <1>1, <1>2, <1>3, <1>4, <1>5 DEF Next

-----------------------------------------------------------------------------
(* The balance sheet *)

\* A posting that moves the float by what it moves one wallet, fee income and
\* suspense keeps the balance sheet.
LEMMA SheetMoves ==
  ASSUME TypeOK, TypeOK', BalanceSheet,
         NEW w \in Wallets, NEW dw \in Int, NEW df \in Int, NEW di \in Int, NEW ds \in Int,
         df = dw + di + ds, Moves(w, dw, df, di, ds)
  PROVE  BalanceSheet'
<1> USE LedgerAssumption
<1> DEFINE f == [v \in Wallets |-> balance[v]]
           g == [v \in Wallets |-> balance'[v]]
<1>1. f \in [1..NumWallets -> Int] /\ g \in [1..NumWallets -> Int]
  BY AccountsDiffer DEF TypeOK, Wallets
<1>2. g[w] - f[w] = dw /\ \A v \in 1..NumWallets : v # w => g[v] = f[v]
  BY <1>1 DEF Moves, Wallets
<1>3. BalanceSheet <=> balance[Float] = SumUpTo(f, NumWallets) + balance[FeeIncome] + balance[Suspense]
  BY DEF BalanceSheet
<1>4. BalanceSheet' <=> balance'[Float] = SumUpTo(g, NumWallets) + balance'[FeeIncome] + balance'[Suspense]
  BY DEF BalanceSheet
<1> HIDE DEF f, g
<1>5. SumUpTo(g, NumWallets) = SumUpTo(f, NumWallets) + dw
  BY <1>1, <1>2, SumChange DEF Wallets
<1>6. SumUpTo(f, NumWallets) \in Int
  BY <1>1, SumInt
<1>7. balance[Float] \in Int /\ balance[FeeIncome] \in Int /\ balance[Suspense] \in Int
  BY AccountsDiffer DEF TypeOK
<1> QED BY <1>3, <1>4, <1>5, <1>6, <1>7 DEF Moves

\* In particular one that moves the float and suspense alone.
LEMMA SheetHeldMoves ==
  ASSUME TypeOK, TypeOK', BalanceSheet,
         NEW w \in Wallets, NEW d \in Int, Moves(w, 0, d, 0, d)
  PROVE  BalanceSheet'
<1>1. d = 0 + 0 + d
  OBVIOUS
<1> QED BY <1>1, SheetMoves

\* So does a transfer, which moves two wallets.
LEMMA SheetTransfer ==
  ASSUME TypeOK, TypeOK', BalanceSheet,
         NEW s \in Wallets, NEW t \in Wallets, s # t, NEW amount \in Nat, NEW k,
         Post(k, TransferLegs(s, t, amount))
  PROVE  BalanceSheet'
<1> USE LedgerAssumption
<1> DEFINE f == [v \in Wallets |-> balance[v]]
           g == [v \in Wallets |-> balance'[v]]
           h == [v \in Wallets |-> IF v = s THEN balance[v] - (amount + TransferFee) ELSE balance[v]]
<1>0. \A v \in Wallets : balance[v] \in Int /\ balance'[v] \in Int
  BY AccountsDiffer DEF TypeOK
<1>1. /\ f \in [1..NumWallets -> Int] /\ g \in [1..NumWallets -> Int]
      /\ h \in [1..NumWallets -> Int]
  BY <1>0 DEF Wallets
<1>2. /\ h[s] - f[s] = -(amount + TransferFee)
      /\ \A v \in 1..NumWallets : v # s => h[v] = f[v]
  BY <1>1 DEF Wallets
<1>3. /\ g[t] - h[t] = amount
      /\ \A v \in 1..NumWallets : v # t => g[v] = h[v]
  BY <1>1, TransferMoves DEF Wallets
<1>4. BalanceSheet <=> balance[Float] = SumUpTo(f, NumWallets) + balance[FeeIncome] + balance[Suspense]
  BY DEF BalanceSheet
<1>5. BalanceSheet' <=> balance'[Float] = SumUpTo(g, NumWallets) + balance'[FeeIncome] + balance'[Suspense]
  BY DEF BalanceSheet
<1> HIDE DEF f, g, h
<1>6. SumUpTo(h, NumWallets) = SumUpTo(f, NumWallets) - (amount + TransferFee)
  <2>1. SumUpTo(h, NumWallets) = SumUpTo(f, NumWallets) + (h[s] - f[s])
    BY <1>1, <1>2, SumChange DEF Wallets
  <2> QED BY <2>1, <1>2, <1>1, SumInt
<1>7. SumUpTo(g, NumWallets) = SumUpTo(h, NumWallets) + amount
  <2>1. SumUpTo(g, NumWallets) = SumUpTo(h, NumWallets) + (g[t] - h[t])
    BY <1>1, <1>3, SumChange DEF Wallets
  <2> QED BY <2>1, <1>3
<1>8. SumUpTo(f, NumWallets) \in Int
  BY <1>1, SumInt
<1>9. balance[Float] \in Int /\ balance[FeeIncome] \in Int /\ balance[Suspense] \in Int
  BY AccountsDiffer DEF TypeOK
<1>10. /\ balance'[Float] = balance[Float]
       /\ balance'[FeeIncome] = balance[FeeIncome] + TransferFee
       /\ balance'[Suspense] = balance[Suspense]
  BY TransferMoves
<1> QED BY <1>4, <1>5, <1>6, <1>7, <1>8, <1>9, <1>10

\* Every step keeps the balance sheet.
LEMMA SheetStep ==
  ASSUME TypeOK, WellFormedRows, BalanceSheet, [Next]_vars
  PROVE  BalanceSheet'
<1> USE LedgerAssumption
<1>a. TypeOK'
  BY TypeStep
<1>b. CASE UNCHANGED balance
  BY <1>b DEF BalanceSheet
<1>c. \A q \in References : txns[q].amount \in Nat
  BY DEF TypeOK, Row
<1>1. CASE UNCHANGED vars
  BY <1>1, <1>b DEF vars
<1>2. ASSUME NEW r \in References, FundingStep(r)
      PROVE  BalanceSheet'
  <2>1. ASSUME NEW facts \in Facts, PostFunding(r, facts)
        PROVE  BalanceSheet'
    <3>1. txns[r].recipient \in Wallets
      BY <2>1 DEF PostFunding, IsPending, WellFormedRows
    <3>2. facts.netAmount \in Int
      <4>1. facts.netAmount \in Amounts
        BY DEF Facts
      <4>2. \A x \in Amounts : x \in Int
        OBVIOUS
      <4> QED BY <4>1, <4>2
    <3>3. CASE Post(<<r, "">>, FundingLegs(txns[r].recipient, facts))
      <4>1. Moves(txns[r].recipient, facts.netAmount, facts.netAmount, 0, 0)
        BY <3>1, <3>3, FundingMoves
      <4> QED BY <3>1, <3>2, <4>1, <1>a, SheetMoves
    <3> QED BY <2>1, <3>3, <1>b DEF PostFunding, PostNothing
  <2>2. ASSUME NEW facts \in Facts, HoldFunding(r, facts)
        PROVE  BalanceSheet'
    <3>1. txns[r].recipient \in Wallets
      BY <2>2 DEF HoldFunding, IsPending, WellFormedRows
    <3>2. facts.netAmount \in Int
      <4>1. facts.netAmount \in Amounts
        BY DEF Facts
      <4>2. \A x \in Amounts : x \in Int
        OBVIOUS
      <4> QED BY <4>1, <4>2
    <3>3. CASE Post(<<r, "">>, FundingLegs(Suspense, facts))
      <4>1. Moves(txns[r].recipient, 0, facts.netAmount, 0, facts.netAmount)
        BY <3>1, <3>3, HoldMoves
      <4> QED BY <3>1, <3>2, <4>1, <1>a, SheetHeldMoves
    <3> QED BY <2>2, <3>3, <1>b DEF HoldFunding, PostNothing
  <2> QED BY <1>2, <2>1, <2>2, <1>b
          DEF FundingStep, CreatePendingFunding, SetFundingCheckoutUrl,
              MarkFundingTransactionFailed, PostNothing
<1>3. ASSUME NEW r \in References, RefundStep(r)
      PROVE  BalanceSheet'
  <2>1. ASSUME NEW n \in DOMAIN attempts[r], NEW reported \in Amounts, SettleRefund(r, n, reported)
        PROVE  BalanceSheet'
    <3>1. txns[r].recipient \in Wallets
      BY <2>1 DEF SettleRefund, IsHeldFunding, WellFormedRows
    <3>2. txns[r].amount \in Nat
      BY <1>c
    <3>3. Moves(txns[r].recipient, 0, -txns[r].amount, 0, -txns[r].amount)
      BY <2>1, <3>1, <3>2, RefundMoves DEF SettleRefund
    <3>4. -txns[r].amount \in Int
      BY <3>2
    <3> QED BY <3>1, <3>3, <3>4, <1>a, SheetHeldMoves
  <2> QED BY <1>3, <2>1, <1>b DEF RefundStep, StartRefundAttempt, FailRefund, PostNothing
<1>4. ASSUME NEW r \in References, PaymentStep(r)
      PROVE  BalanceSheet'
  <2>1. ASSUME NEW s \in Wallets, NEW t \in Wallets, NEW amount \in Amounts,
               PostTransfer(r, s, t, amount)
        PROVE  BalanceSheet'
    BY <2>1, <1>a, SheetTransfer DEF PostTransfer
  <2>2. ASSUME NEW w \in Wallets, NEW amount \in Amounts, PostWithdrawal(r, w, amount)
        PROVE  BalanceSheet'
    <3>1. amount \in Nat
      OBVIOUS
    <3>2. Moves(w, -WalletDebit(amount), -FloatCredit(amount), WithdrawalFee, 0)
      BY <2>2, <3>1, WithdrawalMoves DEF PostWithdrawal
    <3>3. /\ -WalletDebit(amount) \in Int /\ -FloatCredit(amount) \in Int /\ WithdrawalFee \in Int
          /\ -FloatCredit(amount) = -WalletDebit(amount) + WithdrawalFee + 0
      BY <3>1 DEF WalletDebit, FloatCredit
    <3> QED BY <3>2, <3>3, <1>a, SheetMoves
  <2>3. CASE ReverseWithdrawal(r)
    <3> DEFINE amount == txns[r].amount
               w == txns[r].sender
    <3>1. amount \in Nat /\ w \in Wallets
      BY <2>3, <1>c DEF ReverseWithdrawal, IsPending, WellFormedRows
    <3>2. Post(<<r, "-reversal">>, ReversalLegs(w, amount))
      BY <2>3 DEF ReverseWithdrawal
    <3> HIDE DEF amount, w
    <3>3. Moves(w, WalletDebit(amount), FloatCredit(amount), -WithdrawalFee, 0)
      BY <3>1, <3>2, ReversalMoves
    <3>4. /\ WalletDebit(amount) \in Int /\ FloatCredit(amount) \in Int /\ -WithdrawalFee \in Int
          /\ FloatCredit(amount) = WalletDebit(amount) + (-WithdrawalFee) + 0
      BY <3>1 DEF WalletDebit, FloatCredit
    <3> QED BY <3>1, <3>3, <3>4, <1>a, SheetMoves
  <2> QED BY <1>4, <2>1, <2>2, <2>3, <1>b DEF PaymentStep, CompleteWithdrawal, PostNothing
<1>5. ASSUME NEW r \in References, DisputeStep(r)
      PROVE  BalanceSheet'
  <2>1. ASSUME NEW o \in References, NEW amount \in Amounts, RecordChargeback(r, o, amount)
        PROVE  BalanceSheet'
    <3>1. amount \in Nat /\ txns[o].recipient \in Wallets
      BY <2>1 DEF RecordChargeback, WellFormedRows
    <3>2. Moves(txns[o].recipient, -amount, -amount, 0, 0)
      BY <2>1, <3>1, ChargebackMoves DEF RecordChargeback
    <3> QED BY <3>1, <3>2, <1>a, SheetMoves
  <2>2. ASSUME NEW amount \in Amounts, ResolveInCliqpaysFavor(r, amount)
        PROVE  BalanceSheet'
    <3>1. amount \in Nat /\ txns[r].sender \in Wallets
      BY <2>2 DEF ResolveInCliqpaysFavor, WellFormedRows
    <3>2. Moves(txns[r].sender, amount, amount, 0, 0)
      BY <2>2, <3>1, ResolutionMoves DEF ResolveInCliqpaysFavor
    <3> QED BY <3>1, <3>2, <1>a, SheetMoves
  <2> QED BY <1>5, <2>1, <2>2, <1>b DEF DisputeStep, ResolveAsUpheld, PostNothing
<1> QED BY <1>1, <1>2, <1>3, <1>4, <1>5 DEF Next

\* Rows are well formed on an empty ledger.
LEMMA InitRows == Init => WellFormedRows
BY DEF Init, WellFormedRows, NoRow

\* An empty ledger balances.
LEMMA InitSheet == Init => BalanceSheet
<1> SUFFICES ASSUME Init PROVE BalanceSheet
  OBVIOUS
<1>1. [w \in Wallets |-> balance[w]] = [i \in 1..NumWallets |-> 0]
  BY AccountsDiffer DEF Init, Wallets
<1>2. SumUpTo([w \in Wallets |-> balance[w]], NumWallets) = 0
  BY <1>1, SumZero, LedgerAssumption
<1>3. balance[Float] = 0 /\ balance[FeeIncome] = 0 /\ balance[Suspense] = 0
  BY AccountsDiffer DEF Init
<1> QED BY <1>2, <1>3 DEF BalanceSheet

\* Every chargeback points at a funding that stays credited, every dispute at
\* a chargeback: the shape of the rows that every other proof rests on.
THEOREM RowsCorrect == Spec => []WellFormedRows
<1>1. Init => TypeOK /\ WellFormedRows
  BY InitRows, LedgerAssumption
     DEF Init, TypeOK, NoRow, Row, TransactionType, TransactionStatus
<1>2. TypeOK /\ WellFormedRows /\ [Next]_vars => (TypeOK /\ WellFormedRows)'
  BY TypeStep, RowsStep
<1> QED BY <1>1, <1>2, PTL DEF Spec

\* The float always equals what Cliqpay owes: wallets, fee income, suspense.
THEOREM BalanceSheetHolds == Spec => []BalanceSheet
<1>1. Init => BalanceSheet
  BY InitSheet
<1>2. TypeOK /\ WellFormedRows /\ BalanceSheet /\ [Next]_vars => BalanceSheet'
  BY SheetStep
<1> QED BY <1>1, <1>2, TypeCorrect, RowsCorrect, PTL DEF Spec

-----------------------------------------------------------------------------
(* Debts *)

\* What row r, with its dispute in status d, stands for against wallet w.
Stands(row, d, w) ==
  IF row.type = "chargeback" /\ row.sender = w /\ d # "resolved" THEN row.amount ELSE 0

\* Chargebacks that stand are never less than nothing.
LEMMA StandingNat ==
  ASSUME TypeOK, NEW w
  PROVE  Standing(w) \in Int /\ Standing(w) >= 0
<1> USE LedgerAssumption
<1> DEFINE f == [q \in References |-> Stands(txns[q], disputes[q], w)]
<1>1. \A q \in References : Stands(txns[q], disputes[q], w) \in Nat
  BY DEF TypeOK, Row, Stands
<1>2. f \in [1..NumReferences -> Int] /\ \A q \in 1..NumReferences : f[q] >= 0
  BY <1>1 DEF References
<1>3. Standing(w) = SumUpTo(f, NumReferences)
  BY DEF Standing, Stands
<1> HIDE DEF f
<1> QED BY <1>2, <1>3, SumInt, SumNat

\* A step that changes what one row stands for, and leaves each wallet
\* something or takes no more than the row now stands for, keeps debts covered.
LEMMA DebtMoves ==
  ASSUME TypeOK, TypeOK', DebtsAreChargebacks, NEW r \in References,
         \A q \in References \ {r}, w \in Wallets :
           Stands(txns'[q], disputes'[q], w) = Stands(txns[q], disputes[q], w),
         \A w \in Wallets :
           \/ balance'[w] >= 0
           \/ balance'[w] + Stands(txns'[r], disputes'[r], w)
                >= balance[w] + Stands(txns[r], disputes[r], w)
  PROVE  DebtsAreChargebacks'
<1> USE LedgerAssumption
<1> SUFFICES ASSUME NEW w \in Wallets
             PROVE  balance'[w] + Standing(w)' >= 0
  BY DEF DebtsAreChargebacks
<1> DEFINE f == [q \in References |-> Stands(txns[q], disputes[q], w)]
           g == [q \in References |-> Stands(txns'[q], disputes'[q], w)]
<1>1. \A q \in References : /\ Stands(txns[q], disputes[q], w) \in Nat
                            /\ Stands(txns'[q], disputes'[q], w) \in Nat
  BY DEF TypeOK, Row, Stands
<1>2. f \in [1..NumReferences -> Int] /\ g \in [1..NumReferences -> Int]
  BY <1>1 DEF References
<1>3. \A q \in 1..NumReferences : q # r => g[q] = f[q]
  BY DEF References
<1>4. Standing(w) = SumUpTo(f, NumReferences) /\ Standing(w)' = SumUpTo(g, NumReferences)
  BY DEF Standing, Stands
<1>5. balance'[w] >= 0 \/ balance'[w] + g[r] >= balance[w] + f[r]
  OBVIOUS
<1>6. balance[w] \in Int /\ balance'[w] \in Int /\ balance[w] + Standing(w) >= 0
  BY AccountsDiffer DEF TypeOK, DebtsAreChargebacks
<1>7. \A q \in 1..NumReferences : f[q] >= 0 /\ g[q] >= 0
  BY <1>1 DEF References
<1>9. f[r] \in Int /\ g[r] \in Int
  BY <1>1
<1> HIDE DEF f, g
<1>8. /\ SumUpTo(f, NumReferences) \in Int
      /\ SumUpTo(g, NumReferences) \in Int /\ SumUpTo(g, NumReferences) >= 0
  BY <1>2, <1>7, SumInt, SumNat
<1>10. SumUpTo(g, NumReferences) = SumUpTo(f, NumReferences) + (g[r] - f[r])
  BY <1>2, <1>3, SumChange DEF References
<1> QED BY <1>4, <1>5, <1>6, <1>8, <1>9, <1>10

\* In particular a step on a row that is no chargeback.
LEMMA DebtRests ==
  ASSUME TypeOK, TypeOK', DebtsAreChargebacks, NEW r \in References,
         disputes' = disputes, \A q \in References \ {r} : txns'[q] = txns[q],
         txns[r].type # "chargeback", txns'[r].type # "chargeback",
         \A w \in Wallets : balance'[w] >= 0 \/ balance'[w] >= balance[w]
  PROVE  DebtsAreChargebacks'
<1>1. \A w \in Wallets : /\ Stands(txns[r], disputes[r], w) = 0
                         /\ Stands(txns'[r], disputes'[r], w) = 0
  BY DEF Stands
<1>2. \A w \in Wallets : balance[w] \in Int /\ balance'[w] \in Int
  BY AccountsDiffer DEF TypeOK
<1>3. \A w \in Wallets :
           \/ balance'[w] >= 0
           \/ balance'[w] + Stands(txns'[r], disputes'[r], w)
                >= balance[w] + Stands(txns[r], disputes[r], w)
  BY <1>1, <1>2
<1> QED BY <1>3, DebtMoves

\* A wallet that moves by dw, and is left something if dw takes from it.
LEMMA DebtPosts ==
  ASSUME TypeOK, NEW w \in Wallets, NEW dw \in Int, NEW df, NEW di, NEW ds,
         Moves(w, dw, df, di, ds), dw >= 0 \/ balance[w] + dw >= 0
  PROVE  \A v \in Wallets : balance'[v] >= 0 \/ balance'[v] >= balance[v]
<1>1. \A v \in Wallets : balance[v] \in Int
  BY AccountsDiffer DEF TypeOK
<1>2. \A v \in Wallets : balance'[v] = IF v = w THEN balance[v] + dw ELSE balance[v]
  BY DEF Moves
<1> QED BY <1>1, <1>2

LEMMA DebtFunding ==
  ASSUME TypeOK, TypeOK', WellFormedRows, DebtsAreChargebacks,
         NEW r \in References, FundingStep(r)
  PROVE  DebtsAreChargebacks'
<1> USE LedgerAssumption
<1>a. txns \in [References -> Row] /\ \A w \in Wallets : balance[w] \in Int
  BY AccountsDiffer DEF TypeOK
<1>1. /\ disputes' = disputes /\ \A q \in References \ {r} : txns'[q] = txns[q]
      /\ txns[r].type # "chargeback" /\ txns'[r].type # "chargeback"
  <2> DEFINE Kept == /\ disputes' = disputes /\ \A q \in References \ {r} : txns'[q] = txns[q]
                     /\ txns[r].type # "chargeback" /\ txns'[r].type # "chargeback"
  <2>1. ASSUME NEW w, NEW amount, CreatePendingFunding(r, w, amount)
        PROVE  Kept
    BY <2>1, <1>a DEF CreatePendingFunding, Unused, NoRow
  <2>2. CASE SetFundingCheckoutUrl(r) \/ MarkFundingTransactionFailed(r)
    BY <2>2, <1>a DEF SetFundingCheckoutUrl, MarkFundingTransactionFailed, Row
  <2>3. ASSUME NEW facts, NEW status, txns[r].type = "funding", disputes' = disputes,
               txns' = [txns EXCEPT ![r].status = status]
        PROVE  Kept
    BY <2>3, <1>a DEF Row
  <2>4. ASSUME NEW facts, PostFunding(r, facts) \/ HoldFunding(r, facts)
        PROVE  Kept
    BY <2>3, <2>4 DEF PostFunding, HoldFunding, IsPending
  <2> QED BY <2>1, <2>2, <2>4 DEF FundingStep
<1>2. CASE balance' = balance
  BY <1>1, <1>2, <1>a, DebtRests
<1>3. ASSUME NEW facts \in Facts, PostFunding(r, facts) \/ HoldFunding(r, facts)
      PROVE  DebtsAreChargebacks'
  <2>1. txns[r].recipient \in Wallets
    BY <1>3 DEF PostFunding, HoldFunding, IsPending, WellFormedRows
  <2>2. facts.netAmount \in Nat
    <3>1. facts.netAmount \in Amounts
      BY DEF Facts
    <3>2. \A x \in Amounts : x \in Nat
      OBVIOUS
    <3> QED BY <3>1, <3>2
  <2>3. CASE Post(<<r, "">>, FundingLegs(txns[r].recipient, facts))
    <3>1. Moves(txns[r].recipient, facts.netAmount, facts.netAmount, 0, 0)
      BY <2>1, <2>3, FundingMoves
    <3>2. \A v \in Wallets : balance'[v] >= 0 \/ balance'[v] >= balance[v]
      BY <2>1, <2>2, <3>1, DebtPosts
    <3> QED BY <1>1, <3>2, DebtRests
  <2>4. CASE Post(<<r, "">>, FundingLegs(Suspense, facts))
    <3>1. Moves(txns[r].recipient, 0, facts.netAmount, 0, facts.netAmount)
      BY <2>1, <2>4, HoldMoves
    <3>2. \A v \in Wallets : balance'[v] >= 0 \/ balance'[v] >= balance[v]
      BY <2>1, <3>1, <1>a DEF Moves
    <3> QED BY <1>1, <3>2, DebtRests
  <2> QED BY <1>2, <1>3, <2>3, <2>4 DEF PostFunding, HoldFunding, PostNothing
<1> QED BY <1>2, <1>3
        DEF FundingStep, CreatePendingFunding, SetFundingCheckoutUrl,
            MarkFundingTransactionFailed, PostNothing

LEMMA DebtRefund ==
  ASSUME TypeOK, TypeOK', WellFormedRows, DebtsAreChargebacks,
         NEW r \in References, RefundStep(r)
  PROVE  DebtsAreChargebacks'
<1> USE LedgerAssumption
<1>a. txns \in [References -> Row] /\ \A w \in Wallets : balance[w] \in Int
  BY AccountsDiffer DEF TypeOK
<1>1. CASE UNCHANGED <<txns, disputes, balance>>
  BY <1>1 DEF DebtsAreChargebacks, Standing
<1>2. ASSUME NEW n \in DOMAIN attempts[r], NEW reported \in Amounts, SettleRefund(r, n, reported)
      PROVE  DebtsAreChargebacks'
  <2>1. /\ txns[r].recipient \in Wallets /\ disputes' = disputes
        /\ txns[r].type = "funding" /\ txns'[r].type = "funding"
        /\ \A q \in References \ {r} : txns'[q] = txns[q]
    BY <1>2, <1>a DEF SettleRefund, IsHeldFunding, WellFormedRows, Row
  <2>2. PICK amount \in Nat : amount = txns[r].amount
    BY <1>a DEF Row
  <2>3. Moves(txns[r].recipient, 0, -amount, 0, -amount)
    BY <1>2, <2>1, <2>2, RefundMoves DEF SettleRefund
  <2>4. \A v \in Wallets : balance'[v] >= 0 \/ balance'[v] >= balance[v]
    BY <2>1, <2>3, DebtPosts
  <2> QED BY <2>1, <2>4, DebtRests
<1> QED BY <1>1, <1>2 DEF RefundStep, StartRefundAttempt, FailRefund, PostNothing

\* What a transfer does to the wallets.
Shifts(s, t, amount) ==
  \A v \in Wallets : balance'[v] = IF v = s THEN balance[v] - (amount + TransferFee)
                                   ELSE IF v = t THEN balance[v] + amount ELSE balance[v]

\* A posted transfer does it.
LEMMA TransferShifts ==
  ASSUME TypeOK, NEW s \in Wallets, NEW t \in Wallets, s # t, NEW amount \in Nat, NEW k,
         Post(k, TransferLegs(s, t, amount))
  PROVE  Shifts(s, t, amount)
BY TransferMoves DEF Shifts

LEMMA DebtPayment ==
  ASSUME TypeOK, TypeOK', WellFormedRows, DebtsAreChargebacks,
         NEW r \in References, PaymentStep(r)
  PROVE  DebtsAreChargebacks'
<1> USE LedgerAssumption
<1>a. txns \in [References -> Row] /\ \A w \in Wallets : balance[w] \in Int
  BY AccountsDiffer DEF TypeOK
<1>1. /\ disputes' = disputes /\ \A q \in References \ {r} : txns'[q] = txns[q]
      /\ txns[r].type # "chargeback" /\ txns'[r].type # "chargeback"
  <2> DEFINE Kept == /\ disputes' = disputes /\ \A q \in References \ {r} : txns'[q] = txns[q]
                     /\ txns[r].type # "chargeback" /\ txns'[r].type # "chargeback"
  <2>1. ASSUME NEW s, NEW t, NEW amount, PostTransfer(r, s, t, amount)
        PROVE  Kept
    BY <2>1, <1>a DEF PostTransfer, Unused, NoRow
  <2>2. ASSUME NEW w, NEW amount, PostWithdrawal(r, w, amount)
        PROVE  Kept
    BY <2>2, <1>a DEF PostWithdrawal, Unused, NoRow
  <2>3. CASE ReverseWithdrawal(r)
    BY <2>3, <1>a DEF ReverseWithdrawal, IsPending, Row
  <2>4. ASSUME NEW reported, CompleteWithdrawal(r, reported)
        PROVE  Kept
    BY <2>4, <1>a DEF CompleteWithdrawal, IsPending, Row
  <2> QED BY <2>1, <2>2, <2>3, <2>4 DEF PaymentStep
<1>2. SUFFICES \A v \in Wallets : balance'[v] >= 0 \/ balance'[v] >= balance[v]
  BY <1>1, DebtRests
<1>3. ASSUME NEW s \in Wallets, NEW t \in Wallets, NEW amount \in Amounts,
             PostTransfer(r, s, t, amount)
      PROVE  \A v \in Wallets : balance'[v] >= 0 \/ balance'[v] >= balance[v]
  <2>0. \A x \in Amounts : x \in Nat
    OBVIOUS
  <2>a. amount \in Nat
    BY <2>0
  <2>b. s # t /\ balance[s] >= amount + TransferFee /\ Post(<<r, "">>, TransferLegs(s, t, amount))
    BY <1>3, Zenon DEF PostTransfer, HasFunds
  <2>1. amount \in Nat /\ s # t /\ balance[s] >= amount + TransferFee
    BY <2>a, <2>b
  <2>2. \A v \in Wallets : balance'[v] =
          IF v = s THEN balance[v] - (amount + TransferFee)
          ELSE IF v = t THEN balance[v] + amount ELSE balance[v]
    <3>1. Shifts(s, t, amount)
      BY <2>a, <2>b, TransferShifts
    <3> QED BY <3>1 DEF Shifts
  <2> QED BY <2>1, <2>2, <1>a
<1>4. ASSUME NEW w \in Wallets, NEW amount \in Amounts, PostWithdrawal(r, w, amount)
      PROVE  \A v \in Wallets : balance'[v] >= 0 \/ balance'[v] >= balance[v]
  <2>0. \A x \in Amounts : x \in Nat
    OBVIOUS
  <2>a. amount \in Nat /\ balance[w] >= amount + (WithdrawalFee + PayoutFee)
    <3>1. amount \in Nat
      BY <2>0
    <3> QED BY <1>4, <3>1, Zenon DEF PostWithdrawal, HasFunds
  <2>1. amount \in Nat /\ balance[w] >= WalletDebit(amount)
    BY <2>a, <1>a DEF WalletDebit
  <2>2. Moves(w, -WalletDebit(amount), -FloatCredit(amount), WithdrawalFee, 0)
    BY <1>4, <2>1, WithdrawalMoves DEF PostWithdrawal
  <2>3. -WalletDebit(amount) \in Int /\ balance[w] + (-WalletDebit(amount)) >= 0
    BY <2>1, <1>a DEF WalletDebit
  <2> QED BY <2>2, <2>3, DebtPosts
<1>5. CASE ReverseWithdrawal(r)
  <2> DEFINE amount == txns[r].amount
             w == txns[r].sender
  <2>1. amount \in Nat /\ w \in Wallets
    BY <1>5, <1>a DEF ReverseWithdrawal, IsPending, WellFormedRows, Row
  <2>2. Post(<<r, "-reversal">>, ReversalLegs(w, amount))
    BY <1>5 DEF ReverseWithdrawal
  <2> HIDE DEF amount, w
  <2>3. Moves(w, WalletDebit(amount), FloatCredit(amount), -WithdrawalFee, 0)
    BY <2>1, <2>2, ReversalMoves
  <2>4. WalletDebit(amount) \in Int /\ WalletDebit(amount) >= 0
    BY <2>1 DEF WalletDebit
  <2> QED BY <2>1, <2>3, <2>4, DebtPosts
<1>6. CASE balance' = balance
  BY <1>6, <1>a
<1> QED BY <1>3, <1>4, <1>5, <1>6 DEF PaymentStep, CompleteWithdrawal, PostNothing

LEMMA DebtDispute ==
  ASSUME TypeOK, TypeOK', WellFormedRows, DebtsAreChargebacks,
         NEW r \in References, DisputeStep(r)
  PROVE  DebtsAreChargebacks'
<1> USE LedgerAssumption
<1>a. /\ txns \in [References -> Row] /\ \A w \in Wallets : balance[w] \in Int
      /\ disputes \in [References -> {"none", "open", "upheld", "resolved"}]
  BY AccountsDiffer DEF TypeOK
<1>1. ASSUME NEW o \in References, NEW amount \in Amounts, RecordChargeback(r, o, amount)
      PROVE  DebtsAreChargebacks'
  <2> DEFINE row == [NoRow EXCEPT !.type = "chargeback", !.status = "completed",
                                  !.amount = amount, !.sender = txns[o].recipient,
                                  !.reverses = o]
             v == txns[o].recipient
  <2>1. /\ amount \in Nat /\ v \in Wallets
        /\ txns[r].type = "none" /\ txns[o].type = "funding"
    BY <1>1 DEF RecordChargeback, Unused, WellFormedRows
  <2>2. row.type = "chargeback" /\ row.amount = amount /\ row.sender = v
    BY DEF NoRow
  <2>3. /\ txns' = [txns EXCEPT ![r] = row, ![o].status = "disputed"]
        /\ disputes' = [disputes EXCEPT ![r] = "open"]
        /\ Post(<<r, "">>, ChargebackLegs(v, amount))
    BY <1>1 DEF RecordChargeback
  <2> HIDE DEF row, v
  <2>4. Moves(v, -amount, -amount, 0, 0)
    BY <2>1, <2>3, ChargebackMoves
  <2>5. txns'[r] = row /\ disputes'[r] = "open" /\ txns'[o].type = "funding"
    BY <2>1, <2>3, <1>a DEF Row
  <2>6. \A q \in References \ {r, o} : txns'[q] = txns[q] /\ disputes'[q] = disputes[q]
    BY <2>3, <1>a
  <2>7. \A q \in References \ {r}, w \in Wallets :
          Stands(txns'[q], disputes'[q], w) = Stands(txns[q], disputes[q], w)
    BY <2>1, <2>5, <2>6 DEF Stands
  <2>8. \A w \in Wallets : /\ Stands(txns[r], disputes[r], w) = 0
                           /\ Stands(txns'[r], disputes'[r], w) = IF w = v THEN amount ELSE 0
    BY <2>1, <2>2, <2>5 DEF Stands
  <2>9. \A w \in Wallets : balance'[w] + Stands(txns'[r], disputes'[r], w)
                             >= balance[w] + Stands(txns[r], disputes[r], w)
    BY <2>1, <2>4, <2>8, <1>a DEF Moves
  <2> QED BY <2>7, <2>9, DebtMoves
<1>2. ASSUME NEW st \in {"upheld", "resolved"},
             disputes[r] = "open", disputes' = [disputes EXCEPT ![r] = st],
             txns' = [txns EXCEPT ![txns[r].reverses].status =
                        AggregateStatus(txns[r].reverses, disputes')]
      PROVE  /\ \A q \in References \ {r}, w \in Wallets :
                  Stands(txns'[q], disputes'[q], w) = Stands(txns[q], disputes[q], w)
             /\ txns'[r] = txns[r] /\ txns[r].type = "chargeback" /\ txns[r].sender \in Wallets
             /\ disputes'[r] = st
  <2> DEFINE o == txns[r].reverses
  <2>1. txns[r].type = "chargeback"
    BY <1>2 DEF WellFormedRows
  <2>2. o \in References /\ txns[r].sender \in Wallets /\ txns[o].type = "funding"
    BY <2>1 DEF WellFormedRows
  <2>3. txns'[o].type = "funding" /\ \A q \in References \ {o} : txns'[q] = txns[q]
    BY <1>2, <2>1, <2>2, <1>a DEF Row
  <2>4. disputes'[r] = st /\ \A q \in References \ {r} : disputes'[q] = disputes[q]
    BY <1>2, <1>a
  <2> HIDE DEF o
  <2> QED BY <2>1, <2>2, <2>3, <2>4 DEF Stands
<1>3. CASE ResolveAsUpheld(r)
  <2>1. /\ \A q \in References \ {r}, w \in Wallets :
             Stands(txns'[q], disputes'[q], w) = Stands(txns[q], disputes[q], w)
        /\ txns'[r] = txns[r]
        /\ disputes'[r] = "upheld" /\ disputes[r] = "open" /\ balance' = balance
    BY <1>2, <1>3 DEF ResolveAsUpheld, PostNothing
  <2>2. \A w \in Wallets : /\ Stands(txns'[r], disputes'[r], w) = Stands(txns[r], disputes[r], w)
                           /\ Stands(txns[r], disputes[r], w) \in Int
    BY <2>1, <1>a DEF Stands, Row
  <2>3. \A w \in Wallets : balance'[w] + Stands(txns'[r], disputes'[r], w)
                             >= balance[w] + Stands(txns[r], disputes[r], w)
    BY <2>1, <2>2, <1>a
  <2> QED BY <2>1, <2>3, DebtMoves
<1>4. ASSUME NEW amount \in Amounts, ResolveInCliqpaysFavor(r, amount)
      PROVE  DebtsAreChargebacks'
  <2> DEFINE v == txns[r].sender
  <2>1. /\ \A q \in References \ {r}, w \in Wallets :
             Stands(txns'[q], disputes'[q], w) = Stands(txns[q], disputes[q], w)
        /\ txns'[r] = txns[r] /\ txns[r].type = "chargeback" /\ v \in Wallets
        /\ disputes'[r] = "resolved" /\ disputes[r] = "open"
    BY <1>2, <1>4 DEF ResolveInCliqpaysFavor
  <2>2. amount = txns[r].amount /\ amount \in Nat /\ Post(<<r, "-resolved">>, ResolutionLegs(v, amount))
    BY <1>4 DEF ResolveInCliqpaysFavor
  <2>3. \A w \in Wallets : /\ Stands(txns[r], disputes[r], w) = IF w = v THEN amount ELSE 0
                           /\ Stands(txns'[r], disputes'[r], w) = 0
    BY <2>1, <2>2 DEF Stands
  <2> HIDE DEF v
  <2>4. Moves(v, amount, amount, 0, 0)
    BY <2>1, <2>2, ResolutionMoves
  <2>5. \A w \in Wallets : balance'[w] + Stands(txns'[r], disputes'[r], w)
                             >= balance[w] + Stands(txns[r], disputes[r], w)
    BY <2>2, <2>3, <2>4, <1>a DEF Moves
  <2> QED BY <2>1, <2>5, DebtMoves
<1> QED BY <1>1, <1>3, <1>4 DEF DisputeStep

\* A wallet owes no more than the chargebacks that stand against it, in any
\* order of fundings, payments, reversals, chargebacks and resolutions.
THEOREM DebtsCovered == Spec => []DebtsAreChargebacks
<1>1. Init => DebtsAreChargebacks
  <2> SUFFICES ASSUME Init, NEW w \in Wallets PROVE balance[w] + Standing(w) >= 0
    BY DEF DebtsAreChargebacks
  <2>1. balance[w] = 0
    BY AccountsDiffer DEF Init
  <2>2. [r \in References |->
           IF txns[r].type = "chargeback" /\ txns[r].sender = w /\ disputes[r] # "resolved"
           THEN txns[r].amount ELSE 0] = [i \in 1..NumReferences |-> 0]
    BY DEF Init, NoRow, References
  <2>3. Standing(w) = 0
    BY <2>2, SumZero, LedgerAssumption DEF Standing
  <2> QED BY <2>1, <2>3
<1>2. TypeOK /\ WellFormedRows /\ DebtsAreChargebacks /\ [Next]_vars => DebtsAreChargebacks'
  <2> SUFFICES ASSUME TypeOK, WellFormedRows, DebtsAreChargebacks, [Next]_vars
               PROVE  DebtsAreChargebacks'
    OBVIOUS
  <2>1. TypeOK'
    BY TypeStep
  <2>2. CASE UNCHANGED vars
    BY <2>2 DEF vars, DebtsAreChargebacks, Standing
  <2> QED BY <2>1, <2>2, DebtFunding, DebtRefund, DebtPayment, DebtDispute DEF Next
<1> QED BY <1>1, <1>2, TypeCorrect, RowsCorrect, PTL DEF Spec

-----------------------------------------------------------------------------
(* Suspense *)

\* What row r of a table holds in suspense.
HeldIn(table, r) == IF table[r].status = "held" THEN table[r].amount ELSE 0

\* A step that changes what one row holds, and suspense by as much, keeps
\* suspense equal to the held fundings.
LEMMA SuspenseMoves ==
  ASSUME TypeOK, TypeOK', SuspenseBacksHeldFundings, NEW r \in References,
         \A q \in References \ {r} : HeldIn(txns', q) = HeldIn(txns, q),
         balance'[Suspense] = balance[Suspense] + (HeldIn(txns', r) - HeldIn(txns, r))
  PROVE  SuspenseBacksHeldFundings'
<1> USE LedgerAssumption
<1> DEFINE f == [q \in References |-> HeldIn(txns, q)]
           g == [q \in References |-> HeldIn(txns', q)]
<1>0. \A q \in References : HeldIn(txns, q) \in Int /\ HeldIn(txns', q) \in Int
  BY DEF TypeOK, Row, HeldIn
<1>1. f \in [1..NumReferences -> Int] /\ g \in [1..NumReferences -> Int]
  BY <1>0 DEF References
<1>2. \A q \in 1..NumReferences : q # r => g[q] = f[q]
  BY DEF References
<1>3. balance[Suspense] = SumUpTo(f, NumReferences)
  BY DEF SuspenseBacksHeldFundings, HeldIn
<1>4. SuspenseBacksHeldFundings' <=> balance'[Suspense] = SumUpTo(g, NumReferences)
  BY DEF SuspenseBacksHeldFundings, HeldIn
<1>5. balance'[Suspense] = balance[Suspense] + (g[r] - f[r])
  OBVIOUS
<1> HIDE DEF f, g
<1>6. SumUpTo(g, NumReferences) = SumUpTo(f, NumReferences) + (g[r] - f[r])
  BY <1>1, <1>2, SumChange DEF References
<1> QED BY <1>3, <1>4, <1>5, <1>6

\* A step that changes neither what any row holds nor suspense keeps it too.
LEMMA SuspenseRests ==
  ASSUME TypeOK, TypeOK', SuspenseBacksHeldFundings, NEW r \in References,
         \A q \in References : HeldIn(txns', q) = HeldIn(txns, q),
         balance'[Suspense] = balance[Suspense]
  PROVE  SuspenseBacksHeldFundings'
<1>1. balance[Suspense] \in Int /\ HeldIn(txns, r) \in Int
  BY AccountsDiffer DEF TypeOK, Row, HeldIn
<1>2. balance'[Suspense] = balance[Suspense] + (HeldIn(txns', r) - HeldIn(txns, r))
  BY <1>1
<1> QED BY <1>2, SuspenseMoves

\* Every step keeps suspense equal to the held fundings.
LEMMA SuspenseStep ==
  ASSUME TypeOK, WellFormedRows, SuspenseBacksHeldFundings, [Next]_vars
  PROVE  SuspenseBacksHeldFundings'
<1> USE LedgerAssumption
<1>a. TypeOK'
  BY TypeStep
<1>b. txns \in [References -> Row] /\ balance[Suspense] \in Int
  BY AccountsDiffer DEF TypeOK
<1>c. \A q \in References : txns[q].amount \in Nat
  BY DEF TypeOK, Row
<1>1. CASE UNCHANGED vars
  BY <1>1 DEF vars, SuspenseBacksHeldFundings
<1>2. ASSUME NEW r \in References, FundingStep(r)
      PROVE  SuspenseBacksHeldFundings'
  <2>1. \A q \in References \ {r} : HeldIn(txns', q) = HeldIn(txns, q)
    BY <1>2, <1>b DEF FundingStep, CreatePendingFunding, SetFundingCheckoutUrl,
          MarkFundingTransactionFailed, PostFunding, HoldFunding, HeldIn
  <2>2. ASSUME HeldIn(txns', r) = HeldIn(txns, r), balance'[Suspense] = balance[Suspense]
        PROVE  SuspenseBacksHeldFundings'
    BY <2>1, <2>2, <1>a, SuspenseRests
  <2>3. ASSUME NEW w \in Wallets, NEW amount \in Amounts, CreatePendingFunding(r, w, amount)
        PROVE  SuspenseBacksHeldFundings'
    <3>1. txns'[r].status = "pending" /\ txns[r].type = "none" /\ balance' = balance
      BY <2>3, <1>b DEF CreatePendingFunding, Unused, NoRow, PostNothing
    <3>2. txns[r].status # "held"
      BY <3>1 DEF WellFormedRows
    <3> QED BY <2>2, <3>1, <3>2 DEF HeldIn
  <2>4. CASE SetFundingCheckoutUrl(r)
    <3>1. txns'[r].status = txns[r].status /\ txns'[r].amount = txns[r].amount /\ balance' = balance
      BY <2>4, <1>b DEF SetFundingCheckoutUrl, PostNothing, Row
    <3> QED BY <2>2, <3>1 DEF HeldIn
  <2>5. CASE MarkFundingTransactionFailed(r)
    <3>1. txns'[r].status = "failed" /\ balance' = balance
      BY <2>5, <1>b DEF MarkFundingTransactionFailed, PostNothing, Row
    <3>2. txns[r].status # "held"
      BY <2>5 DEF MarkFundingTransactionFailed, WellFormedRows
    <3> QED BY <2>2, <3>1, <3>2 DEF HeldIn
  <2>6. ASSUME NEW facts \in Facts, PostFunding(r, facts)
        PROVE  SuspenseBacksHeldFundings'
    <3>1. txns[r].status = "pending" /\ txns[r].recipient \in Wallets
      BY <2>6 DEF PostFunding, IsPending, WellFormedRows
    <3>2. txns'[r].status # "held"
      <4>1. ClaimedStatus(r, facts, "completed") # "held"
        BY DEF ClaimedStatus
      <4> QED BY <2>6, <4>1, <1>b DEF PostFunding, Row
    <3>3. balance'[Suspense] = balance[Suspense]
      <4>1. CASE Post(<<r, "">>, FundingLegs(txns[r].recipient, facts))
        <5>1. Moves(txns[r].recipient, facts.netAmount, facts.netAmount, 0, 0)
          BY <3>1, <4>1, FundingMoves
        <5> QED BY <5>1, <1>b DEF Moves
      <4> QED BY <2>6, <4>1 DEF PostFunding, PostNothing
    <3> QED BY <2>2, <3>1, <3>2, <3>3 DEF HeldIn
  <2>7. ASSUME NEW facts \in Facts, HoldFunding(r, facts)
        PROVE  SuspenseBacksHeldFundings'
    <3>1. txns[r].status = "pending" /\ txns[r].recipient \in Wallets
      BY <2>7 DEF HoldFunding, IsPending, WellFormedRows
    <3>2. HeldIn(txns, r) = 0
      BY <3>1 DEF HeldIn
    <3>3. /\ txns'[r].status = ClaimedStatus(r, facts, "held")
          /\ txns'[r].amount = txns[r].amount
      BY <2>7, <1>b DEF HoldFunding, Row
    <3>4. CASE ClaimedStatus(r, facts, "held") = "held"
      <4>1. facts.netAmount = txns[r].amount
        BY <3>4 DEF ClaimedStatus
      <4>2. Moves(txns[r].recipient, 0, facts.netAmount, 0, facts.netAmount)
        BY <2>7, <3>1, <3>4, HoldMoves DEF HoldFunding
      <4>3. balance'[Suspense] = balance[Suspense] + txns[r].amount
        BY <4>1, <4>2 DEF Moves
      <4>4. HeldIn(txns', r) = txns[r].amount
        BY <3>3, <3>4 DEF HeldIn
      <4>5. balance'[Suspense] = balance[Suspense] + (HeldIn(txns', r) - HeldIn(txns, r))
        BY <3>2, <4>3, <4>4, <1>c
      <4> QED BY <2>1, <4>5, <1>a, SuspenseMoves
    <3>5. CASE ClaimedStatus(r, facts, "held") # "held"
      <4>1. HeldIn(txns', r) = 0
        BY <3>3, <3>5 DEF HeldIn
      <4>2. balance' = balance
        BY <2>7, <3>5 DEF HoldFunding, PostNothing
      <4> QED BY <2>2, <3>2, <4>1, <4>2
    <3> QED BY <3>4, <3>5
  <2> QED BY <1>2, <2>3, <2>4, <2>5, <2>6, <2>7 DEF FundingStep
<1>3. ASSUME NEW r \in References, RefundStep(r)
      PROVE  SuspenseBacksHeldFundings'
  <2>1. CASE UNCHANGED <<txns, balance>>
    BY <2>1 DEF SuspenseBacksHeldFundings
  <2>2. ASSUME NEW n \in DOMAIN attempts[r], NEW reported \in Amounts, SettleRefund(r, n, reported)
        PROVE  SuspenseBacksHeldFundings'
    <3>1. txns[r].status = "held" /\ txns[r].recipient \in Wallets
      BY <2>2 DEF SettleRefund, IsHeldFunding, WellFormedRows
    <3>2. /\ \A q \in References \ {r} : HeldIn(txns', q) = HeldIn(txns, q)
          /\ HeldIn(txns', r) = 0
      BY <2>2, <1>b DEF SettleRefund, Row, HeldIn
    <3>3. PICK amount \in Nat : amount = txns[r].amount
      BY <1>c
    <3>4. HeldIn(txns, r) = amount
      BY <3>1, <3>3 DEF HeldIn
    <3>5. Moves(txns[r].recipient, 0, -amount, 0, -amount)
      BY <2>2, <3>1, <3>3, RefundMoves DEF SettleRefund
    <3>6. balance'[Suspense] = balance[Suspense] + (HeldIn(txns', r) - HeldIn(txns, r))
      BY <3>2, <3>4, <3>5, <1>b DEF Moves
    <3> QED BY <3>2, <3>6, <1>a, SuspenseMoves
  <2> QED BY <1>3, <2>1, <2>2 DEF RefundStep, StartRefundAttempt, FailRefund, PostNothing
<1>4. ASSUME NEW r \in References, PaymentStep(r)
      PROVE  SuspenseBacksHeldFundings'
  <2>1. \A q \in References \ {r} : HeldIn(txns', q) = HeldIn(txns, q)
    BY <1>4, <1>b DEF PaymentStep, PostTransfer, PostWithdrawal, ReverseWithdrawal,
          CompleteWithdrawal, HeldIn
  <2>2. HeldIn(txns, r) = 0 /\ HeldIn(txns', r) = 0
    <3>1. txns[r].type \in {"none", "withdrawal"} /\ txns'[r].status # "held"
      <4> DEFINE Shape == txns[r].type \in {"none", "withdrawal"} /\ txns'[r].status # "held"
      <4>1. ASSUME NEW s \in Wallets, NEW t \in Wallets, NEW amount \in Amounts,
                   PostTransfer(r, s, t, amount)
            PROVE  Shape
        BY <4>1, <1>b DEF PostTransfer, Unused, NoRow
      <4>2. ASSUME NEW w \in Wallets, NEW amount \in Amounts, PostWithdrawal(r, w, amount)
            PROVE  Shape
        BY <4>2, <1>b DEF PostWithdrawal, Unused, NoRow
      <4>3. CASE ReverseWithdrawal(r)
        BY <4>3, <1>b DEF ReverseWithdrawal, IsPending, Row
      <4>4. ASSUME NEW reported \in Amounts, CompleteWithdrawal(r, reported)
            PROVE  Shape
        BY <4>4, <1>b DEF CompleteWithdrawal, IsPending, Row
      <4> QED BY <1>4, <4>1, <4>2, <4>3, <4>4 DEF PaymentStep
    <3>2. txns[r].status # "held"
      BY <3>1 DEF WellFormedRows
    <3> QED BY <3>1, <3>2 DEF HeldIn
  <2>3. balance'[Suspense] = balance[Suspense]
    <3>1. ASSUME NEW s \in Wallets, NEW t \in Wallets, NEW amount \in Amounts,
                 PostTransfer(r, s, t, amount)
          PROVE  balance'[Suspense] = balance[Suspense]
      BY <3>1, TransferMoves DEF PostTransfer
    <3>2. ASSUME NEW w \in Wallets, NEW amount \in Amounts, PostWithdrawal(r, w, amount)
          PROVE  balance'[Suspense] = balance[Suspense]
      <4>1. Moves(w, -WalletDebit(amount), -FloatCredit(amount), WithdrawalFee, 0)
        BY <3>2, WithdrawalMoves DEF PostWithdrawal
      <4> QED BY <4>1, <1>b DEF Moves
    <3>3. CASE ReverseWithdrawal(r)
      <4> DEFINE amount == txns[r].amount
                 w == txns[r].sender
      <4>1. amount \in Nat /\ w \in Wallets
        BY <3>3, <1>c DEF ReverseWithdrawal, IsPending, WellFormedRows
      <4>2. Post(<<r, "-reversal">>, ReversalLegs(w, amount))
        BY <3>3 DEF ReverseWithdrawal
      <4> HIDE DEF amount, w
      <4>3. Moves(w, WalletDebit(amount), FloatCredit(amount), -WithdrawalFee, 0)
        BY <4>1, <4>2, ReversalMoves
      <4> QED BY <4>3, <1>b DEF Moves
    <3> QED BY <1>4, <3>1, <3>2, <3>3 DEF PaymentStep, CompleteWithdrawal, PostNothing
  <2>4. \A q \in References : HeldIn(txns', q) = HeldIn(txns, q)
    BY <2>1, <2>2
  <2> QED BY <2>3, <2>4, <1>a, SuspenseRests
<1>5. ASSUME NEW r \in References, DisputeStep(r)
      PROVE  SuspenseBacksHeldFundings'
  <2>1. ASSUME NEW o \in References, NEW amount \in Amounts, RecordChargeback(r, o, amount)
        PROVE  SuspenseBacksHeldFundings'
    <3> DEFINE row == [NoRow EXCEPT !.type = "chargeback", !.status = "completed",
                                    !.amount = amount, !.sender = txns[o].recipient,
                                    !.reverses = o]
    <3>1. /\ amount \in Nat /\ txns[o].recipient \in Wallets
          /\ txns[r].type = "none" /\ txns[o].type = "funding" /\ txns[o].status # "held"
      BY <2>1 DEF RecordChargeback, Unused, ChargebackableWhenRead, WellFormedRows
    <3>2. txns[r].status # "held" /\ row.status = "completed"
      BY <3>1 DEF WellFormedRows, NoRow
    <3>3. txns' = [txns EXCEPT ![r] = row, ![o].status = "disputed"]
      BY <2>1 DEF RecordChargeback
    <3>4. Moves(txns[o].recipient, -amount, -amount, 0, 0)
      BY <2>1, <3>1, ChargebackMoves DEF RecordChargeback
    <3> HIDE DEF row
    <3>5. txns'[r] = row /\ txns'[o].status = "disputed"
      BY <3>1, <3>3, <1>b DEF Row
    <3>6. \A q \in References \ {r, o} : txns'[q] = txns[q]
      BY <3>3, <1>b
    <3>7. \A q \in References : HeldIn(txns', q) = HeldIn(txns, q)
      BY <3>1, <3>2, <3>5, <3>6 DEF HeldIn
    <3>8. balance'[Suspense] = balance[Suspense]
      BY <3>4, <1>b DEF Moves
    <3> QED BY <3>7, <3>8, <1>a, SuspenseRests
  <2>2. ASSUME disputes[r] = "open",
               txns' = [txns EXCEPT ![txns[r].reverses].status =
                          AggregateStatus(txns[r].reverses, disputes')],
               balance'[Suspense] = balance[Suspense]
        PROVE  SuspenseBacksHeldFundings'
    <3> DEFINE o == txns[r].reverses
    <3>1. o \in References /\ txns[o].status \in Credited
      BY <2>2 DEF WellFormedRows
    <3>2. AggregateStatus(o, disputes') # "held"
      BY DEF AggregateStatus
    <3>3. txns'[o].status # "held" /\ \A q \in References \ {o} : txns'[q] = txns[q]
      BY <2>2, <3>1, <3>2, <1>b DEF Row
    <3> HIDE DEF o
    <3>4. \A q \in References : HeldIn(txns', q) = HeldIn(txns, q)
      BY <3>1, <3>3 DEF HeldIn, Credited
    <3> QED BY <2>2, <3>4, <1>a, SuspenseRests
  <2>3. CASE ResolveAsUpheld(r)
    BY <2>2, <2>3 DEF ResolveAsUpheld, PostNothing
  <2>4. ASSUME NEW amount \in Amounts, ResolveInCliqpaysFavor(r, amount)
        PROVE  SuspenseBacksHeldFundings'
    <3>1. amount \in Nat /\ txns[r].sender \in Wallets
      BY <2>4 DEF ResolveInCliqpaysFavor, WellFormedRows
    <3>2. Moves(txns[r].sender, amount, amount, 0, 0)
      BY <2>4, <3>1, ResolutionMoves DEF ResolveInCliqpaysFavor
    <3>3. balance'[Suspense] = balance[Suspense]
      BY <3>2, <1>b DEF Moves
    <3> QED BY <2>2, <2>4, <3>3 DEF ResolveInCliqpaysFavor
  <2> QED BY <1>5, <2>1, <2>3, <2>4 DEF DisputeStep
<1> QED BY <1>1, <1>2, <1>3, <1>4, <1>5 DEF Next

\* Suspense is always the money of the held fundings and nothing else.
THEOREM SuspenseBacked == Spec => []SuspenseBacksHeldFundings
<1>1. Init => SuspenseBacksHeldFundings
  <2> SUFFICES ASSUME Init PROVE SuspenseBacksHeldFundings
    OBVIOUS
  <2>1. [r \in References |-> IF txns[r].status = "held" THEN txns[r].amount ELSE 0]
          = [i \in 1..NumReferences |-> 0]
    BY DEF Init, References, NoRow
  <2>2. balance[Suspense] = 0
    BY AccountsDiffer DEF Init
  <2> QED BY <2>1, <2>2, SumZero, LedgerAssumption DEF SuspenseBacksHeldFundings
<1>2. /\ TypeOK /\ WellFormedRows /\ SuspenseBacksHeldFundings /\ [Next]_vars
      => SuspenseBacksHeldFundings'
  BY SuspenseStep
<1> QED BY <1>1, <1>2, TypeCorrect, RowsCorrect, PTL DEF Spec

-----------------------------------------------------------------------------
(* What the statuses say of the wallets *)

\* Contribution of a row with a dispute in status d to wallet w, by type.
Worth(row, d, w) ==
  IF row.type = "funding"
  THEN IF row.recipient = w /\ row.status \in Credited THEN row.amount ELSE 0
  ELSE IF row.type = "p2p_transfer"
  THEN IF row.sender = w THEN -(row.amount + TransferFee)
       ELSE IF row.recipient = w THEN row.amount ELSE 0
  ELSE IF row.type = "withdrawal"
  THEN IF row.sender = w /\ row.status # "reversed" THEN -WalletDebit(row.amount) ELSE 0
  ELSE IF row.type = "chargeback"
  THEN IF row.sender = w /\ d # "resolved" THEN -row.amount ELSE 0
  ELSE 0

\* The cases of Contribution are disjoint when nobody pays himself.
LEMMA CasesOfWorth ==
  ASSUME NEW row \in Row, NEW d, NEW w,
         row.type = "p2p_transfer" => row.sender # row.recipient
  PROVE  Worth(row, d, w) =
    CASE row.type = "funding" /\ row.recipient = w /\ row.status \in Credited -> row.amount
      [] row.type = "p2p_transfer" /\ row.sender = w -> -(row.amount + TransferFee)
      [] row.type = "p2p_transfer" /\ row.recipient = w -> row.amount
      [] row.type = "withdrawal" /\ row.sender = w /\ row.status # "reversed"
           -> -WalletDebit(row.amount)
      [] row.type = "chargeback" /\ row.sender = w /\ d # "resolved" -> -row.amount
      [] OTHER -> 0
BY DEF Worth

\* A contribution is an integer.
LEMMA WorthInt ==
  ASSUME NEW row \in Row, NEW d, NEW w
  PROVE  Worth(row, d, w) \in Int
BY LedgerAssumption DEF Worth, Row, WalletDebit

\* A step that moves each wallet by what one row's contribution changes, and
\* changes no other contribution, keeps the statuses true.
LEMMA ExplainMoves ==
  ASSUME TypeOK, TypeOK', WellFormedRows, WellFormedRows', StatusesExplainWallets,
         NEW r \in References,
         \A q \in References \ {r}, w \in Wallets :
           Worth(txns'[q], disputes'[q], w) = Worth(txns[q], disputes[q], w),
         \A w \in Wallets :
           balance'[w] = balance[w] + (Worth(txns'[r], disputes'[r], w)
                                         - Worth(txns[r], disputes[r], w))
  PROVE  StatusesExplainWallets'
<1> USE LedgerAssumption
<1>1. \A q \in References : txns[q] \in Row /\ txns'[q] \in Row
  BY DEF TypeOK
<1>2. \A q \in References, w \in Wallets : Contribution(q, w) = Worth(txns[q], disputes[q], w)
  <2> SUFFICES ASSUME NEW q \in References, NEW w \in Wallets
               PROVE  Contribution(q, w) = Worth(txns[q], disputes[q], w)
    OBVIOUS
  <2>1. txns[q].type = "p2p_transfer" => txns[q].sender # txns[q].recipient
    BY DEF WellFormedRows
  <2> QED BY <1>1, <2>1, CasesOfWorth DEF Contribution
<1>3. \A q \in References, w \in Wallets :
        Contribution(q, w)' = Worth(txns'[q], disputes'[q], w)
  <2> SUFFICES ASSUME NEW q \in References, NEW w \in Wallets
               PROVE  Contribution(q, w)' = Worth(txns'[q], disputes'[q], w)
    OBVIOUS
  <2>1. txns'[q].type = "p2p_transfer" => txns'[q].sender # txns'[q].recipient
    BY DEF WellFormedRows
  <2> QED BY <1>1, <2>1, CasesOfWorth DEF Contribution
<1>4. SUFFICES ASSUME NEW w \in Wallets
               PROVE  balance'[w] = SumUpTo([q \in References |-> Contribution(q, w)'], NumReferences)
  BY DEF StatusesExplainWallets
<1> DEFINE f == [q \in References |-> Worth(txns[q], disputes[q], w)]
           g == [q \in References |-> Worth(txns'[q], disputes'[q], w)]
<1>5. f \in [1..NumReferences -> Int] /\ g \in [1..NumReferences -> Int]
  BY <1>1, WorthInt DEF References
<1>6. \A q \in 1..NumReferences : q # r => g[q] = f[q]
  BY DEF References
<1>7. balance[w] = SumUpTo(f, NumReferences)
  <2>1. f = [q \in References |-> Contribution(q, w)]
    BY <1>2
  <2> QED BY <2>1 DEF StatusesExplainWallets
<1>8. g = [q \in References |-> Contribution(q, w)']
  BY <1>3
<1>9. balance'[w] = balance[w] + (g[r] - f[r])
  OBVIOUS
<1> HIDE DEF f, g
<1>10. SumUpTo(g, NumReferences) = SumUpTo(f, NumReferences) + (g[r] - f[r])
  BY <1>5, <1>6, SumChange DEF References
<1> QED BY <1>7, <1>8, <1>9, <1>10

\* A step that changes no contribution and moves no wallet keeps them true too.
LEMMA ExplainRests ==
  ASSUME TypeOK, TypeOK', WellFormedRows, WellFormedRows', StatusesExplainWallets,
         NEW r \in References,
         \A q \in References, w \in Wallets :
           Worth(txns'[q], disputes'[q], w) = Worth(txns[q], disputes[q], w),
         \A w \in Wallets : balance'[w] = balance[w]
  PROVE  StatusesExplainWallets'
<1>1. \A w \in Wallets : balance[w] \in Int /\ Worth(txns[r], disputes[r], w) \in Int
  BY AccountsDiffer, WorthInt DEF TypeOK
<1>2. \A w \in Wallets :
        balance'[w] = balance[w] + (Worth(txns'[r], disputes'[r], w)
                                      - Worth(txns[r], disputes[r], w))
  BY <1>1
<1> QED BY <1>2, ExplainMoves

\* The steps of a funding keep the statuses true.
LEMMA ExplainFunding ==
  ASSUME TypeOK, TypeOK', WellFormedRows, WellFormedRows', StatusesExplainWallets,
         NEW r \in References, FundingStep(r)
  PROVE  StatusesExplainWallets'
<1> USE LedgerAssumption
<1>a. txns \in [References -> Row] /\ \A w \in Wallets : balance[w] \in Int
  BY AccountsDiffer DEF TypeOK
<1>b. disputes' = disputes /\ \A q \in References \ {r} : txns'[q] = txns[q]
  BY <1>a DEF FundingStep, CreatePendingFunding, SetFundingCheckoutUrl,
        MarkFundingTransactionFailed, PostFunding, HoldFunding
<1>c. ASSUME \A w \in Wallets : Worth(txns'[r], disputes'[r], w) = Worth(txns[r], disputes[r], w),
             \A w \in Wallets : balance'[w] = balance[w]
      PROVE  StatusesExplainWallets'
  BY <1>b, <1>c, ExplainRests
<1>1. ASSUME NEW w \in Wallets, NEW amount \in Amounts, CreatePendingFunding(r, w, amount)
      PROVE  StatusesExplainWallets'
  <2>1. /\ txns[r].type = "none" /\ txns'[r].type = "funding" /\ txns'[r].status = "pending"
        /\ balance' = balance
    BY <1>1, <1>a DEF CreatePendingFunding, Unused, NoRow, PostNothing
  <2> QED BY <1>c, <2>1 DEF Worth, Credited
<1>2. CASE SetFundingCheckoutUrl(r)
  <2>1. /\ txns'[r].type = txns[r].type /\ txns'[r].status = txns[r].status
        /\ txns'[r].amount = txns[r].amount /\ txns'[r].sender = txns[r].sender
        /\ txns'[r].recipient = txns[r].recipient
        /\ balance' = balance
    BY <1>2, <1>a DEF SetFundingCheckoutUrl, PostNothing, Row
  <2>2. \A w \in Wallets : Worth(txns'[r], disputes'[r], w) = Worth(txns[r], disputes[r], w)
    BY <2>1, <1>b DEF Worth
  <2> QED BY <1>c, <2>1, <2>2
<1>3. CASE MarkFundingTransactionFailed(r)
  <2>1. /\ txns[r].type = "funding" /\ txns'[r].type = "funding" /\ txns'[r].status = "failed"
        /\ balance' = balance /\ txns[r].checkout = "null"
    BY <1>3, <1>a DEF MarkFundingTransactionFailed, PostNothing, Row
  <2>2. txns[r].status \notin Credited
    BY <2>1 DEF WellFormedRows, Credited
  <2> QED BY <1>c, <2>1, <2>2 DEF Worth, Credited
<1>4. ASSUME NEW facts \in Facts, PostFunding(r, facts)
      PROVE  StatusesExplainWallets'
  <2>1. txns[r].type = "funding" /\ txns[r].status = "pending" /\ txns[r].recipient \in Wallets
    BY <1>4 DEF PostFunding, IsPending, WellFormedRows
  <2>2. /\ txns'[r].status = ClaimedStatus(r, facts, "completed") /\ txns'[r].type = "funding"
        /\ txns'[r].amount = txns[r].amount /\ txns'[r].recipient = txns[r].recipient
    BY <1>4, <2>1, <1>a DEF PostFunding, Row
  <2>3. CASE ClaimedStatus(r, facts, "completed") = "completed"
    <3> DEFINE amount == txns[r].amount
               v == txns[r].recipient
    <3>1. facts.netAmount = amount /\ amount \in Nat
      BY <2>3, <1>a DEF ClaimedStatus, Row
    <3>2. Moves(v, amount, amount, 0, 0)
      BY <1>4, <2>1, <2>3, <3>1, FundingMoves DEF PostFunding
    <3>3. \A w \in Wallets : /\ Worth(txns[r], disputes[r], w) = 0
                             /\ Worth(txns'[r], disputes'[r], w) = IF w = v THEN amount ELSE 0
      BY <2>1, <2>2, <2>3 DEF Worth, Credited
    <3> HIDE DEF amount, v
    <3>4. \A w \in Wallets :
            balance'[w] = balance[w] + (Worth(txns'[r], disputes'[r], w)
                                          - Worth(txns[r], disputes[r], w))
      BY <3>1, <3>2, <3>3, <1>a DEF Moves
    <3> QED BY <3>4, <1>b, ExplainMoves
  <2>4. CASE ClaimedStatus(r, facts, "completed") # "completed"
    <3>1. balance' = balance /\ txns'[r].status = "failed"
      BY <1>4, <2>2, <2>4 DEF PostFunding, PostNothing, ClaimedStatus
    <3> QED BY <1>c, <2>1, <2>2, <3>1 DEF Worth, Credited
  <2> QED BY <2>3, <2>4
<1>5. ASSUME NEW facts \in Facts, HoldFunding(r, facts)
      PROVE  StatusesExplainWallets'
  <2>1. txns[r].type = "funding" /\ txns[r].status = "pending" /\ txns[r].recipient \in Wallets
    BY <1>5 DEF HoldFunding, IsPending, WellFormedRows
  <2>2. txns'[r].status = ClaimedStatus(r, facts, "held") /\ txns'[r].type = "funding"
    BY <1>5, <2>1, <1>a DEF HoldFunding, Row
  <2>3. txns'[r].status \in {"held", "failed"}
    BY <2>2 DEF ClaimedStatus
  <2>4. \A w \in Wallets : balance'[w] = balance[w]
    <3>1. CASE Post(<<r, "">>, FundingLegs(Suspense, facts))
      <4>1. Moves(txns[r].recipient, 0, facts.netAmount, 0, facts.netAmount)
        BY <2>1, <3>1, HoldMoves
      <4> QED BY <4>1, <1>a DEF Moves
    <3> QED BY <1>5, <3>1 DEF HoldFunding, PostNothing
  <2> QED BY <1>c, <2>1, <2>2, <2>3, <2>4 DEF Worth, Credited
<1> QED BY <1>1, <1>2, <1>3, <1>4, <1>5 DEF FundingStep

\* Transfers and withdrawals keep the statuses true.
LEMMA ExplainPayment ==
  ASSUME TypeOK, TypeOK', WellFormedRows, WellFormedRows', StatusesExplainWallets,
         NEW r \in References, PaymentStep(r)
  PROVE  StatusesExplainWallets'
<1> USE LedgerAssumption
<1>a. txns \in [References -> Row] /\ \A w \in Wallets : balance[w] \in Int
  BY AccountsDiffer DEF TypeOK
<1>b. disputes' = disputes /\ \A q \in References \ {r} : txns'[q] = txns[q]
  BY <1>a DEF PaymentStep, PostTransfer, PostWithdrawal, ReverseWithdrawal, CompleteWithdrawal
<1>c. ASSUME \A w \in Wallets :
               balance'[w] = balance[w] + (Worth(txns'[r], disputes'[r], w)
                                             - Worth(txns[r], disputes[r], w))
      PROVE  StatusesExplainWallets'
  BY <1>b, <1>c, ExplainMoves
<1>1. ASSUME NEW s \in Wallets, NEW t \in Wallets, NEW amount \in Amounts,
             PostTransfer(r, s, t, amount)
      PROVE  StatusesExplainWallets'
  <2>1. /\ txns[r].type = "none" /\ s # t
        /\ txns'[r].type = "p2p_transfer" /\ txns'[r].amount = amount
        /\ txns'[r].sender = s /\ txns'[r].recipient = t
    BY <1>1, <1>a DEF PostTransfer, Unused, NoRow
  <2>2. Shifts(s, t, amount)
    BY <1>1, <2>1, TransferShifts DEF PostTransfer
  <2>3. \A v \in Wallets :
          /\ Worth(txns[r], disputes[r], v) = 0
          /\ Worth(txns'[r], disputes'[r], v) =
               IF v = s THEN -(amount + TransferFee) ELSE IF v = t THEN amount ELSE 0
    BY <2>1 DEF Worth
  <2>4. amount \in Nat
    OBVIOUS
  <2> QED BY <1>a, <1>c, <2>2, <2>3, <2>4 DEF Shifts
<1>2. ASSUME NEW w \in Wallets, NEW amount \in Amounts, PostWithdrawal(r, w, amount)
      PROVE  StatusesExplainWallets'
  <2>1. /\ txns[r].type = "none"
        /\ txns'[r].type = "withdrawal" /\ txns'[r].status = "pending"
        /\ txns'[r].amount = amount /\ txns'[r].sender = w
    BY <1>2, <1>a DEF PostWithdrawal, Unused, NoRow
  <2>2. Moves(w, -WalletDebit(amount), -FloatCredit(amount), WithdrawalFee, 0)
    BY <1>2, WithdrawalMoves DEF PostWithdrawal
  <2>3. \A v \in Wallets :
          /\ Worth(txns[r], disputes[r], v) = 0
          /\ Worth(txns'[r], disputes'[r], v) = IF v = w THEN -WalletDebit(amount) ELSE 0
    BY <2>1 DEF Worth
  <2>4. WalletDebit(amount) \in Nat
    BY DEF WalletDebit
  <2> QED BY <1>a, <1>c, <2>2, <2>3, <2>4 DEF Moves
<1>3. CASE ReverseWithdrawal(r)
  <2> DEFINE amount == txns[r].amount
             w == txns[r].sender
  <2>1. /\ txns[r].type = "withdrawal" /\ txns[r].status = "pending"
        /\ txns'[r].type = "withdrawal" /\ txns'[r].status = "reversed"
        /\ amount \in Nat /\ w \in Wallets
    BY <1>3, <1>a DEF ReverseWithdrawal, IsPending, WellFormedRows, Row
  <2>2. Post(<<r, "-reversal">>, ReversalLegs(w, amount))
    BY <1>3 DEF ReverseWithdrawal
  <2>3. \A v \in Wallets :
          /\ Worth(txns[r], disputes[r], v) = IF v = w THEN -WalletDebit(amount) ELSE 0
          /\ Worth(txns'[r], disputes'[r], v) = 0
    BY <2>1 DEF Worth
  <2> HIDE DEF amount, w
  <2>4. Moves(w, WalletDebit(amount), FloatCredit(amount), -WithdrawalFee, 0)
    BY <2>1, <2>2, ReversalMoves
  <2>5. WalletDebit(amount) \in Nat
    BY <2>1 DEF WalletDebit
  <2> QED BY <1>a, <1>c, <2>3, <2>4, <2>5 DEF Moves
<1>4. ASSUME NEW reported \in Amounts, CompleteWithdrawal(r, reported)
      PROVE  StatusesExplainWallets'
  <2>1. /\ txns[r].type = "withdrawal" /\ txns[r].status = "pending"
        /\ txns'[r].type = "withdrawal" /\ txns'[r].status = "completed"
        /\ txns'[r].amount = txns[r].amount /\ txns'[r].sender = txns[r].sender
        /\ balance' = balance
    BY <1>4, <1>a DEF CompleteWithdrawal, IsPending, PostNothing, Row
  <2>2. \A w \in Wallets : Worth(txns'[r], disputes'[r], w) = Worth(txns[r], disputes[r], w)
    BY <2>1 DEF Worth
  <2> QED BY <1>b, <2>1, <2>2, ExplainRests
<1> QED BY <1>1, <1>2, <1>3, <1>4 DEF PaymentStep

\* So do chargebacks and their resolutions: the dispute's status decides
\* whether the chargeback still counts, the funding counts all along.
LEMMA ExplainDispute ==
  ASSUME TypeOK, TypeOK', WellFormedRows, WellFormedRows', StatusesExplainWallets,
         NEW r \in References, DisputeStep(r)
  PROVE  StatusesExplainWallets'
<1> USE LedgerAssumption
<1>a. /\ txns \in [References -> Row] /\ \A w \in Wallets : balance[w] \in Int
      /\ disputes \in [References -> {"none", "open", "upheld", "resolved"}]
  BY AccountsDiffer DEF TypeOK
<1>1. ASSUME NEW o \in References, NEW amount \in Amounts, RecordChargeback(r, o, amount)
      PROVE  StatusesExplainWallets'
  <2> DEFINE row == [NoRow EXCEPT !.type = "chargeback", !.status = "completed",
                                  !.amount = amount, !.sender = txns[o].recipient,
                                  !.reverses = o]
             v == txns[o].recipient
  <2>1. /\ amount \in Nat /\ v \in Wallets
        /\ txns[r].type = "none" /\ txns[o].type = "funding" /\ txns[o].status \in Credited
    BY <1>1 DEF RecordChargeback, Unused, ChargebackableWhenRead, Credited, WellFormedRows
  <2>2. row.type = "chargeback" /\ row.amount = amount /\ row.sender = v
    BY DEF NoRow
  <2>3. /\ txns' = [txns EXCEPT ![r] = row, ![o].status = "disputed"]
        /\ disputes' = [disputes EXCEPT ![r] = "open"]
        /\ Post(<<r, "">>, ChargebackLegs(v, amount))
    BY <1>1 DEF RecordChargeback
  <2> HIDE DEF row, v
  <2>4. Moves(v, -amount, -amount, 0, 0)
    BY <2>1, <2>3, ChargebackMoves
  <2>5. /\ txns'[r] = row /\ disputes'[r] = "open" /\ o # r
        /\ txns'[o].type = "funding" /\ txns'[o].status = "disputed"
        /\ txns'[o].amount = txns[o].amount /\ txns'[o].recipient = txns[o].recipient
    BY <2>1, <2>3, <1>a DEF Row
  <2>6. \A q \in References \ {r, o} : txns'[q] = txns[q] /\ disputes'[q] = disputes[q]
    BY <2>3, <1>a
  <2>7. \A w \in Wallets : Worth(txns'[o], disputes'[o], w) = Worth(txns[o], disputes[o], w)
    BY <2>1, <2>5 DEF Worth, Credited
  <2>8. \A q \in References \ {r}, w \in Wallets :
          Worth(txns'[q], disputes'[q], w) = Worth(txns[q], disputes[q], w)
    BY <2>6, <2>7
  <2>9. \A w \in Wallets : /\ Worth(txns[r], disputes[r], w) = 0
                           /\ Worth(txns'[r], disputes'[r], w) = IF w = v THEN -amount ELSE 0
    BY <2>1, <2>2, <2>5 DEF Worth
  <2>10. \A w \in Wallets :
           balance'[w] = balance[w] + (Worth(txns'[r], disputes'[r], w)
                                         - Worth(txns[r], disputes[r], w))
    BY <2>1, <2>4, <2>9, <1>a DEF Moves
  <2> QED BY <2>8, <2>10, ExplainMoves
<1>2. ASSUME NEW st \in {"upheld", "resolved"},
             disputes[r] = "open", disputes' = [disputes EXCEPT ![r] = st],
             txns' = [txns EXCEPT ![txns[r].reverses].status =
                        AggregateStatus(txns[r].reverses, disputes')]
      PROVE  /\ \A q \in References \ {r}, w \in Wallets :
                  Worth(txns'[q], disputes'[q], w) = Worth(txns[q], disputes[q], w)
             /\ txns'[r] = txns[r] /\ txns[r].type = "chargeback" /\ txns[r].sender \in Wallets
             /\ disputes'[r] = st
  <2> DEFINE o == txns[r].reverses
  <2>1. /\ txns[r].type = "chargeback" /\ o \in References /\ o # r
        /\ txns[r].sender \in Wallets
        /\ txns[o].type = "funding" /\ txns[o].status \in Credited
    <3>1. txns[r].type = "chargeback"
      BY <1>2 DEF WellFormedRows
    <3>2. /\ o \in References /\ txns[r].sender \in Wallets
          /\ txns[o].type = "funding" /\ txns[o].status \in Credited
      BY <3>1 DEF WellFormedRows
    <3> QED BY <3>1, <3>2
  <2>2. AggregateStatus(o, disputes') \in Credited
    BY DEF AggregateStatus, Credited
  <2>3. /\ txns'[o].type = "funding" /\ txns'[o].status \in Credited
        /\ txns'[o].amount = txns[o].amount /\ txns'[o].recipient = txns[o].recipient
        /\ \A q \in References \ {o} : txns'[q] = txns[q]
    BY <1>2, <2>1, <2>2, <1>a DEF Row
  <2>4. disputes'[r] = st /\ \A q \in References \ {r} : disputes'[q] = disputes[q]
    BY <1>2, <1>a
  <2> HIDE DEF o
  <2>5. \A w \in Wallets : Worth(txns'[o], disputes'[o], w) = Worth(txns[o], disputes[o], w)
    BY <2>1, <2>3 DEF Worth
  <2> QED BY <2>1, <2>3, <2>4, <2>5
<1>3. CASE ResolveAsUpheld(r)
  <2>1. /\ \A q \in References \ {r}, w \in Wallets :
             Worth(txns'[q], disputes'[q], w) = Worth(txns[q], disputes[q], w)
        /\ txns'[r] = txns[r] /\ txns[r].type = "chargeback"
        /\ disputes'[r] = "upheld" /\ disputes[r] = "open" /\ balance' = balance
    BY <1>2, <1>3 DEF ResolveAsUpheld, PostNothing
  <2>2. \A w \in Wallets : Worth(txns'[r], disputes'[r], w) = Worth(txns[r], disputes[r], w)
    BY <2>1 DEF Worth
  <2> QED BY <2>1, <2>2, ExplainRests
<1>4. ASSUME NEW amount \in Amounts, ResolveInCliqpaysFavor(r, amount)
      PROVE  StatusesExplainWallets'
  <2> DEFINE v == txns[r].sender
  <2>1. /\ \A q \in References \ {r}, w \in Wallets :
             Worth(txns'[q], disputes'[q], w) = Worth(txns[q], disputes[q], w)
        /\ txns'[r] = txns[r] /\ txns[r].type = "chargeback" /\ v \in Wallets
        /\ disputes'[r] = "resolved" /\ disputes[r] = "open"
    BY <1>2, <1>4 DEF ResolveInCliqpaysFavor
  <2>2. amount = txns[r].amount /\ amount \in Nat /\ Post(<<r, "-resolved">>, ResolutionLegs(v, amount))
    BY <1>4 DEF ResolveInCliqpaysFavor
  <2>3. \A w \in Wallets : /\ Worth(txns[r], disputes[r], w) = IF w = v THEN -amount ELSE 0
                           /\ Worth(txns'[r], disputes'[r], w) = 0
    BY <2>1, <2>2 DEF Worth
  <2> HIDE DEF v
  <2>4. Moves(v, amount, amount, 0, 0)
    BY <2>1, <2>2, ResolutionMoves
  <2>5. \A w \in Wallets :
          balance'[w] = balance[w] + (Worth(txns'[r], disputes'[r], w)
                                        - Worth(txns[r], disputes[r], w))
    BY <2>2, <2>3, <2>4, <1>a DEF Moves
  <2> QED BY <2>1, <2>5, ExplainMoves
<1> QED BY <1>1, <1>3, <1>4 DEF DisputeStep

\* Every step keeps the statuses true of the wallets.
LEMMA ExplainStep ==
  ASSUME TypeOK, WellFormedRows, StatusesExplainWallets, [Next]_vars
  PROVE  StatusesExplainWallets'
<1> USE LedgerAssumption
<1>a. TypeOK' /\ WellFormedRows'
  BY TypeStep, RowsStep
<1>b. txns \in [References -> Row] /\ \A w \in Wallets : balance[w] \in Int
  BY AccountsDiffer DEF TypeOK
<1>1. CASE UNCHANGED <<txns, disputes, balance>>
  BY <1>1 DEF StatusesExplainWallets, Contribution
<1>2. ASSUME NEW r \in References, NEW n \in DOMAIN attempts[r], NEW reported \in Amounts,
             SettleRefund(r, n, reported)
      PROVE  StatusesExplainWallets'
  <2>1. /\ txns[r].type = "funding" /\ txns[r].status = "held" /\ txns[r].recipient \in Wallets
        /\ txns'[r].type = "funding" /\ txns'[r].status = "refunded"
        /\ disputes' = disputes /\ \A q \in References \ {r} : txns'[q] = txns[q]
    BY <1>2, <1>b DEF SettleRefund, IsHeldFunding, WellFormedRows, Row
  <2>2. PICK amount \in Nat : amount = txns[r].amount
    BY <1>b DEF Row
  <2>3. Moves(txns[r].recipient, 0, -amount, 0, -amount)
    BY <1>2, <2>1, <2>2, RefundMoves DEF SettleRefund
  <2>4. \A w \in Wallets : balance'[w] = balance[w]
    BY <2>3, <1>b DEF Moves
  <2>5. \A w \in Wallets : Worth(txns'[r], disputes'[r], w) = Worth(txns[r], disputes[r], w)
    BY <2>1 DEF Worth, Credited
  <2> QED BY <2>1, <2>4, <2>5, <1>a, ExplainRests
<1>3. ASSUME NEW r \in References, RefundStep(r)
      PROVE  StatusesExplainWallets'
  BY <1>1, <1>2, <1>3 DEF RefundStep, StartRefundAttempt, FailRefund, PostNothing
<1> QED BY <1>1, <1>3, <1>a, ExplainFunding, ExplainPayment, ExplainDispute DEF Next, vars

\* Every wallet always holds what the statuses of its transactions and
\* disputes say.
THEOREM StatusesTrue == Spec => []StatusesExplainWallets
<1>1. Init => StatusesExplainWallets
  <2> SUFFICES ASSUME Init, NEW w \in Wallets
               PROVE  balance[w] = SumUpTo([r \in References |-> Contribution(r, w)], NumReferences)
    BY DEF StatusesExplainWallets
  <2>1. \A r \in References : txns[r].type = "none"
    BY DEF Init, NoRow
  <2>2. [r \in References |-> Contribution(r, w)] = [i \in 1..NumReferences |-> 0]
    BY <2>1 DEF Contribution, References
  <2>3. balance[w] = 0
    BY AccountsDiffer DEF Init
  <2> QED BY <2>2, <2>3, SumZero, LedgerAssumption
<1>2. TypeOK /\ WellFormedRows /\ StatusesExplainWallets /\ [Next]_vars => StatusesExplainWallets'
  BY ExplainStep
<1> QED BY <1>1, <1>2, TypeCorrect, RowsCorrect, PTL DEF Spec

-----------------------------------------------------------------------------
(* Entries and cached balances *)

\* Each leg but that of fee_expense adds to the cache what its entry means.
LegsTrue(legs) ==
  \A a \in Accounts \ {FeeExpense} : a \in DOMAIN legs =>
    legs[a] \in LegType /\ legs[a].change = Effect(a, legs[a])

\* Posting such legs keeps the history of an account true.
LEMMA PostHistory ==
  ASSUME TypeOK, NEW t, NEW legs, Post(t, legs), LegsTrue(legs),
         NEW a \in Accounts \ {FeeExpense}, HistoryExplainsBalance(a)
  PROVE  HistoryExplainsBalance(a)'
<1> DEFINE h == entries[a]
           k == entries'[a]
<1>a. /\ h \in Seq(Entry) /\ Len(h) \in Nat /\ DOMAIN h = 1..Len(h)
      /\ balance[a] \in Int
  BY DEF TypeOK
<1>b. /\ \A i \in 1..Len(h) : h[i].runningBalance =
           (IF i = 1 THEN 0 ELSE h[i - 1].runningBalance) + Effect(a, h[i])
      /\ balance[a] = IF h = <<>> THEN 0 ELSE h[Len(h)].runningBalance
  BY <1>a DEF HistoryExplainsBalance
<1>1. CASE a \notin DOMAIN legs
  <2>1. entries'[a] = entries[a] /\ balance'[a] = balance[a]
    BY <1>1 DEF Post
  <2> QED BY <2>1 DEF HistoryExplainsBalance
<1>2. CASE a \in DOMAIN legs
  <2> DEFINE e == [transaction    |-> t,
                   direction      |-> legs[a].direction,
                   amount         |-> legs[a].amount,
                   runningBalance |-> balance[a] + legs[a].change]
  <2>1. k = Append(h, e) /\ balance'[a] = balance[a] + legs[a].change
    BY <1>2 DEF Post
  <2>2. legs[a].change \in Int /\ legs[a].change = Effect(a, legs[a])
    BY <1>2 DEF LegsTrue, LegType
  <2>3. e.runningBalance = balance[a] + Effect(a, e) /\ e.runningBalance = balance'[a]
    BY <2>1, <2>2 DEF Effect
  <2> HIDE DEF e
  <2>4. /\ DOMAIN k = 1..(Len(h) + 1) /\ Len(k) = Len(h) + 1 /\ k # <<>>
        /\ \A i \in 1..Len(h) : k[i] = h[i]
        /\ k[Len(h) + 1] = e
    BY <2>1, <1>a
  <2> HIDE DEF h, k
  <2>5. ASSUME NEW i \in 1..(Len(h) + 1)
        PROVE  k[i].runningBalance =
                 (IF i = 1 THEN 0 ELSE k[i - 1].runningBalance) + Effect(a, k[i])
    <3>1. CASE i \in 1..Len(h)
      <4>1. k[i] = h[i] /\ (i # 1 => k[i - 1] = h[i - 1])
        BY <2>4, <3>1, <1>a
      <4> QED BY <3>1, <4>1, <1>b
    <3>2. CASE i = Len(h) + 1 /\ Len(h) = 0
      <4>1. h = <<>>
        BY <3>2, <1>a
      <4> QED BY <2>3, <2>4, <3>2, <4>1, <1>b
    <3>3. CASE i = Len(h) + 1 /\ Len(h) # 0
      <4>1. h # <<>> /\ k[i - 1] = h[Len(h)] /\ i # 1
        BY <2>4, <3>3, <1>a
      <4> QED BY <2>3, <2>4, <3>3, <4>1, <1>b
    <3> QED BY <3>1, <3>2, <3>3, <1>a
  <2>6. balance'[a] = k[Len(k)].runningBalance
    BY <2>3, <2>4
  <2>7. HistoryExplainsBalance(a)' <=>
          /\ \A i \in DOMAIN k : k[i].runningBalance =
               (IF i = 1 THEN 0 ELSE k[i - 1].runningBalance) + Effect(a, k[i])
          /\ balance'[a] = IF k = <<>> THEN 0 ELSE k[Len(k)].runningBalance
    BY DEF HistoryExplainsBalance, k
  <2> QED BY <2>4, <2>5, <2>6, <2>7
<1> QED BY <1>1, <1>2

\* Posting true legs keeps every account's history but that of fee_expense.
LEMMA PostCache ==
  ASSUME TypeOK, CacheMatchesEntries, NEW t, NEW legs, Post(t, legs), LegsTrue(legs)
  PROVE  CacheMatchesEntries'
BY PostHistory DEF CacheMatchesEntries

\* The legs of a funding, credited or held, are true.
LEMMA TrueFundingLegs ==
  ASSUME NEW w \in Wallets \cup {Suspense}, NEW facts \in Facts
  PROVE  LegsTrue(FundingLegs(w, facts))
<1> DEFINE legs == FundingLegs(w, facts)
<1>1. facts.netAmount \in Nat /\ facts.providerFee \in Nat
  <2>1. facts.netAmount \in Amounts /\ facts.providerFee \in ChargeFees
    BY DEF Facts
  <2> QED BY <2>1, LedgerAssumption
<1>2. \A a \in DOMAIN legs : legs[a] \in LegType
  BY FundingLegsTyped
<1>3. ASSUME NEW a \in Accounts \ {FeeExpense}, a \in DOMAIN legs
      PROVE  legs[a].change = Effect(a, legs[a])
  BY <1>1, <1>3, AccountsDiffer DEF FundingLegs, Leg, Effect, DebitNormal, SystemAccounts
<1> QED BY <1>2, <1>3 DEF LegsTrue

\* Those of a settled refund are true.
LEMMA TrueRefundLegs ==
  ASSUME NEW amount \in Nat
  PROVE  LegsTrue(RefundLegs(amount))
<1> DEFINE legs == RefundLegs(amount)
<1>1. \A a \in DOMAIN legs : legs[a] \in LegType
  BY RefundLegsTyped
<1>2. ASSUME NEW a \in Accounts \ {FeeExpense}, a \in DOMAIN legs
      PROVE  legs[a].change = Effect(a, legs[a])
  BY <1>2, AccountsDiffer, LedgerAssumption
     DEF RefundLegs, Leg, Effect, DebitNormal, SystemAccounts
<1> QED BY <1>1, <1>2 DEF LegsTrue

\* Those of a transfer are true.
LEMMA TrueTransferLegs ==
  ASSUME NEW s \in Wallets, NEW t \in Wallets, s # t, NEW amount \in Nat
  PROVE  LegsTrue(TransferLegs(s, t, amount))
<1> DEFINE legs == TransferLegs(s, t, amount)
<1>1. \A a \in DOMAIN legs : legs[a] \in LegType
  BY TransferLegsTyped
<1>2. ASSUME NEW a \in Accounts \ {FeeExpense}, a \in DOMAIN legs
      PROVE  legs[a].change = Effect(a, legs[a])
  BY <1>2, AccountsDiffer, LedgerAssumption
     DEF TransferLegs, Leg, Effect, DebitNormal, SystemAccounts
<1> QED BY <1>1, <1>2 DEF LegsTrue

\* Those of a withdrawal are true.
LEMMA TrueWithdrawalLegs ==
  ASSUME NEW w \in Wallets, NEW amount \in Nat
  PROVE  LegsTrue(WithdrawalLegs(w, amount))
<1> DEFINE legs == WithdrawalLegs(w, amount)
<1>1. \A a \in DOMAIN legs : legs[a] \in LegType
  BY WithdrawalLegsTyped
<1>2. ASSUME NEW a \in Accounts \ {FeeExpense}, a \in DOMAIN legs
      PROVE  legs[a].change = Effect(a, legs[a])
  BY <1>2, AccountsDiffer, LedgerAssumption
     DEF WithdrawalLegs, Leg, Effect, DebitNormal, SystemAccounts, WalletDebit, FloatCredit
<1> QED BY <1>1, <1>2 DEF LegsTrue

\* Those of a reversal are true, but for the leg of fee_expense.
LEMMA TrueReversalLegs ==
  ASSUME NEW w \in Wallets, NEW amount \in Nat
  PROVE  LegsTrue(ReversalLegs(w, amount))
<1> DEFINE legs == ReversalLegs(w, amount)
<1>1. \A a \in DOMAIN legs : legs[a] \in LegType
  BY ReversalLegsTyped
<1>2. ASSUME NEW a \in Accounts \ {FeeExpense}, a \in DOMAIN legs
      PROVE  legs[a].change = Effect(a, legs[a])
  BY <1>2, AccountsDiffer, LedgerAssumption
     DEF ReversalLegs, Leg, Effect, DebitNormal, SystemAccounts, WalletDebit, FloatCredit
<1> QED BY <1>1, <1>2 DEF LegsTrue

\* Those of a chargeback are true.
LEMMA TrueChargebackLegs ==
  ASSUME NEW w \in Wallets, NEW amount \in Nat
  PROVE  LegsTrue(ChargebackLegs(w, amount))
<1> DEFINE legs == ChargebackLegs(w, amount)
<1>1. \A a \in DOMAIN legs : legs[a] \in LegType
  BY ChargebackLegsTyped
<1>2. ASSUME NEW a \in Accounts \ {FeeExpense}, a \in DOMAIN legs
      PROVE  legs[a].change = Effect(a, legs[a])
  BY <1>2, AccountsDiffer, LedgerAssumption
     DEF ChargebackLegs, Leg, Effect, DebitNormal, SystemAccounts
<1> QED BY <1>1, <1>2 DEF LegsTrue

\* Those of a resolution are true.
LEMMA TrueResolutionLegs ==
  ASSUME NEW w \in Wallets, NEW amount \in Nat
  PROVE  LegsTrue(ResolutionLegs(w, amount))
<1> DEFINE legs == ResolutionLegs(w, amount)
<1>1. \A a \in DOMAIN legs : legs[a] \in LegType
  BY ResolutionLegsTyped
<1>2. ASSUME NEW a \in Accounts \ {FeeExpense}, a \in DOMAIN legs
      PROVE  legs[a].change = Effect(a, legs[a])
  BY <1>2, AccountsDiffer, LedgerAssumption
     DEF ResolutionLegs, Leg, Effect, DebitNormal, SystemAccounts
<1> QED BY <1>1, <1>2 DEF LegsTrue

\* Every step keeps cached balances and entries in agreement.
LEMMA CacheStep ==
  ASSUME TypeOK, WellFormedRows, CacheMatchesEntries, [Next]_vars
  PROVE  CacheMatchesEntries'
<1> USE LedgerAssumption
<1>a. CASE UNCHANGED <<balance, entries>>
  BY <1>a DEF CacheMatchesEntries, HistoryExplainsBalance
<1>b. \A q \in References : txns[q].amount \in Nat
  BY DEF TypeOK, Row
<1>1. CASE UNCHANGED vars
  BY <1>1, <1>a DEF vars
<1>2. ASSUME NEW r \in References, FundingStep(r)
      PROVE  CacheMatchesEntries'
  <2>1. ASSUME NEW facts \in Facts, PostFunding(r, facts)
        PROVE  CacheMatchesEntries'
    <3>1. txns[r].recipient \in Wallets
      BY <2>1 DEF PostFunding, IsPending, WellFormedRows
    <3>2. LegsTrue(FundingLegs(txns[r].recipient, facts))
      BY <3>1, TrueFundingLegs
    <3> QED BY <2>1, <3>2, <1>a, PostCache DEF PostFunding, PostNothing
  <2>2. ASSUME NEW facts \in Facts, HoldFunding(r, facts)
        PROVE  CacheMatchesEntries'
    <3>1. LegsTrue(FundingLegs(Suspense, facts))
      BY TrueFundingLegs
    <3> QED BY <2>2, <3>1, <1>a, PostCache DEF HoldFunding, PostNothing
  <2> QED BY <1>2, <2>1, <2>2, <1>a
          DEF FundingStep, CreatePendingFunding, SetFundingCheckoutUrl,
              MarkFundingTransactionFailed, PostNothing
<1>3. ASSUME NEW r \in References, RefundStep(r)
      PROVE  CacheMatchesEntries'
  <2>1. ASSUME NEW n \in DOMAIN attempts[r], NEW reported \in Amounts, SettleRefund(r, n, reported)
        PROVE  CacheMatchesEntries'
    <3>1. LegsTrue(RefundLegs(txns[r].amount))
      BY <1>b, TrueRefundLegs
    <3> QED BY <2>1, <3>1, PostCache DEF SettleRefund
  <2> QED BY <1>3, <2>1, <1>a DEF RefundStep, StartRefundAttempt, FailRefund, PostNothing
<1>4. ASSUME NEW r \in References, PaymentStep(r)
      PROVE  CacheMatchesEntries'
  <2>1. ASSUME NEW s \in Wallets, NEW t \in Wallets, NEW amount \in Amounts,
               PostTransfer(r, s, t, amount)
        PROVE  CacheMatchesEntries'
    <3>1. LegsTrue(TransferLegs(s, t, amount))
      BY <2>1, TrueTransferLegs DEF PostTransfer
    <3> QED BY <2>1, <3>1, PostCache DEF PostTransfer
  <2>2. ASSUME NEW w \in Wallets, NEW amount \in Amounts, PostWithdrawal(r, w, amount)
        PROVE  CacheMatchesEntries'
    <3>1. LegsTrue(WithdrawalLegs(w, amount))
      BY TrueWithdrawalLegs
    <3> QED BY <2>2, <3>1, PostCache DEF PostWithdrawal
  <2>3. CASE ReverseWithdrawal(r)
    <3>1. txns[r].sender \in Wallets
      BY <2>3 DEF ReverseWithdrawal, IsPending, WellFormedRows
    <3>2. LegsTrue(ReversalLegs(txns[r].sender, txns[r].amount))
      BY <3>1, <1>b, TrueReversalLegs
    <3> QED BY <2>3, <3>2, PostCache DEF ReverseWithdrawal
  <2> QED BY <1>4, <2>1, <2>2, <2>3, <1>a DEF PaymentStep, CompleteWithdrawal, PostNothing
<1>5. ASSUME NEW r \in References, DisputeStep(r)
      PROVE  CacheMatchesEntries'
  <2>1. ASSUME NEW o \in References, NEW amount \in Amounts, RecordChargeback(r, o, amount)
        PROVE  CacheMatchesEntries'
    <3>1. txns[o].recipient \in Wallets
      BY <2>1 DEF RecordChargeback, WellFormedRows
    <3>2. LegsTrue(ChargebackLegs(txns[o].recipient, amount))
      BY <3>1, TrueChargebackLegs
    <3> QED BY <2>1, <3>2, PostCache DEF RecordChargeback
  <2>2. ASSUME NEW amount \in Amounts, ResolveInCliqpaysFavor(r, amount)
        PROVE  CacheMatchesEntries'
    <3>1. txns[r].sender \in Wallets
      BY <2>2 DEF ResolveInCliqpaysFavor, WellFormedRows
    <3>2. LegsTrue(ResolutionLegs(txns[r].sender, amount))
      BY <3>1, TrueResolutionLegs
    <3> QED BY <2>2, <3>2, PostCache DEF ResolveInCliqpaysFavor
  <2> QED BY <1>5, <2>1, <2>2, <1>a DEF DisputeStep, ResolveAsUpheld, PostNothing
<1> QED BY <1>1, <1>2, <1>3, <1>4, <1>5 DEF Next

\* The entries of every account but fee_expense always add up, one by one, to
\* its cached balance.
THEOREM CacheTrue == Spec => []CacheMatchesEntries
<1>1. Init => CacheMatchesEntries
  BY DEF Init, CacheMatchesEntries, HistoryExplainsBalance
<1>2. TypeOK /\ WellFormedRows /\ CacheMatchesEntries /\ [Next]_vars => CacheMatchesEntries'
  BY CacheStep
<1> QED BY <1>1, <1>2, TypeCorrect, RowsCorrect, PTL DEF Spec


(***************************************************************************)
(* The safety properties of KycVerification, for every number of users,    *)
(* calls and identification numbers, whatever the provider's registry      *)
(* holds.  What a call read before it went to the provider may be stale    *)
(* when it returns; the proof shows that the checks repeated under the     *)
(* lock, the attempt reserved before the provider is asked and the guarded *)
(* settling of a liveness job are enough.                                  *)
(***************************************************************************)

-----------------------------------------------------------------------------
(* The inductive invariant *)

Kinds == {"bvn", "nin"}
Names == {<<>>} \cup {Registry[n].name : n \in {m \in Numbers : Registry[m] # NotFound}}
Record == [bvn : Numbers \cup {None}, nin : Numbers \cup {None}, legalName : Names,
           liveness : BOOLEAN]
Request == [user : Users \cup {None}, number : Numbers \cup {None}, submit : BOOLEAN]
Step == {"new", "lookup", "persist", "job", "submit", "track", "apply", "done"}
Verdict == {None, "pending", "passed", "failed"}

\* The variables the properties depend on stay in their types.
KycTypeOK ==
  /\ record \in [Users -> Record]
  /\ tier \in [Users -> 0..3]
  /\ read \in [Users -> SUBSET (0..3)]
  /\ call \in [Calls -> Request]
  /\ pc \in [Calls -> Step]
  /\ attempt \in [Calls -> {None, "failed", "succeeded"}]
  /\ recent \in [Calls -> BOOLEAN]
  /\ missed \in [Calls -> BOOLEAN]
  /\ job \in [Calls -> Verdict]
  /\ verdict \in [Calls -> Verdict]

\* What the progress of call c says about its rows.
CallTrue(c) ==
  /\ At(c, "new") => attempt[c] = None
  /\ ~At(c, "new") => User(c) \in Users /\ Number(c) \in Numbers
  /\ At(c, "lookup") => attempt[c] = "failed"
  /\ At(c, "persist") => Registry[Number(c)] # NotFound
  /\ pc[c] \in {"new", "lookup", "persist", "job"} => job[c] = None
  /\ pc[c] \in {"new", "lookup", "persist", "job", "submit"} => verdict[c] = None
  /\ ~At(c, "done") => recent[c] /\ ~missed[c]
  /\ missed[c] => job[c] = None /\ (recent[c] => attempt[c] = "failed")

\* The attempts that count against user u: those reserved and not known to have
\* succeeded.
Counted(u, type) ==
  {c \in Calls : attempt[c] = "failed" /\ recent[c] /\ User(c) = u /\ Type(c) = type}

AttemptsBounded ==
  \A u \in Users, type \in Kinds :
    EarlierMisses[type] + Cardinality(Counted(u, type)) <= MaxFailedAttempts

\* No profile call carries a tier above what is proven, so none can give one.
TiersSound ==
  /\ TierEarned
  /\ \A u \in Users : \A t \in read[u] : t <= DeriveTier(record[u])

KycInv ==
  /\ KycTypeOK
  /\ \A c \in Calls : CallTrue(c)
  /\ RecordsAgree
  /\ TiersSound
  /\ AttemptsBounded

-----------------------------------------------------------------------------
(* The operators *)

\* Whether two identities match does not depend on which was verified first.
LEMMA MatchSymmetric ==
  ASSUME NEW a, NEW b, IdentitiesMatch(a, b) PROVE IdentitiesMatch(b, a)
BY DEF IdentitiesMatch, NamesMatch

\* A record that proves more is worth at least as high a tier.
LEMMA TierRises ==
  ASSUME NEW r, NEW s, r.bvn # None => s.bvn # None, r.nin # None => s.nin # None,
         r.liveness => s.liveness
  PROVE  DeriveTier(r) \in 0..3 /\ DeriveTier(s) \in 0..3 /\ DeriveTier(r) <= DeriveTier(s)
BY DEF DeriveTier

\* RecordsAgree, a record and a pair of records at a time.
OnePerson(r) ==
  /\ r.bvn # None /\ r.nin # None => IdentitiesMatch(Registry[r.bvn], Registry[r.nin])
  /\ r.bvn # None /\ Registry[r.bvn].name # <<>> => r.legalName = Registry[r.bvn].name

TwoPeople(r, s) == (r.bvn # None => s.bvn # r.bvn) /\ (r.nin # None => s.nin # r.nin)

LEMMA AgreeParts ==
  /\ RecordsAgree <=> \A u \in Users :
       OnePerson(record[u]) /\ \A v \in Users \ {u} : TwoPeople(record[u], record[v])
  /\ RecordsAgree' <=> \A u \in Users :
       OnePerson(record'[u]) /\ \A v \in Users \ {u} : TwoPeople(record'[u], record'[v])
BY DEF RecordsAgree, OnePerson, TwoPeople

-----------------------------------------------------------------------------
(* What a step leaves alone *)

\* Call c is the only one whose rows a step may write.
OnlyCall(c) ==
  \A d \in Calls \ {c} :
    /\ call'[d] = call[d] /\ pc'[d] = pc[d] /\ attempt'[d] = attempt[d]
    /\ recent'[d] = recent[d] /\ missed'[d] = missed[d]
    /\ job'[d] = job[d] /\ verdict'[d] = verdict[d]

\* A selfie that passed has passed for good, and for the same user.
StaysPassed(d) == verdict[d] = "passed" => verdict'[d] = "passed" /\ call'[d] = call[d]

\* The step makes no attempt count that did not.
CountsNoMore(d) ==
  attempt'[d] = "failed" /\ recent'[d] => attempt[d] = "failed" /\ recent[d] /\ call'[d] = call[d]

LEMMA OthersTrue ==
  ASSUME KycInv, NEW c \in Calls, OnlyCall(c), CallTrue(c)'
  PROVE  /\ \A d \in Calls : CallTrue(d)'
         /\ \A d \in Calls \ {c} : StaysPassed(d) /\ CountsNoMore(d)
<1>1. ASSUME NEW d \in Calls \ {c} PROVE CallTrue(d)'
  <2>1. CallTrue(d)
    BY DEF KycInv
  <2> QED
    BY <2>1 DEF OnlyCall, CallTrue, At, User, Number
<1>2. \A d \in Calls \ {c} : StaysPassed(d) /\ CountsNoMore(d)
  BY DEF OnlyCall, StaysPassed, CountsNoMore
<1> QED
  BY <1>1, <1>2

\* Records that keep their identifiers and names still agree.
LEMMA AgreeKept ==
  ASSUME RecordsAgree,
         \A u \in Users : /\ record'[u].bvn = record[u].bvn /\ record'[u].nin = record[u].nin
                          /\ record'[u].legalName = record[u].legalName
  PROVE  RecordsAgree'
BY DEF RecordsAgree

\* A tier is still earned if its record and the proof of liveness stay.
LEMMA TierKept ==
  ASSUME TiersSound, UNCHANGED <<record, tier, read>>, \A d \in Calls : StaysPassed(d)
  PROVE  TiersSound'
BY DEF TiersSound, TierEarned, StaysPassed, User

\* Sets of calls are finite.
LEMMA CallsFinite ==
  ASSUME NEW S, S \subseteq Calls
  PROVE  IsFiniteSet(S) /\ Cardinality(S) \in Nat
<1>1. IsFiniteSet(Calls)
  BY KycAssumption, FS_Interval DEF Calls
<1> QED
  BY <1>1, FS_Subset, FS_CardinalityType

\* The failed attempts are bounded if none is added.
LEMMA BoundKept ==
  ASSUME AttemptsBounded, \A d \in Calls : CountsNoMore(d)
  PROVE  AttemptsBounded'
<1> SUFFICES ASSUME NEW u \in Users, NEW type \in Kinds
             PROVE  EarlierMisses[type] + Cardinality(Counted(u, type)') <= MaxFailedAttempts
  BY DEF AttemptsBounded
<1>1. Counted(u, type)' \subseteq Counted(u, type) /\ Counted(u, type) \subseteq Calls
  BY DEF Counted, CountsNoMore, User, Type, Number
<1>2. /\ IsFiniteSet(Counted(u, type)) /\ Cardinality(Counted(u, type)) \in Nat
      /\ Cardinality(Counted(u, type)') \in Nat
  BY <1>1, CallsFinite
<1>3. Cardinality(Counted(u, type)') <= Cardinality(Counted(u, type))
  BY <1>1, <1>2, FS_Subset
<1>4. /\ EarlierMisses[type] + Cardinality(Counted(u, type)) <= MaxFailedAttempts
      /\ EarlierMisses[type] \in Nat /\ MaxFailedAttempts \in Nat
  BY KycAssumption DEF AttemptsBounded, Kinds
<1> QED
  BY <1>2, <1>3, <1>4

\* A step of one call that leaves the records alone.
LEMMA Kept ==
  ASSUME KycInv, KycTypeOK', NEW c \in Calls, OnlyCall(c), CallTrue(c)', StaysPassed(c),
         CountsNoMore(c), UNCHANGED <<record, tier, read>>
  PROVE  KycInv'
<1>1. /\ \A d \in Calls : CallTrue(d)'
      /\ \A d \in Calls : StaysPassed(d) /\ CountsNoMore(d)
  BY OthersTrue
<1>2. RecordsAgree' /\ TiersSound' /\ AttemptsBounded'
  BY <1>1, AgreeKept, TierKept, BoundKept DEF KycInv
<1> QED
  BY <1>1, <1>2 DEF KycInv

-----------------------------------------------------------------------------
(* Steps that leave the records alone *)

\* What the invariant says of one call.
LEMMA OneCall ==
  ASSUME KycInv, NEW c \in Calls
  PROVE  /\ KycTypeOK /\ CallTrue(c)
         /\ call[c] \in Request /\ pc[c] \in Step /\ job[c] \in Verdict /\ verdict[c] \in Verdict
         /\ recent[c] \in BOOLEAN /\ missed[c] \in BOOLEAN
BY DEF KycInv, KycTypeOK

\* The provider answers, or throws.
LEMMA LookupStep == ASSUME KycInv, NEW c \in Calls, NEW answered, Lookup(c, answered) PROVE KycInv'
<1>1. PICK miss \in BOOLEAN : /\ miss <=> (answered /\ Registry[Number(c)] = NotFound)
                              /\ missed' = [missed EXCEPT ![c] = miss]
  BY DEF Lookup
<1>2. PICK row \in {None, "failed"} : /\ miss => row = "failed"
                                      /\ attempt' = [attempt EXCEPT ![c] = row]
  BY <1>1, OneCall DEF Lookup, CallTrue, At, KycTypeOK
<1>3. PICK step \in {"persist", "done"} :
        /\ miss => step = "done"
        /\ step = "persist" => Registry[Number(c)] # NotFound
        /\ pc' = [pc EXCEPT ![c] = step]
  BY <1>1 DEF Lookup, Goto
<1>4. /\ KycTypeOK /\ CallTrue(c) /\ pc[c] = "lookup"
      /\ UNCHANGED <<record, tier, read, call, job, recent, verdict>>
  BY OneCall DEF Lookup, At
<1>5. KycTypeOK'
  BY <1>1, <1>2, <1>3, <1>4 DEF KycTypeOK, Step
<1>6. OnlyCall(c)
  BY <1>1, <1>2, <1>3, <1>4 DEF KycTypeOK, OnlyCall
<1>7. pc'[c] = step /\ attempt'[c] = row /\ (missed'[c] <=> miss)
  BY <1>1, <1>2, <1>3, <1>4 DEF KycTypeOK
<1>8. CallTrue(c)'
  BY <1>2, <1>3, <1>4, <1>7 DEF CallTrue, At, User, Number
<1>9. StaysPassed(c) /\ CountsNoMore(c)
  BY <1>4, <1>7 DEF StaysPassed, CountsNoMore, CallTrue, At
<1> QED
  BY <1>4, <1>5, <1>6, <1>8, <1>9, Kept

\* A liveness job is created, unless the user has a pending one.
LEMMA CreateJobStep == ASSUME KycInv, NEW c \in Calls, CreateJob(c) PROVE KycInv'
<1>1. /\ KycTypeOK /\ CallTrue(c) /\ pc[c] = "job"
      /\ UNCHANGED <<record, tier, read, call, attempt, recent, missed, verdict>>
  BY OneCall DEF CreateJob, At, flags
<1>2. \/ pc' = [pc EXCEPT ![c] = "done"] /\ job' = job
      \/ pc' = [pc EXCEPT ![c] = "submit"] /\ job' = [job EXCEPT ![c] = "pending"]
  BY DEF CreateJob, Goto
<1>3. KycTypeOK' /\ OnlyCall(c)
  BY <1>1, <1>2 DEF KycTypeOK, Step, Verdict, OnlyCall
<1>4. \/ pc'[c] = "done" /\ job'[c] = job[c]
      \/ pc'[c] = "submit" /\ job'[c] = "pending"
  BY <1>1, <1>2 DEF KycTypeOK
<1>5. CallTrue(c)' /\ StaysPassed(c) /\ CountsNoMore(c)
  BY <1>1, <1>4 DEF CallTrue, At, User, Number, StaysPassed, CountsNoMore
<1> QED
  BY <1>1, <1>3, <1>5, Kept

\* The selfie is submitted.
LEMMA SubmitStep ==
  ASSUME KycInv, NEW c \in Calls, NEW outcome \in {"throws", "pending", "passed", "failed"},
         Submit(c, outcome)
  PROVE  KycInv'
<1>1. /\ KycTypeOK /\ CallTrue(c) /\ pc[c] = "submit"
      /\ UNCHANGED <<record, tier, read, call, recent, missed>>
  BY OneCall DEF Submit, At, flags
<1>2. \/ /\ attempt' = [attempt EXCEPT ![c] = None] /\ job' = [job EXCEPT ![c] = None]
         /\ pc' = [pc EXCEPT ![c] = "done"] /\ verdict' = verdict
      \/ /\ verdict' = [verdict EXCEPT ![c] = outcome] /\ outcome # "throws"
         /\ attempt' = attempt /\ job' = job
         /\ \E step \in {"track", "apply"} : pc' = [pc EXCEPT ![c] = step]
  BY DEF Submit, Goto
<1>3. KycTypeOK' /\ OnlyCall(c)
  BY <1>1, <1>2 DEF KycTypeOK, Step, Verdict, OnlyCall
<1>4. \/ pc'[c] = "done" /\ job'[c] = None /\ attempt'[c] = None /\ verdict'[c] = verdict[c]
      \/ pc'[c] \in {"track", "apply"} /\ job'[c] = job[c] /\ attempt'[c] = attempt[c]
  BY <1>1, <1>2 DEF KycTypeOK
<1>5. CallTrue(c)' /\ StaysPassed(c) /\ CountsNoMore(c)
  BY <1>1, <1>4 DEF CallTrue, At, User, Number, StaysPassed, CountsNoMore, None
<1> QED
  BY <1>1, <1>3, <1>5, Kept

\* The process stops, the job id is recorded, or nothing the invariant speaks
\* of changes.
LEMMA EndStep ==
  ASSUME KycInv, NEW c \in Calls,
         UNCHANGED <<record, tier, read, call, attempt, recent, missed, job, verdict>>,
         UNCHANGED pc \/ (pc[c] # "new" /\ pc' = [pc EXCEPT ![c] = "done"])
  PROVE  KycInv'
<1>1. KycTypeOK /\ CallTrue(c)
  BY OneCall
<1>2. KycTypeOK' /\ OnlyCall(c)
  BY <1>1 DEF KycTypeOK, Step, OnlyCall
<1>3. pc'[c] = pc[c] \/ (pc'[c] = "done" /\ pc[c] # "new")
  BY <1>1 DEF KycTypeOK
<1>4. CallTrue(c)' /\ StaysPassed(c) /\ CountsNoMore(c)
  BY <1>1, <1>3 DEF CallTrue, At, User, Number, StaysPassed, CountsNoMore
<1> QED
  BY <1>2, <1>4, Kept

\* An old job expires.
LEMMA ExpireStep == ASSUME KycInv, NEW c \in Calls, Expire(c) PROVE KycInv'
<1>1. /\ KycTypeOK /\ CallTrue(c) /\ job[c] = "pending" /\ job' = [job EXCEPT ![c] = "failed"]
      /\ UNCHANGED <<record, tier, read, call, pc, attempt, recent, missed, verdict>>
  BY OneCall DEF Expire, StillPending, flags
<1>2. KycTypeOK' /\ OnlyCall(c)
  BY <1>1 DEF KycTypeOK, Verdict, OnlyCall
<1>3. CallTrue(c)' /\ StaysPassed(c) /\ CountsNoMore(c)
  BY <1>1 DEF CallTrue, At, User, Number, StaysPassed, CountsNoMore, None
<1> QED
  BY <1>1, <1>2, <1>3, Kept

\* The provider makes up its mind about a selfie.
LEMMA DecideStep ==
  ASSUME KycInv, NEW c \in Calls, NEW outcome \in {"passed", "failed"}, ProviderDecides(c, outcome)
  PROVE  KycInv'
<1>1. /\ KycTypeOK /\ CallTrue(c)
      /\ verdict[c] = "pending" /\ verdict' = [verdict EXCEPT ![c] = outcome]
      /\ UNCHANGED <<record, tier, read, call, pc, attempt, recent, missed, job>>
  BY OneCall DEF ProviderDecides, flags, tables
<1>2. KycTypeOK' /\ OnlyCall(c)
  BY <1>1 DEF KycTypeOK, Verdict, OnlyCall
<1>3. CallTrue(c)' /\ StaysPassed(c) /\ CountsNoMore(c)
  BY <1>1 DEF CallTrue, At, User, Number, StaysPassed, CountsNoMore, None
<1> QED
  BY <1>1, <1>2, <1>3, Kept

\* An attempt leaves the window.
LEMMA WindowStep == ASSUME KycInv, NEW c \in Calls, LeaveWindow(c) PROVE KycInv'
<1>1. /\ KycTypeOK /\ CallTrue(c) /\ pc[c] = "done" /\ recent' = [recent EXCEPT ![c] = FALSE]
      /\ UNCHANGED <<record, tier, read, call, pc, attempt, missed, job, verdict>>
  BY OneCall DEF LeaveWindow, At, tables
<1>2. KycTypeOK' /\ OnlyCall(c) /\ ~recent'[c]
  BY <1>1 DEF KycTypeOK, OnlyCall
<1>3. CallTrue(c)' /\ StaysPassed(c) /\ CountsNoMore(c)
  BY <1>1, <1>2 DEF CallTrue, At, User, Number, StaysPassed, CountsNoMore
<1> QED
  BY <1>1, <1>2, <1>3, Kept

\* The retention job deletes an attempt and its settled job.
LEMMA PruneStep == ASSUME KycInv, NEW c \in Calls, Prune(c) PROVE KycInv'
<1>1. /\ KycTypeOK /\ CallTrue(c) /\ ~recent[c]
      /\ attempt' = [attempt EXCEPT ![c] = None] /\ job' = [job EXCEPT ![c] = None]
      /\ UNCHANGED <<record, tier, read, call, pc, recent, missed, verdict>>
  BY OneCall DEF Prune, flags
<1>2. KycTypeOK' /\ OnlyCall(c) /\ attempt'[c] = None /\ job'[c] = None
  BY <1>1 DEF KycTypeOK, Verdict, OnlyCall
<1>3. CallTrue(c)' /\ StaysPassed(c) /\ CountsNoMore(c)
  BY <1>1, <1>2 DEF CallTrue, At, User, Number, StaysPassed, CountsNoMore
<1> QED
  BY <1>1, <1>2, <1>3, Kept

-----------------------------------------------------------------------------
(* Steps that count an attempt, save an identifier or settle a job *)

\* reserveAttempt: the attempt counts before the provider is asked, and there
\* was room for it under the lock.
LEMMA ReserveStep ==
  ASSUME KycInv, NEW c \in Calls, NEW u \in Users, NEW n \in Numbers, NEW selfie \in BOOLEAN,
         Reserve(c, u, n, selfie)
  PROVE  KycInv'
<1>1. PICK submit \in BOOLEAN :
        call' = [call EXCEPT ![c] = [user |-> u, number |-> n, submit |-> submit]]
  <2> DEFINE submit == selfie /\ ~record[u].liveness
  <2>1. submit \in BOOLEAN
    OBVIOUS
  <2>2. call' = [call EXCEPT ![c] = [user |-> u, number |-> n, submit |-> submit]]
    BY DEF Reserve
  <2> HIDE DEF submit
  <2> QED
    BY <2>1, <2>2
<1>2. PICK step \in {"lookup", "job"} : pc' = [pc EXCEPT ![c] = step]
  BY DEF Reserve, Goto
<1>3. /\ KycTypeOK /\ CallTrue(c) /\ pc[c] = "new" /\ attempt' = [attempt EXCEPT ![c] = "failed"]
      /\ UNCHANGED <<record, tier, read, recent, missed, job, verdict>>
      /\ FailedAttempts(u, TypeOf[n]) < MaxFailedAttempts
  BY OneCall DEF Reserve, At, flags
<1>4. /\ OnlyCall(c) /\ pc'[c] = step /\ attempt'[c] = "failed"
      /\ call'[c] = [user |-> u, number |-> n, submit |-> submit]
  BY <1>1, <1>2, <1>3 DEF KycTypeOK, OnlyCall
<1>5. KycTypeOK'
  <2>1. [user |-> u, number |-> n, submit |-> submit] \in Request
    BY DEF Request
  <2> QED
    BY <1>1, <1>2, <1>3, <2>1 DEF KycTypeOK, Step
<1>6. call'[c].user = u /\ call'[c].number = n
  BY <1>4
<1>7. CallTrue(c)'
  BY <1>3, <1>4, <1>6 DEF CallTrue, At, User, Number
<1>8. /\ \A d \in Calls : CallTrue(d)' /\ StaysPassed(d)
      /\ \A d \in Calls \ {c} : CountsNoMore(d)
  <2>1. StaysPassed(c)
    BY <1>3 DEF StaysPassed, CallTrue, None
  <2> QED
    BY <1>4, <1>7, <2>1, OthersTrue
<1>9. AttemptsBounded'
  <2> SUFFICES ASSUME NEW v \in Users, NEW type \in Kinds
               PROVE  EarlierMisses[type] + Cardinality(Counted(v, type)') <= MaxFailedAttempts
    BY DEF AttemptsBounded
  <2>1. /\ Counted(v, type) \subseteq Calls /\ Counted(v, type)' \subseteq Calls
        /\ Counted(v, type)' \subseteq Counted(v, type) \cup {c}
        /\ ~(v = u /\ type = TypeOf[n]) => Counted(v, type)' \subseteq Counted(v, type)
    <3>1. ASSUME NEW d \in Counted(v, type)'
          PROVE  d \in Counted(v, type) \/ (d = c /\ v = u /\ type = TypeOf[n])
      <4>1. CASE d = c
        BY <1>6, <3>1, <4>1 DEF Counted, User, Type, Number
      <4>2. CASE d # c
        BY <1>8, <3>1, <4>2 DEF Counted, CountsNoMore, User, Type, Number
      <4> QED
        BY <4>1, <4>2
    <3> QED
      BY <3>1 DEF Counted
  <2>2. /\ IsFiniteSet(Counted(v, type)) /\ IsFiniteSet(Counted(v, type) \cup {c})
        /\ Cardinality(Counted(v, type)) \in Nat /\ Cardinality(Counted(v, type)') \in Nat
        /\ Cardinality(Counted(v, type) \cup {c}) <= Cardinality(Counted(v, type)) + 1
    BY <2>1, CallsFinite, FS_AddElement
  <2>3. /\ EarlierMisses[type] + Cardinality(Counted(v, type)) <= MaxFailedAttempts
        /\ EarlierMisses[type] \in Nat /\ MaxFailedAttempts \in Nat
    BY KycAssumption DEF KycInv, AttemptsBounded, Kinds
  <2>4. CASE v = u /\ type = TypeOf[n]
    <3>1. EarlierMisses[type] + Cardinality(Counted(v, type)) < MaxFailedAttempts
      BY <1>3, <2>4 DEF FailedAttempts, Counted
    <3>2. Cardinality(Counted(v, type)') <= Cardinality(Counted(v, type) \cup {c})
      BY <2>1, <2>2, FS_Subset
    <3>3. Cardinality(Counted(v, type) \cup {c}) \in Nat
      BY <2>2, FS_CardinalityType
    <3> QED
      BY <2>2, <2>3, <3>1, <3>2, <3>3
  <2>5. CASE ~(v = u /\ type = TypeOf[n])
    <3>1. Cardinality(Counted(v, type)') <= Cardinality(Counted(v, type))
      BY <2>1, <2>2, <2>5, FS_Subset
    <3> QED
      BY <2>2, <2>3, <3>1
  <2> QED
    BY <2>4, <2>5
<1>10. RecordsAgree' /\ TiersSound'
  BY <1>3, <1>8, AgreeKept, TierKept DEF KycInv
<1> QED
  BY <1>5, <1>8, <1>9, <1>10 DEF KycInv

\* Where an identifier or the liveness of user u is saved, the tier follows.
LEMMA TierFollows ==
  ASSUME KycInv, NEW u \in Users, NEW rec \in Record,
         record' = [record EXCEPT ![u] = rec], RaiseTier(u, rec), read' = read,
         record[u].bvn # None => rec.bvn # None, record[u].nin # None => rec.nin # None,
         record[u].liveness => rec.liveness,
         \A d \in Calls : StaysPassed(d),
         rec.liveness => record[u].liveness \/ \E d \in Calls : User(d) = u /\ verdict[d] = "passed"
  PROVE  TiersSound' /\ record' \in [Users -> Record] /\ tier' \in [Users -> 0..3]
<1>1. KycTypeOK /\ TierEarned /\ tier[u] <= DeriveTier(record[u]) /\ tier[u] \in 0..3
        /\ \A v \in Users : \A t \in read[v] : t \in 0..3 /\ t <= DeriveTier(record[v])
  BY DEF KycInv, KycTypeOK, TiersSound, TierEarned
<1>2. /\ DeriveTier(rec) \in 0..3 /\ DeriveTier(record[u]) \in 0..3
      /\ DeriveTier(record[u]) <= DeriveTier(rec)
  BY TierRises
<1>3. tier' = [tier EXCEPT ![u] = DeriveTier(rec)]
  <2>1. (IF DeriveTier(rec) > tier[u] THEN DeriveTier(rec) ELSE tier[u]) = DeriveTier(rec)
    BY <1>1, <1>2
  <2> QED
    BY <2>1 DEF RaiseTier
<1>4. record' \in [Users -> Record] /\ tier' \in [Users -> 0..3]
  BY <1>1, <1>2, <1>3 DEF KycTypeOK
<1>5. /\ record'[u] = rec /\ tier'[u] = DeriveTier(rec)
      /\ \A v \in Users \ {u} : record'[v] = record[v] /\ tier'[v] = tier[v]
  BY <1>1, <1>3 DEF KycTypeOK
<1>6. ASSUME NEW v \in Users
      PROVE  /\ tier'[v] <= DeriveTier(record'[v])
             /\ tier'[v] \in read'[v] \cup {DeriveTier(record'[v])}
             /\ \A t \in read'[v] : t <= DeriveTier(record'[v])
  <2>1. CASE v = u
    BY <1>1, <1>2, <1>5, <2>1
  <2>2. CASE v # u
    BY <1>1, <1>5, <2>2 DEF TierEarned
  <2> QED
    BY <2>1, <2>2
<1>7. ASSUME NEW v \in Users, \E d \in Calls : User(d) = v /\ verdict[d] = "passed"
      PROVE  \E d \in Calls : User(d)' = v /\ verdict'[d] = "passed"
  BY <1>7 DEF StaysPassed, User
<1>8. ASSUME NEW v \in Users, record'[v].liveness
      PROVE  \E d \in Calls : User(d) = v /\ verdict[d] = "passed"
  <2>1. CASE v = u
    BY <1>1, <1>5, <1>8, <2>1 DEF TiersSound, TierEarned
  <2>2. CASE v # u
    BY <1>1, <1>5, <1>8, <2>2 DEF TiersSound, TierEarned
  <2> QED
    BY <2>1, <2>2
<1>9. TiersSound'
  <2>1. \A v \in Users :
          record'[v].liveness => \E d \in Calls : User(d)' = v /\ verdict'[d] = "passed"
    BY <1>7, <1>8
  <2> QED
    BY <1>6, <2>1 DEF TiersSound, TierEarned
<1> QED
  BY <1>4, <1>9

\* applyLivenessOutcome: a job is settled by what the provider made of its own
\* user's selfie, whoever brings the answer.
LEMMA SettleStep ==
  ASSUME KycInv, NEW c \in Calls, ApplyLivenessOutcome(c, verdict[c]),
         UNCHANGED <<read, call, recent, missed, verdict>>,
         UNCHANGED pc \/ (pc[c] # "new" /\ pc' = [pc EXCEPT ![c] = "done"])
  PROVE  KycInv'
<1>1. /\ KycTypeOK /\ CallTrue(c) /\ RecordsAgree
      /\ pc'[c] = pc[c] \/ (pc'[c] = "done" /\ pc[c] # "new")
  BY OneCall DEF KycTypeOK, KycInv
<1>2. CASE ~StillPending(c)
  BY <1>2, EndStep DEF ApplyLivenessOutcome, tables
<1>3. CASE StillPending(c)
  <2>1. /\ job[c] = "pending" /\ job' = [job EXCEPT ![c] = verdict[c]]
        /\ job' \in [Calls -> Verdict] /\ pc' \in [Calls -> Step]
    BY <1>1, <1>3 DEF ApplyLivenessOutcome, StillPending, KycTypeOK, Step
  <2>2. User(c) \in Users /\ pc[c] \notin {"new", "lookup", "persist", "job"} /\ ~missed[c]
    BY <1>1, <2>1 DEF CallTrue, At, None
  <2>3. CASE verdict[c] # "passed"
    <3>1. UNCHANGED <<record, attempt, tier>>
      BY <1>3, <2>3 DEF ApplyLivenessOutcome
    <3>2. KycTypeOK' /\ OnlyCall(c)
      BY <1>1, <2>1, <3>1 DEF KycTypeOK, OnlyCall
    <3>3. CallTrue(c)' /\ StaysPassed(c) /\ CountsNoMore(c)
      BY <1>1, <2>2, <3>1 DEF CallTrue, At, User, Number, StaysPassed, CountsNoMore
    <3> QED
      BY <3>1, <3>2, <3>3, Kept
  <2>4. CASE verdict[c] = "passed"
    <3> PICK u : u = User(c)
      OBVIOUS
    <3> PICK rec : rec = [record[u] EXCEPT !.liveness = TRUE]
      OBVIOUS
    <3>1. u \in Users /\ record[u] \in Record
      BY <1>1, <2>2 DEF KycTypeOK
    <3>2. /\ record' = [record EXCEPT ![u] = rec] /\ RaiseTier(u, rec)
          /\ attempt' = [attempt EXCEPT ![c] = IF @ = None THEN @ ELSE "succeeded"]
      BY <1>3, <2>4 DEF ApplyLivenessOutcome
    <3>3. /\ rec \in Record /\ rec.bvn = record[u].bvn /\ rec.nin = record[u].nin
          /\ rec.legalName = record[u].legalName /\ rec.liveness
      BY <3>1 DEF Record
    <3>4. /\ attempt' \in [Calls -> {None, "failed", "succeeded"}]
          /\ attempt'[c] # "failed" /\ OnlyCall(c)
      BY <1>1, <2>1, <3>2 DEF KycTypeOK, OnlyCall, None
    <3>5. CallTrue(c)' /\ StaysPassed(c) /\ CountsNoMore(c)
      BY <1>1, <2>2, <3>4 DEF CallTrue, At, User, Number, StaysPassed, CountsNoMore
    <3>6. \A d \in Calls : CallTrue(d)' /\ StaysPassed(d) /\ CountsNoMore(d)
      BY <3>4, <3>5, OthersTrue
    <3>7. TiersSound' /\ record' \in [Users -> Record] /\ tier' \in [Users -> 0..3]
      BY <2>4, <3>1, <3>2, <3>3, <3>6, TierFollows
    <3>8. RecordsAgree'
      <4>1. \A v \in Users : /\ record'[v].bvn = record[v].bvn /\ record'[v].nin = record[v].nin
                             /\ record'[v].legalName = record[v].legalName
        BY <1>1, <3>1, <3>2, <3>3 DEF KycTypeOK
      <4> QED
        BY <1>1, <4>1, AgreeKept
    <3>9. KycTypeOK' /\ AttemptsBounded'
      BY <1>1, <2>1, <3>4, <3>6, <3>7, BoundKept DEF KycTypeOK, KycInv
    <3> QED
      BY <3>6, <3>7, <3>8, <3>9 DEF KycInv
  <2> QED
    BY <2>3, <2>4
<1> QED
  BY <1>2, <1>3

\* The webhook, the poll and the last look before a job expires.
LEMMA PollStep ==
  ASSUME KycInv, NEW c \in Calls, NEW answered, PollLivenessJob(c, answered),
         UNCHANGED <<read, call, pc, recent, missed, verdict>>
  PROVE  KycInv'
<1>1. ApplyLivenessOutcome(c, verdict[c]) \/ UNCHANGED tables
  BY DEF PollLivenessJob
<1>2. CASE UNCHANGED tables
  BY <1>2, EndStep DEF tables
<1> QED
  BY <1>1, <1>2, SettleStep

\* verifyAndPersistIdentity: the record is read again under the lock, so what is
\* saved agrees with what another call saved meanwhile.
LEMMA PersistStep == ASSUME KycInv, NEW c \in Calls, Persist(c) PROVE KycInv'
<1> PICK u : u = User(c)
  OBVIOUS
<1> PICK n : n = Number(c)
  OBVIOUS
<1> PICK type : type = TypeOf[n]
  OBVIOUS
<1>1. /\ KycTypeOK /\ CallTrue(c) /\ RecordsAgree /\ pc[c] = "persist"
      /\ UNCHANGED <<read, call, job, recent, missed, verdict>>
  BY OneCall DEF KycInv, Persist, At, flags
<1>2. /\ u \in Users /\ n \in Numbers /\ type \in Kinds /\ record[u] \in Record
      /\ Registry[n] # NotFound /\ n # None
  BY <1>1, KycAssumption DEF CallTrue, At, KycTypeOK, Kinds
<1>3. CASE ~(Acceptable(c) /\ ~Linked(c))
  BY <1>1, <1>3, EndStep DEF Persist, Goto
<1>4. CASE Acceptable(c) /\ ~Linked(c)
  <2> PICK name : name = IF Registry[n].name # <<>> /\ (type = "bvn" \/ record[u].bvn = None)
                         THEN Registry[n].name ELSE record[u].legalName
    OBVIOUS
  <2> PICK rec : rec = [record[u] EXCEPT ![type] = n, !.legalName = name]
    OBVIOUS
  <2>1. /\ record' = [record EXCEPT ![u] = rec] /\ RaiseTier(u, rec)
        /\ attempt' = [attempt EXCEPT ![c] = IF call[c].submit THEN @ ELSE "succeeded"]
    BY <1>4 DEF Persist, Type
  <2>2. name \in Names
    BY <1>2 DEF Names, Record
  <2>3. /\ rec \in Record /\ rec.legalName = name
        /\ rec.bvn = IF type = "bvn" THEN n ELSE record[u].bvn
        /\ rec.nin = IF type = "nin" THEN n ELSE record[u].nin
    <3>1. CASE type = "bvn"
      BY <1>2, <2>2, <3>1 DEF Record
    <3>2. CASE type = "nin"
      BY <1>2, <2>2, <3>2 DEF Record
    <3> QED
      BY <1>2, <3>1, <3>2 DEF Kinds
  <2>4. rec.liveness <=> record[u].liveness
    <3>1. CASE type = "bvn"
      BY <1>2, <3>1 DEF Record
    <3>2. CASE type = "nin"
      BY <1>2, <3>2 DEF Record
    <3> QED
      BY <1>2, <3>1, <3>2 DEF Kinds
  <2>5. pc' = [pc EXCEPT ![c] = "job"] \/ pc' = [pc EXCEPT ![c] = "done"]
    BY DEF Persist, Goto
  <2>6. /\ attempt' \in [Calls -> {None, "failed", "succeeded"}] /\ pc' \in [Calls -> Step]
        /\ attempt'[c] = "failed" => attempt[c] = "failed"
        /\ pc'[c] \in {"job", "done"} /\ OnlyCall(c)
    BY <1>1, <2>1, <2>5 DEF KycTypeOK, OnlyCall, Step
  <2>7. CallTrue(c)' /\ StaysPassed(c) /\ CountsNoMore(c)
    BY <1>1, <2>6 DEF CallTrue, At, User, Number, StaysPassed, CountsNoMore
  <2>8. \A d \in Calls : CallTrue(d)' /\ StaysPassed(d) /\ CountsNoMore(d)
    BY <2>6, <2>7, OthersTrue
  <2>9. TiersSound' /\ record' \in [Users -> Record] /\ tier' \in [Users -> 0..3]
    <3>1. (record[u].bvn # None => rec.bvn # None) /\ (record[u].nin # None => rec.nin # None)
      BY <1>2, <2>3
    <3> QED
      BY <1>1, <1>2, <2>1, <2>3, <2>4, <2>8, <3>1, TierFollows
  <2>10. RecordsAgree'
    <3>1. record'[u] = rec /\ \A v \in Users \ {u} : record'[v] = record[v]
      BY <1>1, <1>2, <2>1 DEF KycTypeOK
    <3>2. \A v \in Users :
            OnePerson(record[v]) /\ \A w \in Users \ {v} : TwoPeople(record[v], record[w])
      BY <1>1, AgreeParts
    <3>3. \A v \in Users \ {u} : record[v][type] # n
      BY <1>4 DEF Linked, Stored, Type
    <3> SUFFICES OnePerson(rec)
                   /\ \A v \in Users \ {u} : TwoPeople(rec, record[v]) /\ TwoPeople(record[v], rec)
      <4>1. ASSUME OnePerson(rec),
                   \A v \in Users \ {u} : TwoPeople(rec, record[v]) /\ TwoPeople(record[v], rec)
            PROVE  RecordsAgree'
        <5>1. \A v \in Users : OnePerson(record'[v])
          BY <3>1, <3>2, <4>1
        <5>2. \A v \in Users : \A w \in Users \ {v} : TwoPeople(record'[v], record'[w])
          <6> SUFFICES ASSUME NEW v \in Users, NEW w \in Users \ {v}
                       PROVE  TwoPeople(record'[v], record'[w])
            OBVIOUS
          <6>1. CASE v = u
            <7>1. w \in Users \ {u} /\ record'[v] = rec /\ record'[w] = record[w]
              BY <3>1, <6>1
            <7> QED
              BY <4>1, <7>1
          <6>2. CASE w = u
            <7>1. v \in Users \ {u} /\ record'[w] = rec /\ record'[v] = record[v]
              BY <3>1, <6>2
            <7> QED
              BY <4>1, <7>1
          <6>3. CASE v # u /\ w # u
            BY <3>1, <3>2, <6>3
          <6> QED
            BY <6>1, <6>2, <6>3
        <5> QED
          BY <5>1, <5>2, AgreeParts
      <4> QED
        BY <4>1
    <3>4. CASE type = "bvn"
      <4>1. rec.bvn = n /\ rec.nin = record[u].nin
        BY <2>3, <3>4
      <4>2. record[u].nin # None => IdentitiesMatch(Registry[record[u].nin], Registry[n])
        BY <1>4, <3>4 DEF Acceptable, Stored, OtherType, Type
      <4>3. OnePerson(rec)
        BY <2>3, <3>4, <4>1, <4>2, MatchSymmetric DEF OnePerson
      <4>4. \A v \in Users \ {u} : TwoPeople(rec, record[v]) /\ TwoPeople(record[v], rec)
        <5>1. \A v \in Users \ {u} : record[v].bvn # n
          BY <1>1, <3>3, <3>4 DEF KycTypeOK, Record
        <5> QED
          BY <1>2, <3>2, <4>1, <5>1 DEF TwoPeople
      <4> QED
        BY <4>3, <4>4
    <3>5. CASE type = "nin"
      <4>1. rec.nin = n /\ rec.bvn = record[u].bvn
        BY <2>3, <3>5
      <4>2. record[u].bvn # None => IdentitiesMatch(Registry[record[u].bvn], Registry[n])
        BY <1>4, <3>5 DEF Acceptable, Stored, OtherType, Type
      <4>3. OnePerson(rec)
        BY <1>2, <2>3, <3>2, <3>5, <4>1, <4>2 DEF OnePerson
      <4>4. \A v \in Users \ {u} : TwoPeople(rec, record[v]) /\ TwoPeople(record[v], rec)
        <5>1. \A v \in Users \ {u} : record[v].nin # n
          BY <1>1, <3>3, <3>5 DEF KycTypeOK, Record
        <5> QED
          BY <1>2, <3>2, <4>1, <5>1 DEF TwoPeople
      <4> QED
        BY <4>3, <4>4
    <3> QED
      BY <1>2, <3>4, <3>5 DEF Kinds
  <2>11. KycTypeOK' /\ AttemptsBounded'
    BY <1>1, <2>6, <2>8, <2>9, BoundKept DEF KycTypeOK, KycInv
  <2> QED
    BY <2>8, <2>9, <2>10, <2>11 DEF KycInv
<1> QED
  BY <1>3, <1>4

\* A profile call reads a tier, or writes back the one it read.
LEMMA ProfileStep ==
  ASSUME KycInv, NEW u \in Users, ReadUser(u) \/ \E value \in read[u] : SaveUser(u, value)
  PROVE  KycInv'
<1>1. UNCHANGED <<record, call, pc, attempt, recent, missed, job, verdict>>
  BY DEF ReadUser, SaveUser, tables, flags
<1>2. KycTypeOK /\ TiersSound /\ RecordsAgree /\ AttemptsBounded
  BY DEF KycInv
<1>3. /\ \A v \in Users : /\ tier'[v] \in {tier[v]} \cup read[v]
                          /\ read[v] \subseteq read'[v] /\ read'[v] \subseteq read[v] \cup {tier[v]}
      /\ tier' \in [Users -> 0..3] /\ read' \in [Users -> SUBSET (0..3)]
  <2>1. CASE ReadUser(u)
    BY <1>2, <2>1 DEF ReadUser, tables, KycTypeOK
  <2>2. CASE \E value \in read[u] : SaveUser(u, value)
    BY <1>2, <2>2 DEF SaveUser, flags, KycTypeOK
  <2> QED
    BY <2>1, <2>2
<1>4. KycTypeOK'
  BY <1>1, <1>2, <1>3 DEF KycTypeOK
<1>5. \A c \in Calls : CallTrue(c)' /\ StaysPassed(c) /\ CountsNoMore(c)
  BY <1>1 DEF KycInv, CallTrue, At, User, Number, StaysPassed, CountsNoMore
<1>6. RecordsAgree' /\ AttemptsBounded'
  BY <1>1, <1>2, <1>5, AgreeKept, BoundKept
<1>7. TiersSound'
  <2>1. ASSUME NEW v \in Users
        PROVE  /\ tier'[v] <= DeriveTier(record[v])
               /\ tier'[v] \in read'[v] \cup {DeriveTier(record[v])}
               /\ \A t \in read'[v] : t <= DeriveTier(record[v])
    BY <1>2, <1>3 DEF TiersSound, TierEarned
  <2>2. \A v \in Users :
          record'[v].liveness => \E d \in Calls : User(d)' = v /\ verdict'[d] = "passed"
    BY <1>1, <1>2 DEF TiersSound, TierEarned, User
  <2> QED
    BY <1>1, <2>1, <2>2 DEF TiersSound, TierEarned
<1> QED
  BY <1>4, <1>5, <1>6, <1>7 DEF KycInv

-----------------------------------------------------------------------------
(* The theorems *)

LEMMA KycInvInit == KycInit => KycInv
<1> SUFFICES ASSUME KycInit PROVE KycInv
  OBVIOUS
<1>1. KycTypeOK
  <2>1. [bvn |-> None, nin |-> None, legalName |-> <<>>, liveness |-> FALSE] \in Record
    BY DEF Record, Names
  <2>2. NoCall \in Request
    BY DEF NoCall, Request
  <2> QED
    BY <2>1, <2>2 DEF KycInit, KycTypeOK, Step, Verdict
<1>2. \A c \in Calls : CallTrue(c)
  BY DEF KycInit, CallTrue, At
<1>3. \A u \in Users : /\ record[u].bvn = None /\ record[u].nin = None /\ ~record[u].liveness
                       /\ tier[u] = 0 /\ read[u] = {}
  BY DEF KycInit
<1>4. RecordsAgree /\ TiersSound
  BY <1>3 DEF RecordsAgree, TiersSound, TierEarned, DeriveTier
<1>5. AttemptsBounded
  <2> SUFFICES ASSUME NEW u \in Users, NEW type \in Kinds
               PROVE  EarlierMisses[type] + Cardinality(Counted(u, type)) <= MaxFailedAttempts
    BY DEF AttemptsBounded
  <2>1. Counted(u, type) = {}
    BY DEF KycInit, Counted, None
  <2> QED
    BY <2>1, FS_EmptySet, KycAssumption DEF Kinds
<1> QED
  BY <1>1, <1>2, <1>4, <1>5 DEF KycInv

LEMMA KycInvStep == KycInv /\ [KycNext]_kycVars => KycInv'
<1> SUFFICES ASSUME KycInv, [KycNext]_kycVars PROVE KycInv'
  OBVIOUS
<1>1. ASSUME NEW c \in Calls, Continue(c) PROVE KycInv'
  <2>1. CASE TrackJob(c)
    BY <2>1, EndStep DEF TrackJob, tables, At, Goto
  <2>2. CASE ApplyOwn(c)
    BY <2>2, SettleStep DEF ApplyOwn, flags, At, Goto
  <2> QED
    BY <1>1, <2>1, <2>2, LookupStep, PersistStep, CreateJobStep, SubmitStep DEF Continue
<1>2. ASSUME NEW c \in Calls, Settle(c) PROVE KycInv'
  <2>1. CASE Expire(c)
    BY <2>1, ExpireStep
  <2>2. CASE ~Expire(c)
    <3>1. PICK answered : /\ PollLivenessJob(c, answered)
                          /\ UNCHANGED <<read, call, pc, recent, missed, verdict>>
      BY <1>2, <2>2 DEF Settle, HandleLivenessWebhook, PollPending, LastLook
    <3> QED
      BY <3>1, PollStep
  <2> QED
    BY <2>1, <2>2
<1>3. ASSUME NEW c \in Calls, JobGrowsOld(c) \/ Crash(c) PROVE KycInv'
  BY <1>3, EndStep DEF JobGrowsOld, Crash, tables, flags, Goto
<1>4. CASE UNCHANGED kycVars
  <2>1. KycTypeOK /\ KycTypeOK'
    BY <1>4 DEF KycInv, KycTypeOK, kycVars
  <2>2. \A c \in Calls : CallTrue(c)' /\ StaysPassed(c) /\ CountsNoMore(c)
    BY <1>4 DEF KycInv, kycVars, CallTrue, At, User, Number, StaysPassed, CountsNoMore
  <2>3. RecordsAgree' /\ TiersSound' /\ AttemptsBounded'
    BY <1>4, <2>2, AgreeKept, TierKept, BoundKept DEF KycInv, kycVars
  <2> QED
    BY <2>1, <2>2, <2>3 DEF KycInv
<1>5. ASSUME NEW u \in Users, ReadUser(u) \/ \E value \in read[u] : SaveUser(u, value)
      PROVE  KycInv'
  BY <1>5, ProfileStep
<1> QED
  BY <1>1, <1>2, <1>3, <1>4, <1>5, ReserveStep, DecideStep, WindowStep, PruneStep, KycAssumption
  DEF KycNext

\* The inductive invariant holds in every reachable state.
THEOREM KycInvHolds == KycSpec => []KycInv
BY KycInvInit, KycInvStep, PTL DEF KycSpec

\* For any number of overlapping calls of verifyAndPersistIdentity and whatever
\* the provider's registry says: one user's BVN and NIN match, no number serves
\* two users, and the legal name is the BVN's.
THEOREM RecordsTrue == KycSpec => []RecordsAgree
BY KycInvHolds, PTL DEF KycInv

\* The tier is what the record proves, or an earlier one that a profile call
\* wrote back, and never above; liveness rests on a selfie of the user that the
\* provider passed, whichever of answer, webhook and poll came.
THEOREM TierTrue == KycSpec => []TierEarned
BY KycInvHolds, PTL DEF KycInv, TiersSound

\* reserveAttempt counts an attempt before the provider is asked, so that calls
\* at once cannot miss more often than the window allows.
THEOREM MissesHeld == KycSpec => []MissesBounded
<1>1. KycInv => MissesBounded
  <2> SUFFICES ASSUME KycInv, NEW u \in Users, NEW type \in Kinds
               PROVE  EarlierMisses[type]
                        + Cardinality({c \in Calls : /\ missed[c] /\ recent[c]
                                                     /\ User(c) = u /\ Type(c) = type})
                        <= MaxFailedAttempts
    BY DEF MissesBounded, Kinds
  <2> DEFINE Missed == {c \in Calls : missed[c] /\ recent[c] /\ User(c) = u /\ Type(c) = type}
  <2>1. Missed \subseteq Counted(u, type) /\ Counted(u, type) \subseteq Calls
    BY DEF KycInv, CallTrue, Counted
  <2> HIDE DEF Missed
  <2>2. /\ IsFiniteSet(Counted(u, type)) /\ Cardinality(Counted(u, type)) \in Nat
        /\ Cardinality(Missed) \in Nat /\ Cardinality(Missed) <= Cardinality(Counted(u, type))
    BY <2>1, CallsFinite, FS_Subset
  <2>3. /\ EarlierMisses[type] + Cardinality(Counted(u, type)) <= MaxFailedAttempts
        /\ EarlierMisses[type] \in Nat /\ MaxFailedAttempts \in Nat
    BY KycAssumption DEF KycInv, AttemptsBounded, Kinds
  <2>4. EarlierMisses[type] + Cardinality(Missed) <= MaxFailedAttempts
    BY <2>2, <2>3
  <2> QED
    BY <2>4 DEF Missed
<1> QED
  BY <1>1, KycInvHolds, PTL

\* A verified identifier stays, though two calls with different numbers may both
\* have passed reserveAttempt and the provider.
THEOREM NeverReplaced == KycSpec => IdentityNeverReplaced
<1>1. ASSUME KycInv, [KycNext]_kycVars
      PROVE  [\A u \in Users, type \in {"bvn", "nin"} :
                record[u][type] # None => record'[u][type] = record[u][type]]_kycVars
  <2> SUFFICES ASSUME NEW u \in Users, NEW type \in Kinds, record[u][type] # None
               PROVE  record'[u][type] = record[u][type]
    BY DEF Kinds
  <2>1. KycTypeOK /\ record[u] \in Record
    BY <1>1 DEF KycInv, KycTypeOK
  <2>2. CASE UNCHANGED record
    BY <2>2
  <2>3. ASSUME NEW c \in Calls, Persist(c), ~UNCHANGED record
        PROVE  record'[u][type] = record[u][type]
    <3>1. CASE u # User(c)
      BY <2>1, <2>3, <3>1 DEF Persist, KycTypeOK
    <3>2. CASE u = User(c)
      <4>1. PICK name :
              record' = [record EXCEPT ![u] = [record[u] EXCEPT ![Type(c)] = Number(c),
                                                                !.legalName = name]]
        BY <2>3, <3>2 DEF Persist
      <4>2. record[u][Type(c)] \in {None, Number(c)} /\ Type(c) \in Kinds
        <5>1. Acceptable(c) /\ CallTrue(c) /\ At(c, "persist")
          BY <1>1, <2>3 DEF Persist, KycInv
        <5> QED
          BY <3>2, <5>1, KycAssumption DEF Acceptable, Stored, CallTrue, Type, At, Kinds
      <4>3. record'[u] = [record[u] EXCEPT ![Type(c)] = Number(c), !.legalName = name]
        BY <2>1, <4>1 DEF KycTypeOK
      <4> QED
        BY <2>1, <4>2, <4>3 DEF Record, Kinds
    <3> QED
      BY <3>1, <3>2
  <2>4. ASSUME NEW c \in Calls, ApplyLivenessOutcome(c, verdict[c])
        PROVE  record'[u][type] = record[u][type]
    <3>1. record'[u] = record[u] \/ record'[u] = [record[u] EXCEPT !.liveness = TRUE]
      <4>1. CASE UNCHANGED record
        BY <4>1
      <4>2. CASE record' = [record EXCEPT ![User(c)] = [record[User(c)] EXCEPT !.liveness = TRUE]]
        BY <2>1, <4>2 DEF KycTypeOK
      <4> QED
        BY <2>4, <4>1, <4>2 DEF ApplyLivenessOutcome, tables
    <3> QED
      BY <2>1, <3>1 DEF Record, Kinds
  <2>5. ASSUME NEW c \in Calls, NEW answered, PollLivenessJob(c, answered)
        PROVE  record'[u][type] = record[u][type]
    BY <2>2, <2>4, <2>5 DEF PollLivenessJob, tables
  <2>6. \/ UNCHANGED record
        \/ \E c \in Calls : Persist(c) \/ ApplyLivenessOutcome(c, verdict[c])
        \/ \E c \in Calls : \E answered : PollLivenessJob(c, answered)
    <3>1. ASSUME NEW c \in Calls, Continue(c), ~Persist(c), ~ApplyLivenessOutcome(c, verdict[c])
          PROVE  UNCHANGED record
      BY <3>1 DEF Continue, Lookup, CreateJob, Submit, TrackJob, ApplyOwn, tables
    <3>2. ASSUME NEW c \in Calls, Settle(c)
          PROVE  UNCHANGED record \/ \E answered : PollLivenessJob(c, answered)
      BY <3>2 DEF Settle, HandleLivenessWebhook, PollPending, LastLook, Expire
    <3> QED
      BY <1>1, <3>1, <3>2 DEF KycNext, Reserve, ProviderDecides, JobGrowsOld, LeaveWindow, Prune,
                              ReadUser, SaveUser,
                              Crash, kycVars, tables
  <2> QED
    BY <2>2, <2>3, <2>4, <2>5, <2>6
<1> QED
  BY <1>1, KycInvHolds, PTL DEF IdentityNeverReplaced, KycSpec
=============================================================================
