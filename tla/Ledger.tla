------------------------------- MODULE Ledger -------------------------------
(***************************************************************************)
(* The money-moving state of Cliqpay as one PostgreSQL database: the       *)
(* `accounts` cache, the append-only `ledger_entries`, the `transactions`  *)
(* rows, and the column that moves in the same database transactions,      *)
(* `disputes.status`.  `users.is_frozen`, which no posting reads under its *)
(* locks, is in Disputes.                                                  *)
(*                                                                         *)
(* One action is one committed database transaction of LedgerService (or   *)
(* of the service that opens it), with every guard the code evaluates      *)
(* under its row locks.  What happens between database transactions        *)
(* (provider calls, lost webhooks, crashes) is the subject of the other    *)
(* modules; here any caller may run at any time.                           *)
(*                                                                         *)
(* Accounts are integers: wallets are 1..NumWallets, system accounts are   *)
(* negative.  A reference is an integer; 0 stands for SQL's NULL.          *)
(***************************************************************************)
EXTENDS Integers, Sequences, Sums

CONSTANTS
  NumWallets,         \* user wallets
  NumReferences,      \* client, or operator, supplied references
  Amounts,            \* requested and provider-reported amounts, minor units
  ChargeFees,         \* provider fees Kora may report for a charge
  TransferFee,        \* config.transfers.platformFee
  WithdrawalFee,      \* config.withdrawals.platformFee
  PayoutFee,          \* config.withdrawals.providerFee
  MaxRefundAttempts   \* bound on the attempts of a funding (5 in payments.service.ts)

ASSUME LedgerAssumption ==
  /\ NumWallets \in Nat
  /\ NumReferences \in Nat
  /\ Amounts \subseteq Nat
  /\ ChargeFees \subseteq Nat
  /\ TransferFee \in Nat
  /\ WithdrawalFee \in Nat
  /\ PayoutFee \in Nat
  /\ MaxRefundAttempts \in Nat

VARIABLES
  balance,      \* accounts.balance, the cache
  entries,      \* ledger_entries of each account, in insertion order
  txns,         \* the transactions row of each reference
  attempts,     \* status of the funding_refund rows rfd-<funding>-<n>
  compensated,  \* references whose -reversal or -resolved row exists
  disputes      \* disputes.status, by the chargeback's reference

vars == <<balance, entries, txns, attempts, compensated, disputes>>

-----------------------------------------------------------------------------
(* Accounts, rows and their types *)

Wallets == 1..NumWallets
Float == -1
Suspense == -2
FeeIncome == -3
FeeExpense == -4
FeeRecovery == -5
SystemAccounts == {Float, Suspense, FeeIncome, FeeExpense, FeeRecovery}
Accounts == Wallets \cup SystemAccounts

\* accounts.type: assets and expenses grow on the debit side.
DebitNormal == {Float, FeeExpense}

References == 1..NumReferences
Null == 0

TransactionType == {"none", "funding", "p2p_transfer", "withdrawal", "chargeback"}
TransactionStatus == {"none", "pending", "completed", "failed", "held",
                      "refunded", "reversed", "disputed"}
Row == [type : TransactionType, status : TransactionStatus, amount : Nat,
        sender : Wallets \cup {Null}, recipient : Wallets \cup {Null},
        reverses : References \cup {Null},
        checkout : {"null", "url", "threw"}]
Attempt == {"pending", "failed", "completed"}
\* A transaction is a reference and the suffix or prefix of a derived one.
TransactionKey == References \X {"", "rfd", "-reversal", "-resolved"}
Entry == [transaction : TransactionKey, direction : {"debit", "credit"},
          amount : Nat, runningBalance : Int]

NoRow == [type |-> "none", status |-> "none", amount |-> 0, sender |-> Null,
          recipient |-> Null, reverses |-> Null, checkout |-> "null"]

-----------------------------------------------------------------------------
(* Posting *)

\* One ledger_entries row, and what the same code adds to the cached balance.
Leg(direction, amount, change) ==
  [direction |-> direction, amount |-> amount, change |-> change]

\* Saves the cached balance of every locked account and its entry, in one
\* database transaction.
Post(transaction, legs) ==
  /\ balance' = [a \in Accounts |->
                   IF a \in DOMAIN legs THEN balance[a] + legs[a].change
                                        ELSE balance[a]]
  /\ entries' = [a \in Accounts |->
                   IF a \in DOMAIN legs
                   THEN Append(entries[a],
                               [transaction    |-> transaction,
                                direction      |-> legs[a].direction,
                                amount         |-> legs[a].amount,
                                runningBalance |-> balance[a] + legs[a].change])
                   ELSE entries[a]]

PostNothing == UNCHANGED <<balance, entries>>

\* UQ_transactions_reference: a row can be inserted only under a free reference.
Unused(r) == txns[r].type = "none"

\* Mutant: the UPDATE does not check the status.
IsOfType(r, type) == txns[r].type = type

\* The WHERE clause of the guarded UPDATEs.
IsPending(r, type) == txns[r].type = type /\ txns[r].status = "pending"

-----------------------------------------------------------------------------
(* Funding *)

CreatePendingFunding(r, w, amount) ==
  /\ Unused(r)
  /\ txns' = [txns EXCEPT ![r] =
                [NoRow EXCEPT !.type = "funding", !.status = "pending",
                              !.amount = amount, !.recipient = w]]
  /\ PostNothing
  /\ UNCHANGED <<attempts, compensated, disputes>>

\* fundWallet's two ends: the checkout URL is recorded, or the provider call
\* threw and the row is marked failed, whatever its status.
SetFundingCheckoutUrl(r) ==
  /\ txns[r].type = "funding"
  /\ txns[r].checkout = "null"
  /\ txns' = [txns EXCEPT ![r].checkout = "url"]
  /\ PostNothing
  /\ UNCHANGED <<attempts, compensated, disputes>>

MarkFundingTransactionFailed(r) ==
  /\ txns[r].type = "funding"
  /\ txns[r].checkout = "null"
  /\ txns' = [txns EXCEPT ![r].status = "failed", ![r].checkout = "threw"]
  /\ PostNothing
  /\ UNCHANGED <<attempts, compensated, disputes>>

\* What the provider says of a charge.  A payer can only pay on a checkout
\* page, so Kora reports a success only once the URL was handed out.
Facts == [providerStatus : {"success", "failed"}, netAmount : Amounts,
          providerFee : ChargeFees]
Reportable(r, facts) ==
  facts.providerStatus = "success" => txns[r].checkout = "url"

\* claimPendingFunding: the status a pending funding is flipped to.
ClaimedStatus(r, facts, successStatus) ==
  IF facts.providerStatus = "success" /\ facts.netAmount = txns[r].amount
  THEN successStatus
  ELSE "failed"

FundingLegs(w, facts) ==
  [a \in {w, Float, FeeExpense, FeeRecovery} |->
     CASE a = Float       -> Leg("debit",  facts.netAmount,   facts.netAmount)
       [] a = w           -> Leg("credit", facts.netAmount,   facts.netAmount)
       [] a = FeeExpense  -> Leg("debit",  facts.providerFee, facts.providerFee)
       [] a = FeeRecovery -> Leg("credit", facts.providerFee, facts.providerFee)]

PostFunding(r, facts) ==
  /\ IsPending(r, "funding")
  /\ Reportable(r, facts)
  /\ txns' = [txns EXCEPT ![r].status = ClaimedStatus(r, facts, "completed")]
  /\ IF ClaimedStatus(r, facts, "completed") = "completed"
     THEN Post(<<r, "">>, FundingLegs(txns[r].recipient, facts))
     ELSE PostNothing
  /\ UNCHANGED <<attempts, compensated, disputes>>

\* A completed charge that would breach the balance cap: the net amount goes
\* to suspense and the first refund attempt row is created.
HoldFunding(r, facts) ==
  /\ IsPending(r, "funding")
  /\ Reportable(r, facts)
  /\ txns' = [txns EXCEPT ![r].status = ClaimedStatus(r, facts, "held")]
  /\ IF ClaimedStatus(r, facts, "held") = "held"
     THEN /\ Post(<<r, "">>, FundingLegs(Suspense, facts))
          /\ attempts' = [attempts EXCEPT ![r] =
                            Append(@, "pending")]
     ELSE PostNothing /\ UNCHANGED attempts
  /\ UNCHANGED <<compensated, disputes>>

-----------------------------------------------------------------------------
(* Refunds of held fundings *)

\* Mutant: the locked funding's status is not checked.
IsFunding(r) == txns[r].type = "funding"

\* What startRefundAttempt and settleRefund require of the locked funding.
IsHeldFunding(r) == txns[r].type = "funding" /\ txns[r].status = "held"

StartRefundAttempt(r) ==
  /\ IsHeldFunding(r)
  /\ \A n \in DOMAIN attempts[r] : attempts[r][n] # "pending"
  /\ Len(attempts[r]) < MaxRefundAttempts
  /\ attempts' = [attempts EXCEPT ![r] = Append(@, "pending")]
  /\ PostNothing
  /\ UNCHANGED <<txns, compensated, disputes>>

\* Mutants: the money is thought to stay in the float; the directions are
\* those of a hold.
RefundLegsNoFloat(amount) ==
  [a \in {Suspense} |-> Leg("debit", amount, -amount)]

RefundLegsSwapped(amount) ==
  [a \in {Suspense, Float} |->
     CASE a = Suspense -> Leg("credit", amount, -amount)
       [] a = Float    -> Leg("debit",  amount, -amount)]

RefundLegs(amount) ==
  [a \in {Suspense, Float} |->
     CASE a = Suspense -> Leg("debit",  amount, -amount)
       [] a = Float    -> Leg("credit", amount, -amount)]

\* supersedePendingAttempts: every other pending attempt is failed.
Settled(history, n) ==
  [m \in DOMAIN history |-> IF m = n THEN "completed"
                           ELSE IF history[m] = "pending" THEN "failed"
                           ELSE history[m]]

\* An attempt already marked failed still settles: the money left the provider.
SettleRefund(r, n, reported) ==
  /\ reported = txns[r].amount
  /\ IsHeldFunding(r)
  /\ attempts[r][n] \in {"pending", "failed"}
  /\ attempts' = [attempts EXCEPT ![r] = Settled(@, n)]
  /\ txns' = [txns EXCEPT ![r].status = "refunded"]
  /\ Post(<<r, "rfd">>, RefundLegs(txns[r].amount))
  /\ UNCHANGED <<compensated, disputes>>

FailRefund(r, n) ==
  /\ attempts[r][n] = "pending"
  /\ attempts' = [attempts EXCEPT ![r][n] = "failed"]
  /\ PostNothing
  /\ UNCHANGED <<txns, compensated, disputes>>

-----------------------------------------------------------------------------
(* Transfers and withdrawals *)

\* A zero fee posts two legs, not three.
TransferLegs(sender, recipient, amount) ==
  [a \in {sender, recipient} \cup IF TransferFee > 0 THEN {FeeIncome} ELSE {} |->
     CASE a = sender    -> Leg("debit",  amount + TransferFee, -(amount + TransferFee))
       [] a = recipient -> Leg("credit", amount, amount)
       [] a = FeeIncome -> Leg("credit", TransferFee, TransferFee)]

\* Mutant: the fees are left out of the comparison.
HasAmount(w, amount, fees) == balance[w] >= amount

\* InsufficientFundsException: the locked wallet must cover amount and fees.
HasFunds(w, amount, fees) == balance[w] >= amount + fees

\* is_frozen was read before this transaction (prepareTransfer) and may have
\* changed since: it is no guard here.
PostTransfer(r, sender, recipient, amount) ==
  /\ Unused(r)
  /\ sender # recipient
  /\ HasFunds(sender, amount, TransferFee)
  /\ txns' = [txns EXCEPT ![r] =
                [NoRow EXCEPT !.type = "p2p_transfer", !.status = "completed",
                              !.amount = amount, !.sender = sender,
                              !.recipient = recipient]]
  /\ Post(<<r, "">>, TransferLegs(sender, recipient, amount))
  /\ UNCHANGED <<attempts, compensated, disputes>>

WalletDebit(amount) == amount + WithdrawalFee + PayoutFee
FloatCredit(amount) == amount + PayoutFee

WithdrawalLegs(w, amount) ==
  [a \in {w, Float, FeeIncome, FeeExpense, FeeRecovery} |->
     CASE a = w           -> Leg("debit",  WalletDebit(amount), -WalletDebit(amount))
       [] a = Float       -> Leg("credit", FloatCredit(amount), -FloatCredit(amount))
       [] a = FeeIncome   -> Leg("credit", WithdrawalFee, WithdrawalFee)
       [] a = FeeExpense  -> Leg("debit",  PayoutFee, PayoutFee)
       [] a = FeeRecovery -> Leg("credit", PayoutFee, PayoutFee)]

PostWithdrawal(r, w, amount) ==
  /\ Unused(r)
  /\ HasFunds(w, amount, WithdrawalFee + PayoutFee)
  /\ txns' = [txns EXCEPT ![r] =
                [NoRow EXCEPT !.type = "withdrawal", !.status = "pending",
                              !.amount = amount, !.sender = w]]
  /\ Post(<<r, "">>, WithdrawalLegs(w, amount))
  /\ UNCHANGED <<attempts, compensated, disputes>>

\* The mirror image of WithdrawalLegs, as reverseWithdrawalEntries posts it:
\* the fee_expense entry is a credit, yet the fee is added to its balance.
ReversalLegs(w, amount) ==
  [a \in {w, Float, FeeIncome, FeeExpense, FeeRecovery} |->
     CASE a = w           -> Leg("credit", WalletDebit(amount), WalletDebit(amount))
       [] a = Float       -> Leg("debit",  FloatCredit(amount), FloatCredit(amount))
       [] a = FeeIncome   -> Leg("debit",  WithdrawalFee, -WithdrawalFee)
       [] a = FeeExpense  -> Leg("credit", PayoutFee, PayoutFee)
       [] a = FeeRecovery -> Leg("debit",  PayoutFee, -PayoutFee)]

ReverseWithdrawal(r) ==
  /\ IsPending(r, "withdrawal")
  /\ txns' = [txns EXCEPT ![r].status = "reversed"]
  /\ compensated' = compensated \cup {r}
  /\ Post(<<r, "-reversal">>, ReversalLegs(txns[r].sender, txns[r].amount))
  /\ UNCHANGED <<attempts, disputes>>

\* A reported amount that does not match leaves the withdrawal pending.
CompleteWithdrawal(r, reported) ==
  /\ reported = txns[r].amount
  /\ IsPending(r, "withdrawal")
  /\ txns' = [txns EXCEPT ![r].status = "completed"]
  /\ PostNothing
  /\ UNCHANGED <<attempts, compensated, disputes>>

-----------------------------------------------------------------------------
(* Chargebacks and disputes *)

IsChargebackOf(c, o) == txns[c].type = "chargeback" /\ txns[c].reverses = o

\* SUM(amount) of the chargeback rows against o; they are created completed
\* and no statement changes their status.
ChargedBack(o) ==
  SumUpTo([c \in References |->
             IF IsChargebackOf(c, o) THEN txns[c].amount ELSE 0], NumReferences)

ChargebackLegs(w, amount) ==
  [a \in {w, Float} |->
     CASE a = w     -> Leg("debit",  amount, -amount)
       [] a = Float -> Leg("credit", amount, -amount)]

Remaining(o) == txns[o].amount - ChargedBack(o)

\* The original's status is read before the transaction that locks its row,
\* so an uphold may have made it "reversed" in between; the cap is derived
\* under the lock.
ChargebackableWhenRead == {"completed", "disputed", "reversed"}

RecordChargeback(c, o, amount) ==
  LET w == txns[o].recipient IN
  /\ Unused(c)
  /\ txns[o].type = "funding"
  /\ txns[o].status \in ChargebackableWhenRead
  /\ amount <= Remaining(o)
  /\ txns' = [txns EXCEPT
                ![c] = [NoRow EXCEPT !.type = "chargeback", !.status = "completed",
                                     !.amount = amount, !.sender = w,
                                     !.reverses = o],
                ![o].status = "disputed"]
  /\ Post(<<c, "">>, ChargebackLegs(w, amount))
  /\ disputes' = [disputes EXCEPT ![c] = "open"]
  /\ UNCHANGED <<attempts, compensated>>

\* recomputeOriginalTransactionStatus over the disputes it reads.
AggregateStatus(o, status) ==
  LET siblings == {status[c] : c \in {x \in References : IsChargebackOf(x, o)}}
  IN  IF "open" \in siblings THEN "disputed"
      ELSE IF "upheld" \in siblings THEN "reversed"
      ELSE "completed"

ResolveAsUpheld(c) ==
  LET o == txns[c].reverses IN
  /\ disputes[c] = "open"
  /\ disputes' = [disputes EXCEPT ![c] = "upheld"]
  /\ txns' = [txns EXCEPT ![o].status = AggregateStatus(o, disputes')]
  /\ PostNothing
  /\ UNCHANGED <<attempts, compensated>>

ResolutionLegs(w, amount) ==
  [a \in {w, Float} |->
     CASE a = Float -> Leg("debit",  amount, amount)
       [] a = w     -> Leg("credit", amount, amount)]

ResolveInCliqpaysFavor(c, amount) ==
  LET o == txns[c].reverses
      w == txns[c].sender
  IN
  /\ disputes[c] = "open"
  /\ amount = txns[c].amount
  /\ Post(<<c, "-resolved">>, ResolutionLegs(w, amount))
  /\ compensated' = compensated \cup {c}
  /\ disputes' = [disputes EXCEPT ![c] = "resolved"]
  /\ txns' = [txns EXCEPT ![o].status = AggregateStatus(o, disputes')]
  /\ UNCHANGED attempts

-----------------------------------------------------------------------------
Init ==
  /\ balance = [a \in Accounts |-> 0]
  /\ entries = [a \in Accounts |-> <<>>]
  /\ txns = [r \in References |-> NoRow]
  /\ attempts = [r \in References |-> <<>>]
  /\ compensated = {}
  /\ disputes = [r \in References |-> "none"]

FundingStep(r) ==
  \/ \E w \in Wallets, amount \in Amounts : CreatePendingFunding(r, w, amount)
  \/ SetFundingCheckoutUrl(r)
  \/ MarkFundingTransactionFailed(r)
  \/ \E facts \in Facts : PostFunding(r, facts)
  \/ \E facts \in Facts : HoldFunding(r, facts)

RefundStep(r) ==
  \/ StartRefundAttempt(r)
  \/ \E n \in DOMAIN attempts[r], reported \in Amounts : SettleRefund(r, n, reported)
  \/ \E n \in DOMAIN attempts[r] : FailRefund(r, n)

PaymentStep(r) ==
  \/ \E s, t \in Wallets, amount \in Amounts : PostTransfer(r, s, t, amount)
  \/ \E w \in Wallets, amount \in Amounts : PostWithdrawal(r, w, amount)
  \/ ReverseWithdrawal(r)
  \/ \E reported \in Amounts : CompleteWithdrawal(r, reported)

DisputeStep(r) ==
  \/ \E o \in References, amount \in Amounts : RecordChargeback(r, o, amount)
  \/ ResolveAsUpheld(r)
  \/ \E amount \in Amounts : ResolveInCliqpaysFavor(r, amount)

Next ==
  \E r \in References :
    FundingStep(r) \/ RefundStep(r) \/ PaymentStep(r) \/ DisputeStep(r)

Spec == Init /\ [][Next]_vars

-----------------------------------------------------------------------------
(* Properties *)

\* The columns hold what their types allow, the amount of an entry is never
\* negative (the direction carries the sign), and a status is one of the enum.
TypeOK ==
  /\ balance \in [Accounts -> Int]
  /\ entries \in [Accounts -> Seq(Entry)]
  /\ txns \in [References -> Row]
  /\ attempts \in [References -> Seq(Attempt)]
  /\ compensated \subseteq References
  /\ disputes \in [References -> {"none", "open", "upheld", "resolved"}]

\* Statuses under which the funding's money is, or was, in the user's wallet.
Credited == {"completed", "disputed", "reversed"}

\* Rows refer to what they must: every dispute belongs to a chargeback, and
\* every chargeback points at a funding that was credited to the wallet it
\* debits and has stayed credited since; money is only ever received for a
\* funding whose checkout page was handed out.
WellFormedRows ==
  \A r \in References :
    LET row == txns[r] IN
    /\ disputes[r] # "none" => row.type = "chargeback"
    /\ row.type = "chargeback" =>
         /\ row.reverses \in References
         /\ row.sender \in Wallets
         /\ txns[row.reverses].type = "funding"
         /\ txns[row.reverses].status \in Credited
         /\ txns[row.reverses].recipient = row.sender
    /\ row.status = "held" => row.type = "funding"
    /\ row.type = "funding" => row.recipient \in Wallets
    /\ row.type = "funding" /\ row.status \notin {"pending", "failed"} =>
         row.checkout = "url"
    /\ row.type = "withdrawal" => row.sender \in Wallets
    /\ row.type = "p2p_transfer" =>
         row.sender \in Wallets /\ row.recipient \in Wallets \ {row.sender}

\* architecture.md 4.3: the float is exactly what Cliqpay owes its users, its
\* fee income and what it holds for refund.  Every posting of every service
\* has to keep it.
BalanceSheet ==
  balance[Float] = SumUpTo([w \in Wallets |-> balance[w]], NumWallets)
                     + balance[FeeIncome] + balance[Suspense]

\* What the statuses say row r means for wallet w.
Contribution(r, w) ==
  LET row == txns[r] IN
  CASE row.type = "funding" /\ row.recipient = w /\ row.status \in Credited -> row.amount
    [] row.type = "p2p_transfer" /\ row.sender = w -> -(row.amount + TransferFee)
    [] row.type = "p2p_transfer" /\ row.recipient = w -> row.amount
    [] row.type = "withdrawal" /\ row.sender = w /\ row.status # "reversed"
         -> -WalletDebit(row.amount)
    [] row.type = "chargeback" /\ row.sender = w /\ disputes[r] # "resolved" -> -row.amount
    [] OTHER -> 0

\* A wallet holds exactly what the statuses of its transactions and disputes
\* say: nothing is credited twice by a duplicate delivery, lost by a failure
\* path, or reversed and completed both.
StatusesExplainWallets ==
  \A w \in Wallets :
    balance[w] = SumUpTo([r \in References |-> Contribution(r, w)], NumReferences)

\* Suspense is the money of the held fundings and nothing else: each held
\* funding leaves it exactly once, however many attempts were made.
SuspenseBacksHeldFundings ==
  balance[Suspense] =
    SumUpTo([r \in References |->
               IF txns[r].status = "held" THEN txns[r].amount ELSE 0], NumReferences)

\* The chargebacks that stand against wallet w: open or upheld.
Standing(w) ==
  SumUpTo([r \in References |->
             IF txns[r].type = "chargeback" /\ txns[r].sender = w /\ disputes[r] # "resolved"
             THEN txns[r].amount ELSE 0], NumReferences)

\* architecture.md 4.2: a wallet goes negative by the chargebacks of money that
\* was spent, and by nothing else.  Whatever order chargebacks, resolutions,
\* reversals and payments come in, a debt is within the chargebacks that stand.
DebtsAreChargebacks == \A w \in Wallets : balance[w] + Standing(w) >= 0

\* What an entry does to a balance, from its direction and the account's type.
Effect(a, entry) ==
  IF (entry.direction = "debit") <=> (a \in DebitNormal)
  THEN entry.amount
  ELSE -entry.amount

\* The entries of account a tell its whole history: each running balance is
\* the previous one plus the entry's effect, and the last is the cache.
HistoryExplainsBalance(a) ==
  LET h == entries[a]
      Before(i) == IF i = 1 THEN 0 ELSE h[i - 1].runningBalance
  IN  /\ \A i \in DOMAIN h :
            h[i].runningBalance = Before(i) + Effect(a, h[i])
      /\ balance[a] = IF h = <<>> THEN 0 ELSE h[Len(h)].runningBalance

\* Holds for every account but fee_expense (see FeesRecovered).
CacheMatchesEntries ==
  \A a \in Accounts \ {FeeExpense} : HistoryExplainsBalance(a)

\* architecture.md: fee_recovery "always equals fee_expense above".
FeesRecovered == balance[FeeRecovery] = balance[FeeExpense]

=============================================================================
