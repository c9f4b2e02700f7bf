------------------------------- MODULE Limits -------------------------------
(***************************************************************************)
(* KYC limits under concurrency: the balance cap and the daily debit limit *)
(* of KycService, enforced inside the transactions of fundWallet,          *)
(* completeFunding (webhook and poll), finalizeTransfer and                *)
(* initiateWithdrawal, at the grain of the advisory locks they take.       *)
(* Kora's checkout (external) and the credits that bypass the limits       *)
(* (reversed withdrawals, disputes resolved in Cliqpay's favour) run in    *)
(* between.                                                                *)
(*                                                                         *)
(* Users are integers, in the order of their ids.  A lock is an integer,   *)
(* the hashtext of a user's id or of a pair's: users may share one, and so *)
(* may a user and a pair.  Where calls then wait for each other in a       *)
(* circle, PostgreSQL aborts one of them.                                  *)
(***************************************************************************)
EXTENDS Integers, Sums

CONSTANTS
  NumUsers, NumReferences,
  Workers,          \* concurrent requests, webhook deliveries and poll runs
  Requests,         \* what clients ask for: records of kind, from, to and amount
  ChargeFee,        \* Kora's fee on a charge, borne by the payer
  Hash,             \* Hash[u]: hashtext of the id of user u
  PairHash,         \* PairHash[s][t]: hashtext of "social-pair:s:t", where s < t
  MaxKey,           \* the largest int4, hashtext's type
  Cap,              \* Cap[u]: tier_limits.balance_cap_minor, Null for none
  DailyLimit,       \* DailyLimit[u]: tier_limits.daily_debit_limit_minor
  StartBalance,     \* StartBalance[u]: the wallet before the modelled history
  MaxRequests,      \* bound on requests, retries of a reference included
  MaxDay,           \* bound on midnights
  MaxCrashes        \* bound on process crashes

Users == 1..NumUsers
Keys == (-MaxKey - 1)..MaxKey
References == 1..NumReferences
Null == -1
Nobody == 0

ASSUME LimitsAssumption ==
  /\ NumUsers \in Nat /\ NumReferences \in Nat
  /\ MaxRequests \in Nat /\ MaxDay \in Nat /\ MaxCrashes \in Nat
  /\ Requests \subseteq [kind : {"fund", "transfer", "withdrawal"}, amount : Nat \ {0},
                           from : 0..NumUsers, to : 0..NumUsers]
  /\ \A q \in Requests : /\ q.from # q.to
                         /\ q.kind = "fund" <=> q.from = 0
                         /\ q.kind = "withdrawal" <=> q.to = 0
  /\ ChargeFee \in Nat \ {0}
  /\ DailyLimit \in [Users -> Nat]
  /\ MaxKey \in Nat
  /\ Hash \in [Users -> Keys] /\ PairHash \in [Users -> [Users -> Keys]]
  /\ Cap \in [Users -> Nat \cup {Null}]
  /\ StartBalance \in [Users -> Nat]
  /\ \A u \in Users : Cap[u] = Null \/ StartBalance[u] <= Cap[u]

VARIABLES
  balance,   \* accounts.balance of each user's wallet
  rows,      \* the transactions row of each reference
  charge,    \* the charge Kora keeps for a reference
  job,       \* what each worker is doing
  pc,        \* where it is
  locks,     \* the advisory locks its transaction holds
  exempt,    \* money credited to a user past the limits
  received,  \* requests so far
  today,
  crashes

vars == <<balance, rows, charge, job, pc, locks, exempt, received, today, crashes>>

NoRow == [type |-> "none", status |-> "none", amount |-> 0, from |-> Nobody,
          to |-> Nobody, created |-> 0, straddles |-> FALSE, fresh |-> TRUE,
          checkout |-> FALSE, chargedBack |-> FALSE]
NoJob == [kind |-> "none", reference |-> 0, amount |-> 0, from |-> Nobody,
          to |-> Nobody, began |-> 0, straddles |-> FALSE, verdict |-> "none"]

-----------------------------------------------------------------------------
(* What the checks read *)

Pending(r) == rows[r].type = "funding" /\ rows[r].status = "pending"

\* Mutants: pending fundings are not counted; a pending withdrawal is not a
\* debit yet.
NoPendingFunding(u) == 0

DebitedCompleted(u, day) ==
  SumUpTo([r \in References |->
             IF /\ rows[r].type \in {"p2p_transfer", "withdrawal"} /\ rows[r].from = u
                /\ rows[r].status = "completed"
                /\ rows[r].created >= day
             THEN rows[r].amount ELSE 0], NumReferences)

\* BALANCE_AND_PENDING_FUNDING_SQL: fundings pending for at most 24 hours.
PendingFunding(u) ==
  SumUpTo([r \in References |->
             IF Pending(r) /\ rows[r].to = u /\ rows[r].fresh
             THEN rows[r].amount ELSE 0], NumReferences)

\* debitedSinceQuery: principal sent since the start of the day.
DebitedSince(u, day) ==
  SumUpTo([r \in References |->
             IF /\ rows[r].type \in {"p2p_transfer", "withdrawal"} /\ rows[r].from = u
                /\ rows[r].status \in {"pending", "completed"}
                /\ rows[r].created >= day
             THEN rows[r].amount ELSE 0], NumReferences)

\* evaluateBalanceCapLocked.  A cap of zero allows nothing, a NULL cap anything.
CapAllows(u, projected) == Cap[u] = Null \/ projected <= Cap[u]

\* checkDailyLimitLocked.
DailyLimitAllows(u, amount) == DebitedSince(u, today) + amount <= DailyLimit[u]

\* Mutant: a webhook's amount is always taken for the gross one.
NetOfFee(source, reported, requested) ==
  IF source = "webhook" THEN reported - ChargeFee ELSE reported

\* Kora's webhook reports the gross amount when the payer bears the fee.
NetAmount(source, reported, requested) ==
  IF source = "webhook" /\ reported # requested THEN reported - ChargeFee ELSE reported

-----------------------------------------------------------------------------
(* Advisory locks *)

\* lockPair and lockUser take keys of one space.
PairLock(s, t) == IF s < t THEN PairHash[s][t] ELSE PairHash[t][s]
UserLock(u) == Hash[u]

JobUsers(j) == {j.from, j.to} \ {Nobody}
WantedLocks(j) ==
  {UserLock(u) : u \in JobUsers(j)}
    \cup IF j.kind = "transfer" THEN {PairLock(j.from, j.to)} ELSE {}

\* Mutant: the users' locks are taken in the order of their ids.
NextLockById(w) ==
  LET missing == WantedLocks(job[w]) \ locks[w]
      users == {u \in JobUsers(job[w]) : UserLock(u) \in missing}
  IN  IF job[w].kind = "transfer" /\ PairLock(job[w].from, job[w].to) \in missing
      THEN PairLock(job[w].from, job[w].to)
      ELSE UserLock(CHOOSE u \in users : \A v \in users : u <= v)

\* lockPairAndCheckBlock runs first; then lockUsersInKeyOrder.  A key that the
\* transaction holds already is granted at once.
NextLock(w) ==
  LET missing == WantedLocks(job[w]) \ locks[w] IN
  IF job[w].kind = "transfer" /\ PairLock(job[w].from, job[w].to) \in missing
  THEN PairLock(job[w].from, job[w].to)
  ELSE CHOOSE l \in missing : \A k \in missing : l <= k

At(w, step) == pc[w] = step
Goto(w, step) == pc' = [pc EXCEPT ![w] = step]

\* Commit or rollback: advisory transaction locks go with the transaction.
Release(w) == locks' = [locks EXCEPT ![w] = {}]

EndJob(w) ==
  /\ job' = [job EXCEPT ![w] = NoJob]
  /\ Goto(w, "idle")

-----------------------------------------------------------------------------
(* A call finds no earlier transaction under its reference and opens its own *)

Begin(w, j) ==
  /\ At(w, "idle")
  /\ job' = [job EXCEPT ![w] = [j EXCEPT !.began = IF j.from = Nobody THEN 0 ELSE today]]
  /\ Goto(w, "lock")
  /\ UNCHANGED <<balance, rows, charge, locks, exempt, today, crashes>>

\* fundWallet, executeTransfer, initiateWithdrawal.
Receive(w, r, q) ==
  /\ received < MaxRequests
  /\ received' = received + 1
  /\ rows[r].type = "none"
  /\ Begin(w, [NoJob EXCEPT !.kind = q.kind, !.reference = r, !.amount = q.amount,
                            !.from = q.from, !.to = q.to])

\* What Kora reports as the amount of a paid charge.
Reported(r, source) ==
  LET requested == rows[r].amount IN
  IF charge[r] = "misreported" THEN {requested + ChargeFee + 1}
  ELSE IF source = "webhook" THEN {requested, requested + ChargeFee}
  ELSE {requested}

\* completeFunding of a success: findPendingFunding, read without a lock, tells
\* whose lock to take.  A funding no longer pending is left as it is.
CompleteFunding(w, r, source) ==
  /\ charge[r] \in {"paid", "misreported"}
  /\ Pending(r)
  /\ UNCHANGED received
  /\ \E reported \in Reported(r, source) :
       Begin(w, [NoJob EXCEPT !.kind = "complete", !.reference = r, !.to = rows[r].to,
                              !.amount = NetAmount(source, reported, rows[r].amount)])

-----------------------------------------------------------------------------
(* Under the locks: check, then post and commit *)

\* Mutant: a funding that completes is always credited.
AlwaysCredit(j) == "completed"

\* checkIncomingCredit: only the stored balance counts.
IncomingVerdict(j) ==
  IF CapAllows(j.to, balance[j.to] + j.amount) THEN "completed" ELSE "held"

\* checkBalanceCap, checkTransferLimits, checkAndReserveLimit.
LimitsAllow(j) ==
  /\ j.from # Nobody => DailyLimitAllows(j.from, j.amount)
  /\ j.to # Nobody => CapAllows(j.to, balance[j.to] + PendingFunding(j.to) + j.amount)

\* The check that follows the last lock: the verdict on a completing funding,
\* or the refusal of a request.
Check(w) ==
  LET j == job[w] IN
  IF j.kind = "complete"
  THEN /\ job' = [job EXCEPT ![w].verdict = IncomingVerdict(j)]
       /\ Goto(w, "post")
       /\ locks' = [locks EXCEPT ![w] = WantedLocks(j)]
  ELSE IF LimitsAllow(j)
  THEN /\ job' = [job EXCEPT ![w].straddles = (j.from # Nobody /\ today # j.began)]
       /\ Goto(w, "post")
       /\ locks' = [locks EXCEPT ![w] = WantedLocks(j)]
  ELSE EndJob(w) /\ Release(w)

\* The check reads right after the last lock is granted: nothing that the
\* locks do not order could tell the two apart.
AcquireLock(w) ==
  LET l == NextLock(w) IN
  /\ At(w, "lock")
  /\ \A v \in Workers \ {w} : l \notin locks[v]
  /\ IF locks[w] \cup {l} = WantedLocks(job[w])
     THEN Check(w)
     ELSE /\ locks' = [locks EXCEPT ![w] = @ \cup {l}]
          /\ UNCHANGED <<job, pc>>
  /\ UNCHANGED <<balance, rows, charge, exempt, received, today, crashes>>

WaitsFor(w, v) == v # w /\ At(w, "lock") /\ NextLock(w) \in locks[v]

\* Every call of the set waits for another, and another for it.
Cycle(S) ==
  /\ S # {}
  /\ \A w \in S : (\E v \in S : WaitsFor(w, v)) /\ (\E v \in S : WaitsFor(v, w))

\* After deadlock_timeout PostgreSQL fails a statement that waits in a circle;
\* its transaction rolls back and the call answers with the error.
AbortDeadlocked(w) ==
  /\ \E S \in SUBSET Workers : w \in S /\ Cycle(S)
  /\ EndJob(w)
  /\ Release(w)
  /\ UNCHANGED <<balance, rows, charge, exempt, received, today, crashes>>

\* created_at is the time the transaction began, not the time it inserts.
Insert(j, type, status) ==
  rows' = [rows EXCEPT ![j.reference] =
             [NoRow EXCEPT !.type = type, !.status = status, !.amount = j.amount,
                           !.from = j.from, !.to = j.to, !.created = j.began,
                           !.straddles = j.straddles]]

\* The balance check of the posting, under the wallet's row lock.
Affords(j) == j.from # Nobody => balance[j.from] >= j.amount

\* createPendingFundingTransaction: the unique reference lets one request on
\* to the provider; the other rolls back and answers from the winner's row.
PostFundRequest(w) ==
  LET j == job[w] IN
  /\ At(w, "post") /\ j.kind = "fund"
  /\ IF rows[j.reference].type = "none"
     THEN /\ Insert(j, "funding", "pending")
          /\ Goto(w, "initiate")
          /\ UNCHANGED job
     ELSE EndJob(w) /\ UNCHANGED rows
  /\ Release(w)
  /\ UNCHANGED <<balance, charge, exempt, received, today, crashes>>

\* postTransfer and postWithdrawal.
PostDebit(w) ==
  LET j == job[w] IN
  /\ At(w, "post") /\ j.kind \in {"transfer", "withdrawal"}
  /\ IF rows[j.reference].type = "none" /\ Affords(j)
     THEN /\ balance' = [u \in Users |-> balance[u] - (IF u = j.from THEN j.amount ELSE 0)
                                                    + (IF u = j.to THEN j.amount ELSE 0)]
          /\ IF j.kind = "transfer" THEN Insert(j, "p2p_transfer", "completed")
                                    ELSE Insert(j, "withdrawal", "pending")
     ELSE UNCHANGED <<balance, rows>>
  /\ EndJob(w)
  /\ Release(w)
  /\ UNCHANGED <<charge, exempt, received, today, crashes>>

\* claimPendingFunding and the posting: credited, held in suspense, or failed
\* on an amount that is not the requested one.
PostCompletion(w) ==
  LET j == job[w]
      r == j.reference
      status == IF j.amount = rows[r].amount THEN j.verdict ELSE "failed"
  IN
  /\ At(w, "post") /\ j.kind = "complete"
  /\ IF Pending(r)
     THEN /\ rows' = [rows EXCEPT ![r].status = status]
          /\ balance' = [balance EXCEPT ![j.to] = IF status = "completed" THEN @ + j.amount ELSE @]
     ELSE UNCHANGED <<balance, rows>>
  /\ EndJob(w)
  /\ Release(w)
  /\ UNCHANGED <<charge, exempt, received, today, crashes>>

-----------------------------------------------------------------------------
(* The provider, after the commit *)

\* initiatePayment: answered, refused, or timed out after Kora accepted it.
InitiatePayment(w, outcome) ==
  LET r == job[w].reference IN
  /\ At(w, "initiate")
  /\ charge' = [charge EXCEPT ![r] = IF outcome = "refused" THEN @ ELSE "open"]
  /\ Goto(w, IF outcome = "answered" THEN "record" ELSE "fail")
  /\ UNCHANGED <<balance, rows, job, locks, exempt, received, today, crashes>>

SetFundingCheckoutUrl(w) ==
  /\ At(w, "record")
  /\ rows' = [rows EXCEPT ![job[w].reference].checkout = TRUE]
  /\ EndJob(w)
  /\ UNCHANGED <<balance, charge, locks, exempt, received, today, crashes>>

\* The status is written whatever it was.
MarkFundingTransactionFailed(w) ==
  /\ At(w, "fail")
  /\ rows' = [rows EXCEPT ![job[w].reference].status = "failed"]
  /\ EndJob(w)
  /\ UNCHANGED <<balance, charge, locks, exempt, received, today, crashes>>

Crash(w) ==
  /\ ~At(w, "idle")
  /\ crashes < MaxCrashes
  /\ crashes' = crashes + 1
  /\ EndJob(w)
  /\ Release(w)
  /\ UNCHANGED <<balance, rows, charge, exempt, received, today>>

\* The payer pays, or is declined, on the checkout page they were given.
Pay(r, outcome) ==
  /\ charge[r] = "open" /\ rows[r].checkout
  /\ charge' = [charge EXCEPT ![r] = outcome]
  /\ UNCHANGED <<balance, rows, job, pc, locks, exempt, received, today, crashes>>

\* A failed charge moves no money, so no lock is taken.
FailFunding(r) ==
  /\ charge[r] = "declined"
  /\ Pending(r)
  /\ rows' = [rows EXCEPT ![r].status = "failed"]
  /\ UNCHANGED <<balance, charge, job, pc, locks, exempt, received, today, crashes>>

-----------------------------------------------------------------------------
(* Movements past the limits, and time *)

\* The payout webhook or poll.
ResolveWithdrawal(r, status) ==
  LET u == rows[r].from
      back == IF status = "reversed" THEN rows[r].amount ELSE 0
  IN
  /\ rows[r].type = "withdrawal" /\ rows[r].status = "pending"
  /\ rows' = [rows EXCEPT ![r].status = status]
  /\ balance' = [balance EXCEPT ![u] = @ + back]
  /\ exempt' = [exempt EXCEPT ![u] = @ + back]
  /\ UNCHANGED <<charge, job, pc, locks, received, today, crashes>>

\* A full chargeback, possible once per funding.
RecordChargeback(r) ==
  /\ rows[r].type = "funding" /\ rows[r].status = "completed" /\ ~rows[r].chargedBack
  /\ rows' = [rows EXCEPT ![r].status = "disputed", ![r].chargedBack = TRUE]
  /\ balance' = [balance EXCEPT ![rows[r].to] = @ - rows[r].amount]
  /\ UNCHANGED <<charge, job, pc, locks, exempt, received, today, crashes>>

ResolveInCliqpaysFavor(r) ==
  LET u == rows[r].to IN
  /\ rows[r].status = "disputed"
  /\ rows' = [rows EXCEPT ![r].status = "completed"]
  /\ balance' = [balance EXCEPT ![u] = @ + rows[r].amount]
  /\ exempt' = [exempt EXCEPT ![u] = @ + rows[r].amount]
  /\ UNCHANGED <<charge, job, pc, locks, received, today, crashes>>

Midnight ==
  /\ today < MaxDay
  /\ today' = today + 1
  /\ UNCHANGED <<balance, rows, charge, job, pc, locks, exempt, received, crashes>>

\* A funding still pending after PENDING_FUNDING_WINDOW_HOURS.
LeaveWindow(r) ==
  /\ Pending(r) /\ rows[r].fresh
  /\ rows' = [rows EXCEPT ![r].fresh = FALSE]
  /\ UNCHANGED <<balance, charge, job, pc, locks, exempt, received, today, crashes>>

-----------------------------------------------------------------------------
Init ==
  /\ balance = StartBalance
  /\ rows = [r \in References |-> NoRow]
  /\ charge = [r \in References |-> "none"]
  /\ job = [w \in Workers |-> NoJob]
  /\ pc = [w \in Workers |-> "idle"]
  /\ locks = [w \in Workers |-> {}]
  /\ exempt = [u \in Users |-> 0]
  /\ received = 0
  /\ today = 1
  /\ crashes = 0

Settle(w) == \E r \in References, source \in {"webhook", "poll"} : CompleteFunding(w, r, source)

Outcome == {"answered", "refused", "timed out"}

Continue(w) ==
  \/ AcquireLock(w)
  \/ PostFundRequest(w)
  \/ PostDebit(w)
  \/ PostCompletion(w)
  \/ \E outcome \in Outcome : InitiatePayment(w, outcome)
  \/ SetFundingCheckoutUrl(w)
  \/ MarkFundingTransactionFailed(w)

Elsewhere(r) ==
  \/ \E outcome \in {"paid", "misreported", "declined"} : Pay(r, outcome)
  \/ FailFunding(r)
  \/ \E status \in {"completed", "reversed"} : ResolveWithdrawal(r, status)
  \/ RecordChargeback(r)
  \/ ResolveInCliqpaysFavor(r)
  \/ LeaveWindow(r)

Next ==
  \/ \E w \in Workers :
       \/ \E r \in References, q \in Requests : Receive(w, r, q)
       \/ Settle(w)
       \/ Continue(w)
       \/ AbortDeadlocked(w)
       \/ Crash(w)
  \/ \E r \in References : Elsewhere(r)
  \/ Midnight

\* A call that was accepted goes on (a lock is granted once it stays free), a
\* deadlock is detected, and the recurring funding poll finds what is pending.
Fairness ==
  /\ \A w \in Workers : WF_vars(Continue(w))
  /\ WF_vars(\E w \in Workers : AbortDeadlocked(w))
  /\ \A r \in References : WF_vars(\E w \in Workers : CompleteFunding(w, r, "poll"))

Spec == Init /\ [][Next]_vars /\ Fairness

-----------------------------------------------------------------------------
(* Properties *)

\* However requests, webhooks and polls overlap, a capped wallet never holds
\* more than its cap and what was given back to it past the limits.
BalanceCapHeld ==
  \A u \in Users : Cap[u] # Null => balance[u] <= Cap[u] + exempt[u]

\* Headroom that fundWallet granted is kept: a funding paid in time is held
\* only when money given back past the limits, or a funding paid after its
\* window, took the room.
HeldOnlyIfDisturbed ==
  \A r \in References :
    rows[r].status = "held" =>
      \/ exempt[rows[r].to] > 0
      \/ \E late \in References : /\ rows[late].type = "funding"
                                  /\ rows[late].to = rows[r].to
                                  /\ ~rows[late].fresh

\* The debits of one user that began and were checked on one day never exceed
\* the daily limit, whichever kinds of calls race; a call that waits for the
\* lock over midnight is counted on neither day.
DailyLimitHeld ==
  \A u \in Users, day \in 1..MaxDay :
    SumUpTo([r \in References |->
               IF /\ rows[r].from = u /\ rows[r].created = day /\ ~rows[r].straddles
                  /\ rows[r].status # "reversed"
               THEN rows[r].amount ELSE 0], NumReferences) <= DailyLimit[u]

\* lockUsersInKeyOrder after lockPair: transfers, fundings and withdrawals wait
\* for each other in a circle only where hashtext gives a user's id and a pair
\* one key.  Then some call waits for the lock of one of its users, and another
\* of the circle has taken that key for its pair.  Users with equal keys never
\* lead to one.
CyclesNeedCollision ==
  \A S \in SUBSET Workers :
    Cycle(S) =>
      \E v, w \in S : \E u \in JobUsers(job[w]) :
        /\ WaitsFor(w, v) /\ NextLock(w) = UserLock(u)
        /\ job[v].kind = "transfer" /\ UserLock(u) = PairLock(job[v].from, job[v].to)

\* What a payer paid is credited or held for refund in the end, even when
\* every webhook is lost and workers crash.
PaidIsCreditedOrHeld ==
  \A r \in References :
    charge[r] = "paid" ~> rows[r].status \in {"completed", "held", "disputed"}
=============================================================================
