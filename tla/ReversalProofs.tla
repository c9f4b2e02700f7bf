--------------------------- MODULE ReversalProofs ---------------------------
(***************************************************************************)
(* Money that goes back: the refunds of held fundings, then the disputes    *)
(* of funded money, each for every value of its constants.                 *)
(***************************************************************************)
EXTENDS Refunds, Disputes, SequenceTheorems, FiniteSetTheorems, TLAPS

(***************************************************************************)
(* Refunds are safe for any number of workers, retries and faults.  A new  *)
(* attempt starts only when the ledger has all earlier ones as failed, and *)
(* the ledger fails an attempt of a held funding only on the provider's    *)
(* word: the argument is that a stale answer in a worker's hands is still  *)
(* that word when it is acted on.                                          *)
(***************************************************************************)

-----------------------------------------------------------------------------
(* The inductive invariant *)

\* Kora has said that reference n will not be paid.
Denied(n) == n \in refused \/ kora[n] \in {"failed", "late"}

\* The first attempt comes with the hold; Kora knows only references of
\* attempts.
AttemptsWellFormed ==
  /\ funding = "pending" <=> Len(attempts) = 0
  /\ Len(attempts) <= MaxReferences
  /\ \A n \in Numbers : n > Len(attempts) => kora[n] = "none"

\* What a worker holds was true when it was read, and what matters of it still
\* is.
JobTrue(k) ==
  LET n == worker[k].number
      answer == worker[k].answer
  IN
  /\ worker[k].does \in {"send", "reject", "resolve"} => n \in 1..Len(attempts)
  /\ Doing(k, "reject") => n \in refused
  /\ Doing(k, "resolve") => /\ answer # "processing"
                            /\ answer \in Paid => kora[n] \in Paid
                            /\ answer \in Successes => kora[n] \in Successes
                            /\ answer = "failed" => kora[n] \in {"failed", "late"}

\* A funding still held has no failed attempt that Kora has not denied, and
\* every attempt with a successor was denied before that one started.
FailuresDenied ==
  /\ funding = "held" => \A n \in 1..Len(attempts) : attempts[n] = "failed" => Denied(n)
  /\ \A n \in 1..Len(attempts) : n < Len(attempts) => Denied(n)

RefundsInv ==
  /\ RefundsTypeOK
  /\ AttemptsWellFormed
  /\ \A k \in Workers : JobTrue(k)
  /\ FailuresDenied
  /\ RefundedMeansPaid
  /\ AlertsAreTrue

-----------------------------------------------------------------------------
(* The attempts, as a sequence *)

LEMMA AttemptRows ==
  ASSUME RefundsTypeOK
  PROVE  /\ Len(attempts) \in Nat
         /\ DOMAIN attempts = 1..Len(attempts)
         /\ attempts \in [1..Len(attempts) -> AttemptStatus]
         /\ \A n \in 1..Len(attempts) : attempts[n] \in AttemptStatus
<1>1. attempts \in Seq(AttemptStatus)
  BY DEF RefundsTypeOK
<1>2. /\ Len(attempts) \in Nat /\ DOMAIN attempts = 1..Len(attempts)
      /\ attempts \in [1..Len(attempts) -> AttemptStatus]
  BY <1>1, LenProperties
<1> QED
  BY <1>2

\* References of attempts are among the numbers followed.
LEMMA AttemptNumbers ==
  ASSUME RefundsTypeOK, AttemptsWellFormed
  PROVE  \A n \in 1..Len(attempts) : n \in Numbers
BY AttemptRows, RefundsAssumption DEF AttemptsWellFormed, Numbers

\* A function on the same numbers is again a sequence of the same length.
LEMMA SameLength ==
  ASSUME NEW len \in Nat, NEW rows \in [1..len -> AttemptStatus]
  PROVE  rows \in Seq(AttemptStatus) /\ Len(rows) = len
<1>1. rows = [i \in 1..len |-> rows[i]]
  OBVIOUS
<1>2. \A i \in 1..len : rows[i] \in AttemptStatus
  OBVIOUS
<1>3. rows \in Seq(AttemptStatus)
  BY <1>1, <1>2
<1>4. Len(rows) \in Nat /\ DOMAIN rows = 1..Len(rows)
  BY <1>3, LenProperties
<1> QED
  BY <1>3, <1>4

\* failRefund changes a pending row and no other.
LEMMA FailRows ==
  ASSUME RefundsTypeOK, NEW n \in 1..Len(attempts), FailRefund(n)
  PROVE  /\ attempts' \in Seq(AttemptStatus) /\ Len(attempts') = Len(attempts)
         /\ \A m \in 1..Len(attempts) :
              attempts'[m] = IF m = n /\ attempts[m] = "pending" THEN "failed" ELSE attempts[m]
<1>1. /\ Len(attempts) \in Nat /\ attempts \in [1..Len(attempts) -> AttemptStatus]
      /\ attempts[n] \in AttemptStatus
  BY AttemptRows
<1>2. attempts' \in [1..Len(attempts) -> AttemptStatus]
  BY <1>1 DEF FailRefund, AttemptStatus
<1>3. \A m \in 1..Len(attempts) :
        attempts'[m] = IF m = n /\ attempts[m] = "pending" THEN "failed" ELSE attempts[m]
  BY <1>1 DEF FailRefund
<1> QED
  BY <1>1, <1>2, <1>3, SameLength

\* settleRefund completes one row and fails the others.
LEMMA SettledRows ==
  ASSUME RefundsTypeOK, NEW n \in 1..Len(attempts), NEW answer,
         ApplySuccess(n, answer), CanSettle(n, answer)
  PROVE  /\ attempts' \in Seq(AttemptStatus) /\ Len(attempts') = Len(attempts)
         /\ \A m \in 1..Len(attempts) :
              attempts'[m] = IF m = n THEN "completed"
                             ELSE IF attempts[m] = "pending" THEN "failed" ELSE attempts[m]
<1>1. /\ Len(attempts) \in Nat /\ DOMAIN attempts = 1..Len(attempts)
      /\ \A m \in 1..Len(attempts) : attempts[m] \in AttemptStatus
  BY AttemptRows
<1>2. attempts' = [m \in 1..Len(attempts) |->
                     IF m = n THEN "completed"
                     ELSE IF attempts[m] = "pending" THEN "failed" ELSE attempts[m]]
  BY <1>1 DEF ApplySuccess
<1>3. attempts' \in [1..Len(attempts) -> AttemptStatus]
  BY <1>1, <1>2 DEF AttemptStatus
<1> QED
  BY <1>1, <1>2, <1>3, SameLength

-----------------------------------------------------------------------------
(* What stays true *)

\* Kora takes nothing back but a failure, which it may still pay.
Onward ==
  /\ \A n \in Numbers : /\ kora[n] \in Paid => kora'[n] \in Paid
                        /\ kora[n] \in Successes => kora'[n] \in Successes
                        /\ kora[n] \in {"failed", "late"} => kora'[n] \in {"failed", "late"}
  /\ refused \subseteq refused'

LEMMA JobStays ==
  ASSUME RefundsTypeOK, AttemptsWellFormed, RefundsTypeOK', Onward, Len(attempts) <= Len(attempts'),
         NEW k \in Workers, JobTrue(k), worker'[k] = worker[k]
  PROVE  JobTrue(k)'
<1>1. Len(attempts) \in Nat /\ Len(attempts') \in Nat
  BY AttemptRows DEF RefundsTypeOK
<1>2. worker[k].does \in {"send", "reject", "resolve"} =>
        worker[k].number \in 1..Len(attempts) /\ worker[k].number \in Numbers
  BY AttemptNumbers DEF JobTrue
<1>3. worker[k].does \in {"send", "reject", "resolve"} => worker[k].number \in 1..Len(attempts')
  BY <1>1, <1>2
<1> QED
  BY <1>2, <1>3 DEF JobTrue, Onward, Doing

\* One worker moves on to a job it knows the facts of.
LEMMA JobsStay ==
  ASSUME RefundsInv, RefundsTypeOK', Onward, Len(attempts) <= Len(attempts'), NEW k \in Workers,
         JobTrue(k)', \A j \in Workers \ {k} : worker'[j] = worker[j]
  PROVE  \A j \in Workers : JobTrue(j)'
<1> SUFFICES ASSUME NEW j \in Workers PROVE JobTrue(j)'
  OBVIOUS
<1>1. CASE j = k
  BY <1>1
<1>2. CASE j # k
  BY <1>2, JobStays DEF RefundsInv
<1> QED
  BY <1>1, <1>2

\* A worker at rest relies on nothing.
LEMMA RestIsTrue ==
  ASSUME RefundsTypeOK, NEW k \in Workers, Rest(k)
  PROVE  /\ JobTrue(k)' /\ worker' \in [Workers -> Job]
         /\ \A j \in Workers \ {k} : worker'[j] = worker[j]
<1>1. worker'[k] = IdleJob
  BY DEF Rest, RefundsTypeOK
<1>2. IdleJob \in Job
  BY RefundsAssumption DEF IdleJob, Job, KoraStatus
<1> QED
  BY <1>1, <1>2 DEF Rest, JobTrue, IdleJob, Doing, RefundsTypeOK

\* What a worker is set to do is what it does.
LEMMA BecomesIs ==
  ASSUME RefundsTypeOK, NEW k \in Workers, NEW does \in {"idle", "send", "reject", "resolve", "start"},
         NEW n \in 0..MaxReferences, NEW answer \in KoraStatus, Becomes(k, does, n, answer)
  PROVE  /\ worker'[k] = [does |-> does, number |-> n, answer |-> answer]
         /\ worker' \in [Workers -> Job]
         /\ \A j \in Workers \ {k} : worker'[j] = worker[j]
<1>1. [does |-> does, number |-> n, answer |-> answer] \in Job
  BY DEF Job
<1> QED
  BY <1>1 DEF Becomes, RefundsTypeOK

\* A step that leaves the ledger's rows alone.
LEMMA LedgerUnchanged ==
  ASSUME RefundsInv, RefundsTypeOK', UNCHANGED <<funding, attempts>>, Onward,
         \A n \in Numbers : n > Len(attempts) => kora'[n] = "none",
         \A k \in Workers : JobTrue(k)',
         "late_success" \in alerts' => "late_success" \in alerts \/ PaidTwice
  PROVE  RefundsInv'
<1>1. RefundsTypeOK /\ AttemptsWellFormed /\ FailuresDenied /\ RefundedMeansPaid /\ AlertsAreTrue
  BY DEF RefundsInv
<1>2. DOMAIN attempts = 1..Len(attempts) /\ \A n \in 1..Len(attempts) : n \in Numbers
  BY <1>1, AttemptRows, AttemptNumbers
<1>3. AttemptsWellFormed'
  BY <1>1 DEF AttemptsWellFormed
<1>4. \A n \in Numbers : Denied(n) => Denied(n)'
  BY DEF Denied, Onward
<1>5. FailuresDenied'
  BY <1>1, <1>2, <1>4 DEF FailuresDenied
<1>6. RefundedMeansPaid'
  BY <1>1, <1>2 DEF RefundedMeansPaid, Onward
<1>7. AlertsAreTrue'
  BY <1>1 DEF AlertsAreTrue, PaidTwice, Onward
<1> QED
  BY <1>3, <1>5, <1>6, <1>7 DEF RefundsInv

\* A step by which the ledger fails an attempt that Kora denied.
LEMMA FailureApplied ==
  ASSUME RefundsInv, RefundsTypeOK', NEW n \in 1..Len(attempts), Denied(n), FailRefund(n),
         UNCHANGED <<funding, kora, refused, alerts>>, \A k \in Workers : JobTrue(k)'
  PROVE  RefundsInv'
<1>1. RefundsTypeOK /\ AttemptsWellFormed /\ FailuresDenied /\ RefundedMeansPaid /\ AlertsAreTrue
  BY DEF RefundsInv
<1>2. /\ Len(attempts') = Len(attempts)
      /\ \A m \in 1..Len(attempts) :
           attempts'[m] = IF m = n /\ attempts[m] = "pending" THEN "failed" ELSE attempts[m]
  BY <1>1, FailRows
<1>3. DOMAIN attempts = 1..Len(attempts) /\ DOMAIN attempts' = 1..Len(attempts)
  BY <1>1, <1>2, AttemptRows, LenProperties DEF RefundsTypeOK
<1>4. AttemptsWellFormed'
  BY <1>1, <1>2 DEF AttemptsWellFormed
<1>5. FailuresDenied'
  BY <1>1, <1>2 DEF FailuresDenied, Denied
<1>6. RefundedMeansPaid'
  <2>1. \A m \in 1..Len(attempts) : attempts'[m] = "completed" <=> attempts[m] = "completed"
    BY <1>2
  <2>2. \A m \in 1..Len(attempts) : attempts'[m] # "failed" => attempts[m] # "failed"
    BY <1>2
  <2> QED
    BY <1>1, <1>3, <2>1, <2>2 DEF RefundedMeansPaid
<1>7. AlertsAreTrue'
  BY <1>1 DEF AlertsAreTrue, PaidTwice
<1> QED
  BY <1>4, <1>5, <1>6, <1>7 DEF RefundsInv

\* A step that applies a reported success.
LEMMA SuccessApplied ==
  ASSUME RefundsInv, RefundsTypeOK', NEW n \in 1..Len(attempts), NEW answer,
         kora[n] \in Successes, answer \in Paid => kora[n] \in Paid, ApplySuccess(n, answer),
         UNCHANGED <<kora, refused>>, \A k \in Workers : JobTrue(k)'
  PROVE  RefundsInv'
<1>1. RefundsTypeOK /\ AttemptsWellFormed /\ FailuresDenied /\ RefundedMeansPaid /\ AlertsAreTrue
  BY DEF RefundsInv
<1>2. DOMAIN attempts = 1..Len(attempts) /\ \A m \in 1..Len(attempts) : m \in Numbers
  BY <1>1, AttemptRows, AttemptNumbers
<1>3. CASE CanSettle(n, answer)
  <2>1. /\ Len(attempts') = Len(attempts)
        /\ \A m \in 1..Len(attempts) :
             attempts'[m] = IF m = n THEN "completed"
                            ELSE IF attempts[m] = "pending" THEN "failed" ELSE attempts[m]
        /\ DOMAIN attempts' = 1..Len(attempts)
    BY <1>1, <1>3, SettledRows, LenProperties DEF RefundsTypeOK
  <2>2. funding = "held" /\ funding' = "refunded" /\ UNCHANGED alerts
    BY <1>3 DEF ApplySuccess, CanSettle
  <2>3. \A m \in 1..Len(attempts) : m # n => attempts'[m] = "failed"
    BY <1>1, <1>2, <2>1, <2>2, AttemptRows DEF RefundedMeansPaid, AttemptStatus
  <2>4. AttemptsWellFormed'
    BY <1>1, <2>1, <2>2 DEF AttemptsWellFormed
  <2>5. FailuresDenied'
    BY <1>1, <2>1, <2>2 DEF FailuresDenied, Denied
  <2>6. RefundedMeansPaid'
    BY <1>3, <2>1, <2>2, <2>3 DEF RefundedMeansPaid, CanSettle
  <2>7. AlertsAreTrue'
    BY <1>1, <2>2 DEF AlertsAreTrue, PaidTwice
  <2> QED
    BY <2>4, <2>5, <2>6, <2>7 DEF RefundsInv
<1>4. CASE ~CanSettle(n, answer)
  <2>1. UNCHANGED <<funding, attempts>> /\ Onward
    BY <1>4 DEF ApplySuccess, Onward
  <2>2. "late_success" \in alerts' => "late_success" \in alerts \/ IsLateSuccess(n)
    BY <1>4 DEF ApplySuccess
  <2>3. IsLateSuccess(n) => PaidTwice
    BY <1>1, <1>2 DEF IsLateSuccess, RefundedMeansPaid, PaidTwice
  <2>4. \A m \in Numbers : m > Len(attempts) => kora'[m] = "none"
    BY <1>1 DEF AttemptsWellFormed
  <2> QED
    BY <2>1, <2>2, <2>3, <2>4, LedgerUnchanged
<1> QED
  BY <1>3, <1>4

-----------------------------------------------------------------------------
(* Each action keeps the invariant *)

\* The hold and the first attempt commit together.
LEMMA HoldStep == ASSUME RefundsInv, NEW k \in Workers, HoldFunding(k) PROVE RefundsInv'
<1>1. RefundsTypeOK /\ AttemptsWellFormed /\ RefundedMeansPaid /\ AlertsAreTrue
  BY DEF RefundsInv
<1>2. funding' = "held" /\ attempts' = <<"pending">> /\ Len(attempts) = 0
        /\ UNCHANGED <<kora, alerts, refused, faults>>
  BY <1>1 DEF HoldFunding, AttemptsWellFormed
<1>3. /\ attempts' \in Seq(AttemptStatus) /\ Len(attempts') = 1 /\ attempts'[1] = "pending"
      /\ DOMAIN attempts' = 1..1
  BY <1>2 DEF AttemptStatus
<1>4. 1 \in 0..MaxReferences /\ 1 <= MaxReferences
  BY RefundsAssumption
<1>5. /\ worker'[k] = [does |-> "send", number |-> 1, answer |-> "none"]
      /\ worker' \in [Workers -> Job]
      /\ \A j \in Workers \ {k} : worker'[j] = worker[j]
  BY <1>1, <1>4, BecomesIs DEF HoldFunding, KoraStatus
<1>6. RefundsTypeOK'
  BY <1>1, <1>2, <1>3, <1>5 DEF RefundsTypeOK, FundingStatus
<1>7. JobTrue(k)'
  BY <1>3, <1>5 DEF JobTrue, Doing
<1>8. \A j \in Workers : JobTrue(j)'
  <2>1. Onward /\ Len(attempts) <= Len(attempts')
    BY <1>2, <1>3 DEF Onward
  <2> QED
    BY <1>5, <1>6, <1>7, <2>1, JobsStay
<1>9. AttemptsWellFormed'
  BY <1>1, <1>2, <1>3, <1>4 DEF AttemptsWellFormed, Numbers
<1>10. FailuresDenied'
  BY <1>2, <1>3 DEF FailuresDenied
<1>11. RefundedMeansPaid'
  BY <1>2, <1>3 DEF RefundedMeansPaid
<1>12. AlertsAreTrue'
  BY <1>1, <1>2 DEF AlertsAreTrue, PaidTwice
<1> QED
  BY <1>6, <1>8, <1>9, <1>10, <1>11, <1>12 DEF RefundsInv

\* The refund call: accepted, lost or refused.
LEMMA InitiateStep == ASSUME RefundsInv, NEW k \in Workers, InitiateRefund(k) PROVE RefundsInv'
<1> DEFINE n == worker[k].number
<1>1. RefundsTypeOK /\ AttemptsWellFormed /\ JobTrue(k) /\ worker[k] \in Job
  BY DEF RefundsInv, RefundsTypeOK
<1>2. n \in 1..Len(attempts) /\ n \in Numbers /\ n \in 0..MaxReferences /\ Len(attempts) \in Nat
  BY <1>1, AttemptNumbers, AttemptRows DEF InitiateRefund, Doing, JobTrue, Job
<1>3. UNCHANGED <<funding, attempts, alerts>>
  BY DEF InitiateRefund
<1>4. /\ kora' \in [Numbers -> KoraStatus] /\ Onward /\ refused' \subseteq Numbers
      /\ \A m \in Numbers : m # n => kora'[m] = kora[m]
      /\ faults' \in 0..MaxFaults
  BY <1>1, <1>2, RefundsAssumption DEF InitiateRefund, Onward, RefundsTypeOK, Successes, Paid, KoraStatus
<1>5. worker' \in [Workers -> Job] /\ JobTrue(k)'
        /\ \A j \in Workers \ {k} : worker'[j] = worker[j]
  <2>1. CASE Rest(k)
    BY <1>1, <2>1, RestIsTrue
  <2>2. CASE Becomes(k, "reject", n, "none") /\ n \in refused'
    <3>1. /\ worker'[k] = [does |-> "reject", number |-> n, answer |-> "none"]
          /\ worker' \in [Workers -> Job]
          /\ \A j \in Workers \ {k} : worker'[j] = worker[j]
      BY <1>1, <1>2, <2>2, BecomesIs DEF KoraStatus
    <3>2. /\ worker'[k].does = "reject" /\ worker'[k].number = n
      BY <3>1
    <3>3. JobTrue(k)'
      BY <1>2, <1>3, <2>2, <3>2 DEF JobTrue, Doing
    <3> QED
      BY <3>1, <3>3
  <2> QED
    BY <2>1, <2>2 DEF InitiateRefund, Unconfirmed
<1>6. RefundsTypeOK'
  BY <1>1, <1>3, <1>4, <1>5 DEF RefundsTypeOK
<1>7. \A j \in Workers : JobTrue(j)'
  BY <1>2, <1>3, <1>4, <1>5, <1>6, JobsStay
<1>8. \A m \in Numbers : m > Len(attempts) => kora'[m] = "none"
  BY <1>1, <1>2, <1>4 DEF AttemptsWellFormed, Numbers
<1> QED
  BY <1>3, <1>4, <1>6, <1>7, <1>8, LedgerUnchanged

\* Kora decides, or pays what it had reported failed.
LEMMA KoraStep ==
  ASSUME RefundsInv, NEW n \in DOMAIN attempts, KoraSettles(n) \/ KoraRecants(n) PROVE RefundsInv'
<1>1. RefundsTypeOK /\ AttemptsWellFormed /\ \A k \in Workers : JobTrue(k)
  BY DEF RefundsInv
<1>2. n \in 1..Len(attempts) /\ n \in Numbers /\ Len(attempts) \in Nat
  BY <1>1, AttemptNumbers, AttemptRows
<1>3. UNCHANGED <<funding, attempts, worker, alerts, refused, faults>>
  BY DEF KoraSettles, KoraRecants
<1>4. /\ kora' \in [Numbers -> KoraStatus]
      /\ \A m \in Numbers : m # n => kora'[m] = kora[m]
      /\ Onward
  BY <1>1, <1>2, <1>3 DEF KoraSettles, KoraRecants, RefundsTypeOK, KoraStatus, Onward, Successes, Paid
<1>5. RefundsTypeOK'
  BY <1>1, <1>3, <1>4 DEF RefundsTypeOK
<1>6. \A k \in Workers : JobTrue(k)'
  BY <1>1, <1>2, <1>3, <1>4, <1>5, JobStays
<1>7. \A m \in Numbers : m > Len(attempts) => kora'[m] = "none"
  BY <1>1, <1>2, <1>4 DEF AttemptsWellFormed, Numbers
<1> QED
  BY <1>3, <1>4, <1>5, <1>6, <1>7, LedgerUnchanged

\* A webhook says what Kora's state is.
LEMMA WebhookStep == ASSUME RefundsInv, NEW n \in DOMAIN attempts, RefundWebhook(n) PROVE RefundsInv'
<1>1. RefundsTypeOK /\ AttemptsWellFormed /\ \A k \in Workers : JobTrue(k)
  BY DEF RefundsInv
<1>2. n \in 1..Len(attempts) /\ Len(attempts) \in Nat
  BY <1>1, AttemptRows
<1>3. UNCHANGED <<kora, worker, refused, faults>> /\ Onward
  BY DEF RefundWebhook, Onward
<1>4. ASSUME (FailRefund(n) /\ UNCHANGED <<funding, alerts>>) \/ ApplySuccess(n, kora[n])
      PROVE  RefundsTypeOK' /\ \A k \in Workers : JobTrue(k)'
  <2>1. attempts' \in Seq(AttemptStatus) /\ Len(attempts') = Len(attempts)
    BY <1>1, <1>2, <1>4, FailRows, SettledRows DEF ApplySuccess, RefundsTypeOK
  <2>2. RefundsTypeOK'
    BY <1>1, <1>3, <1>4, <2>1 DEF RefundsTypeOK, ApplySuccess, FundingStatus
  <2> QED
    BY <1>1, <1>2, <1>3, <2>1, <2>2, JobStays
<1>5. CASE kora[n] \in Successes /\ ApplySuccess(n, kora[n])
  BY <1>2, <1>3, <1>4, <1>5, SuccessApplied
<1>6. CASE kora[n] = "failed" /\ FailRefund(n) /\ UNCHANGED <<funding, alerts>>
  BY <1>2, <1>3, <1>4, <1>6, FailureApplied DEF Denied
<1> QED
  BY <1>5, <1>6 DEF RefundWebhook

\* A worker that only decides what to do next, or stops.
LEMMA DecideStep ==
  ASSUME RefundsInv, NEW k \in Workers,
         \/ RetryScan(k) \/ WorkerCrash(k)
         \/ \E n \in DOMAIN attempts : PollVerify(k, n)
  PROVE  RefundsInv'
<1>1. RefundsTypeOK /\ AttemptsWellFormed /\ Len(attempts) \in Nat
        /\ DOMAIN attempts = 1..Len(attempts) /\ \A n \in 1..Len(attempts) : n \in Numbers
  BY AttemptRows, AttemptNumbers DEF RefundsInv
<1>2. UNCHANGED <<funding, attempts, kora, alerts, refused>> /\ faults' \in 0..MaxFaults
  BY <1>1, RefundsAssumption DEF RetryScan, WorkerCrash, PollVerify, RefundsTypeOK
<1>3. worker' \in [Workers -> Job] /\ JobTrue(k)'
        /\ \A j \in Workers \ {k} : worker'[j] = worker[j]
  <2>1. CASE Rest(k)
    BY <1>1, <2>1, RestIsTrue
  <2>2. CASE RetryScan(k)
    <3>1. 0 \in 0..MaxReferences /\ "none" \in KoraStatus /\ Becomes(k, "start", 0, "none")
      BY <2>2, RefundsAssumption DEF RetryScan, KoraStatus
    <3>2. /\ worker'[k] = [does |-> "start", number |-> 0, answer |-> "none"]
          /\ worker' \in [Workers -> Job]
          /\ \A j \in Workers \ {k} : worker'[j] = worker[j]
      BY <1>1, <3>1, BecomesIs
    <3>3. JobTrue(k)'
      BY <3>2 DEF JobTrue, Doing
    <3> QED
      BY <3>2, <3>3
  <2>3. CASE \E n \in DOMAIN attempts : PollVerify(k, n)
    <3> PICK n \in DOMAIN attempts : PollVerify(k, n)
      BY <2>3
    <3>1. n \in 1..Len(attempts) /\ n \in 0..MaxReferences /\ kora[n] \in KoraStatus
      BY <1>1, RefundsAssumption DEF Numbers, RefundsTypeOK
    <3>2. /\ worker'[k] = [does |-> "resolve", number |-> n, answer |-> kora[n]]
          /\ worker' \in [Workers -> Job]
          /\ \A j \in Workers \ {k} : worker'[j] = worker[j]
      BY <1>1, <3>1, BecomesIs DEF PollVerify
    <3>3. worker'[k].does = "resolve" /\ worker'[k].number = n /\ worker'[k].answer = kora[n]
      BY <3>2
    <3>4. JobTrue(k)'
      BY <1>2, <3>1, <3>3 DEF JobTrue, Doing, PollVerify
    <3> QED
      BY <3>2, <3>4
  <2> QED
    BY <2>1, <2>2, <2>3 DEF WorkerCrash
<1>4. RefundsTypeOK'
  BY <1>1, <1>2, <1>3 DEF RefundsTypeOK
<1>5. Onward
  BY <1>2 DEF Onward
<1>6. \A j \in Workers : JobTrue(j)'
  BY <1>1, <1>2, <1>3, <1>4, <1>5, JobsStay
<1>7. \A n \in Numbers : n > Len(attempts) => kora'[n] = "none"
  BY <1>1, <1>2 DEF AttemptsWellFormed
<1> QED
  BY <1>2, <1>4, <1>5, <1>6, <1>7, LedgerUnchanged

\* A rejection or a polled answer is applied, stale or not.
LEMMA ApplyStep ==
  ASSUME RefundsInv, NEW k \in Workers, FailRejected(k) \/ ResolveStaleRefund(k) PROVE RefundsInv'
<1> DEFINE n == worker[k].number
<1>1. RefundsTypeOK /\ AttemptsWellFormed /\ JobTrue(k) /\ worker[k] \in Job /\ Len(attempts) \in Nat
  BY AttemptRows DEF RefundsInv, RefundsTypeOK
<1>2. n \in 1..Len(attempts) /\ n \in Numbers /\ n \in 0..MaxReferences
  BY <1>1, AttemptNumbers DEF FailRejected, ResolveStaleRefund, Doing, JobTrue, Job
<1>3. UNCHANGED <<kora, refused, faults>> /\ Onward
  BY DEF FailRejected, ResolveStaleRefund, Onward
<1>4. CASE FailRefund(n) /\ Rest(k) /\ UNCHANGED <<funding, alerts>> /\ Denied(n)
  <2>1. attempts' \in Seq(AttemptStatus) /\ Len(attempts') = Len(attempts)
    BY <1>1, <1>2, <1>4, FailRows
  <2>2. RefundsTypeOK'
    BY <1>1, <1>3, <1>4, <2>1, RestIsTrue DEF RefundsTypeOK
  <2>3. \A j \in Workers : JobTrue(j)'
    BY <1>1, <1>3, <1>4, <2>1, <2>2, RestIsTrue, JobsStay
  <2> QED
    BY <1>2, <1>3, <1>4, <2>2, <2>3, FailureApplied
<1>5. CASE /\ ApplySuccess(n, worker[k].answer) /\ Rest(k) /\ kora[n] \in Successes
           /\ worker[k].answer \in Paid => kora[n] \in Paid
  <2>1. attempts' \in Seq(AttemptStatus) /\ Len(attempts') = Len(attempts)
    BY <1>1, <1>2, <1>5, SettledRows DEF ApplySuccess, RefundsTypeOK
  <2>2. RefundsTypeOK'
    BY <1>1, <1>3, <1>5, <2>1, RestIsTrue DEF RefundsTypeOK, ApplySuccess, FundingStatus
  <2>3. \A j \in Workers : JobTrue(j)'
    BY <1>1, <1>3, <1>5, <2>1, <2>2, RestIsTrue, JobsStay
  <2> QED
    BY <1>2, <1>3, <1>5, <2>2, <2>3, SuccessApplied
<1>6. CASE Resend(k, n) /\ UNCHANGED <<funding, attempts, alerts>>
  <2>1. /\ worker'[k] = [does |-> "send", number |-> n, answer |-> "none"]
        /\ worker' \in [Workers -> Job]
        /\ \A j \in Workers \ {k} : worker'[j] = worker[j]
    BY <1>1, <1>2, <1>6, BecomesIs DEF Resend, KoraStatus
  <2>2. worker'[k].does = "send" /\ worker'[k].number = n
    BY <2>1
  <2>3. RefundsTypeOK'
    BY <1>1, <1>3, <1>6, <2>1 DEF RefundsTypeOK
  <2>4. JobTrue(k)'
    BY <1>2, <1>6, <2>2 DEF JobTrue, Doing
  <2>5. \A j \in Workers : JobTrue(j)'
    BY <1>1, <1>3, <1>6, <2>1, <2>3, <2>4, JobsStay
  <2>6. \A m \in Numbers : m > Len(attempts) => kora'[m] = "none"
    BY <1>1, <1>3 DEF AttemptsWellFormed
  <2> QED
    BY <1>3, <1>6, <2>3, <2>5, <2>6, LedgerUnchanged
<1>7. CASE FailRejected(k)
  BY <1>1, <1>4, <1>7 DEF FailRejected, JobTrue, Denied
<1>8. CASE ResolveStaleRefund(k)
  <2>1. /\ worker[k].answer \in {"none", "failed"} \cup Successes
        /\ worker[k].answer \in Paid => kora[n] \in Paid
        /\ worker[k].answer \in Successes => kora[n] \in Successes
        /\ worker[k].answer = "failed" => Denied(n)
    BY <1>1, <1>8 DEF ResolveStaleRefund, JobTrue, Denied, Job, KoraStatus, Successes, Paid
  <2>2. CASE worker[k].answer = "none"
    BY <1>6, <1>8, <2>2 DEF ResolveStaleRefund, Successes, Paid
  <2>3. CASE worker[k].answer = "failed"
    BY <1>4, <1>8, <2>1, <2>3 DEF ResolveStaleRefund, Successes, Paid
  <2>4. CASE worker[k].answer \in Successes
    BY <1>5, <1>8, <2>1, <2>4 DEF ResolveStaleRefund, Successes, Paid
  <2> QED
    BY <2>1, <2>2, <2>3, <2>4
<1> QED
  BY <1>7, <1>8

\* A new attempt starts only when all earlier ones failed, hence were denied.
LEMMA StartStep == ASSUME RefundsInv, NEW k \in Workers, StartRefundAttempt(k) PROVE RefundsInv'
<1> DEFINE len == Len(attempts)
<1>1. /\ RefundsTypeOK /\ AttemptsWellFormed /\ FailuresDenied /\ RefundedMeansPaid /\ AlertsAreTrue
      /\ Len(attempts) \in Nat /\ DOMAIN attempts = 1..len
      /\ \A n \in 1..len : n \in Numbers /\ attempts[n] \in AttemptStatus
  BY AttemptRows, AttemptNumbers DEF RefundsInv
<1>2. UNCHANGED <<funding, kora, alerts, refused, faults>> /\ Onward
  BY DEF StartRefundAttempt, Onward
<1>3. CASE Rest(k) /\ UNCHANGED attempts
  <2>1. RefundsTypeOK'
    BY <1>1, <1>2, <1>3, RestIsTrue DEF RefundsTypeOK
  <2>2. \A j \in Workers : JobTrue(j)'
    BY <1>1, <1>2, <1>3, <2>1, RestIsTrue, JobsStay
  <2>3. \A n \in Numbers : n > Len(attempts) => kora'[n] = "none"
    BY <1>1, <1>2 DEF AttemptsWellFormed
  <2> QED
    BY <1>2, <1>3, <2>1, <2>2, <2>3, LedgerUnchanged
<1>4. CASE /\ MayStart /\ len < MaxReferences
           /\ attempts' = Append(attempts, "pending")
           /\ Becomes(k, "send", len + 1, "none")
  <2>1. /\ attempts' \in Seq(AttemptStatus) /\ Len(attempts') = len + 1
        /\ \A n \in 1..len : attempts'[n] = attempts[n]
        /\ attempts'[len + 1] = "pending"
        /\ DOMAIN attempts' = 1..(len + 1)
    <3>1. attempts \in Seq(AttemptStatus) /\ "pending" \in AttemptStatus
      BY <1>1 DEF RefundsTypeOK, AttemptStatus
    <3> QED
      BY <1>4, <3>1, AppendProperties, LenProperties
  <2>2. funding = "held" /\ \A n \in 1..len : attempts[n] = "failed"
    BY <1>1, <1>4 DEF MayStart, HasPending, RefundedMeansPaid, AttemptStatus
  <2>3. \A n \in 1..len : Denied(n)
    BY <1>1, <2>2 DEF FailuresDenied
  <2>4. len + 1 \in 0..MaxReferences
    BY <1>1, <1>4, RefundsAssumption
  <2>5. /\ worker'[k] = [does |-> "send", number |-> len + 1, answer |-> "none"]
        /\ worker' \in [Workers -> Job]
        /\ \A j \in Workers \ {k} : worker'[j] = worker[j]
    BY <1>1, <1>4, <2>4, BecomesIs DEF KoraStatus
  <2>6. worker'[k].does = "send" /\ worker'[k].number = len + 1
    BY <2>5
  <2>7. RefundsTypeOK'
    BY <1>1, <1>2, <2>1, <2>5 DEF RefundsTypeOK
  <2>8. JobTrue(k)'
    BY <1>1, <2>1, <2>6 DEF JobTrue, Doing
  <2>9. \A j \in Workers : JobTrue(j)'
    BY <1>1, <1>2, <1>4, <2>1, <2>5, <2>7, <2>8, JobsStay
  <2>10. AttemptsWellFormed'
    BY <1>1, <1>2, <1>4, <2>1, <2>2, RefundsAssumption DEF AttemptsWellFormed, Numbers
  <2>11. FailuresDenied'
    BY <1>1, <1>2, <2>1, <2>3 DEF FailuresDenied, Denied
  <2>12. RefundedMeansPaid'
    BY <1>1, <1>2, <2>1, <2>2 DEF RefundedMeansPaid
  <2>13. AlertsAreTrue'
    BY <1>1, <1>2 DEF AlertsAreTrue, PaidTwice
  <2> QED
    BY <2>7, <2>9, <2>10, <2>11, <2>12, <2>13 DEF RefundsInv
<1> QED
  BY <1>3, <1>4 DEF StartRefundAttempt

\* Alerts on held money are not alerts of a second payout.
LEMMA AlertStep ==
  ASSUME RefundsInv, \/ \E reason \in {"retries_exhausted", "held_too_long"} : AlertOnHeldFunding(reason)
              \/ UNCHANGED refundsVars
  PROVE  RefundsInv'
<1>1. RefundsTypeOK /\ AttemptsWellFormed /\ Len(attempts) \in Nat /\ \A k \in Workers : JobTrue(k)
  BY AttemptRows DEF RefundsInv
<1>2. UNCHANGED <<funding, attempts, kora, worker, refused, faults>> /\ Onward
  BY DEF AlertOnHeldFunding, refundsVars, Onward
<1>3. RefundsTypeOK' /\ ("late_success" \in alerts' => "late_success" \in alerts)
  BY <1>1, <1>2 DEF RefundsTypeOK, AlertOnHeldFunding, refundsVars
<1>4. \A k \in Workers : JobTrue(k)'
  BY <1>1, <1>2, <1>3, JobStays
<1>5. \A n \in Numbers : n > Len(attempts) => kora'[n] = "none"
  BY <1>1, <1>2 DEF AttemptsWellFormed
<1> QED
  BY <1>2, <1>3, <1>4, <1>5, LedgerUnchanged

-----------------------------------------------------------------------------
(* The theorems *)

LEMMA RefundsInvInit == RefundsInit => RefundsInv
<1> SUFFICES ASSUME RefundsInit PROVE RefundsInv
  OBVIOUS
<1>1. attempts = <<>> /\ attempts \in Seq(AttemptStatus) /\ Len(attempts) = 0
        /\ DOMAIN attempts = {} /\ DOMAIN attempts = 1..0
  BY DEF RefundsInit
<1>2. IdleJob \in Job
  BY RefundsAssumption DEF IdleJob, Job, KoraStatus
<1>3. RefundsTypeOK
  BY <1>1, <1>2, RefundsAssumption DEF RefundsInit, RefundsTypeOK, FundingStatus, KoraStatus
<1>4. AttemptsWellFormed
  BY <1>1, RefundsAssumption DEF RefundsInit, AttemptsWellFormed
<1>5. \A k \in Workers : JobTrue(k)
  BY DEF RefundsInit, JobTrue, IdleJob, Doing
<1>6. FailuresDenied /\ RefundedMeansPaid /\ AlertsAreTrue
  BY <1>1 DEF RefundsInit, FailuresDenied, RefundedMeansPaid, AlertsAreTrue
<1> QED
  BY <1>3, <1>4, <1>5, <1>6 DEF RefundsInv

LEMMA RefundsInvStep == RefundsInv /\ [RefundsNext]_refundsVars => RefundsInv'
<1> SUFFICES ASSUME RefundsInv, [RefundsNext]_refundsVars PROVE RefundsInv'
  OBVIOUS
<1>1. ASSUME NEW k \in Workers, HoldFunding(k) \/ WorkerStep(k) \/ WorkerCrash(k) PROVE RefundsInv'
  BY <1>1, HoldStep, InitiateStep, ApplyStep, StartStep, DecideStep DEF WorkerStep
<1>2. ASSUME NEW n \in DOMAIN attempts,
             KoraSettles(n) \/ KoraRecants(n) \/ RefundWebhook(n) \/ Verify(n)
      PROVE  RefundsInv'
  BY <1>2, KoraStep, WebhookStep, DecideStep DEF Verify
<1>3. CASE Retry
  BY <1>3, DecideStep DEF Retry
<1> QED
  BY <1>1, <1>2, <1>3, AlertStep DEF RefundsNext

\* Rows, provider and workers stay consistent; the type invariant is a part.
THEOREM RefundsInvHolds == RefundsSpec => []RefundsInv
BY RefundsInvInit, RefundsInvStep, PTL DEF RefundsSpec

\* A funding is refunded exactly when one of its attempts is completed, which
\* Kora has paid; at most one attempt has not failed.
THEOREM RefundsPaid == RefundsSpec => []RefundedMeansPaid
BY RefundsInvHolds, PTL DEF RefundsInv

\* However often the refund is lost, resent or retried: of the references Kora
\* has not refused, at most one is processed or was paid without a denial.
THEOREM RefundedOnce == RefundsSpec => []PaidOnceUnlessDenied
<1>1. RefundsInv => PaidOnceUnlessDenied
  <2> SUFFICES ASSUME RefundsInv, NEW m \in Numbers \ refused, kora[m] \in {"processing", "success", "other"}
               PROVE  m = Len(attempts)
    BY DEF PaidOnceUnlessDenied
  <2>1. Len(attempts) \in Nat /\ m \in Nat /\ m >= 1
    BY AttemptRows, RefundsAssumption DEF RefundsInv, Numbers
  <2>2. ~(m > Len(attempts))
    BY DEF RefundsInv, AttemptsWellFormed
  <2>3. ~(m < Len(attempts))
    BY <2>1 DEF RefundsInv, FailuresDenied, Denied
  <2> QED
    BY <2>1, <2>2, <2>3
<1> QED
  BY <1>1, RefundsInvHolds, PTL

\* A late_success alert means that two attempts of the funding were paid.
THEOREM AlertsTrue == RefundsSpec => []AlertsAreTrue
BY RefundsInvHolds, PTL DEF RefundsInv


(***************************************************************************)
(* Racing chargebacks and resolutions are safe for every set of calls,     *)
(* fundings and disputes, every amount and every order of locks, crashes   *)
(* and deadlocks.  The argument is what each transaction knows while it    *)
(* holds its row lock: nobody else can make it untrue.                     *)
(***************************************************************************)

-----------------------------------------------------------------------------
(* The inductive invariant *)

\* A dispute row and its chargeback row commit together.
RowsPaired == \A n \in Notices : dispute[n] = "none" <=> reverses[n] = Nobody

Charging(c) == call[c].does = "record" /\ call[c].step \in {"lockAccounts", "post"}

Resolving(c) ==
  /\ call[c].does # "record"
  /\ call[c].step \in {"lockAccounts", "readSiblings", "readDisputes", "updateOriginal", "finish"}

\* The notice and the funding of a call under way; which steps are whose.
CallWellFormed(c) ==
  /\ InTransaction(c) => call[c].notice \in Notices /\ call[c].original \in Originals
  /\ call[c].step \in {"lockOriginal", "post"} => call[c].does = "record"
  /\ call[c].step \in {"lockDispute", "readSiblings", "readDisputes", "updateOriginal", "finish"}
       => call[c].does # "record"

\* What a call knows under its row lock: a chargeback still fits into its
\* funding, and the dispute being resolved is still open.
CallKnows(c) ==
  /\ Charging(c) => /\ owner[call[c].original] = c
                    /\ WithinFunding(call[c].original)
  /\ Resolving(c) => /\ owner[call[c].notice] = c
                     /\ dispute[call[c].notice] = "open"

DisputesInv ==
  /\ TypeOK
  /\ RowsPaired
  /\ ChargebacksWithinFunding
  /\ \A c \in Calls : CallWellFormed(c) /\ CallKnows(c)

-----------------------------------------------------------------------------
(* Counting chargebacks *)

\* The chargebacks of a funding are countable, whatever the rows hold.
LEMMA ChargedBackNat == ASSUME NEW o PROVE ChargedBack(o) \in Nat
<1>1. IsFiniteSet({n \in Notices : reverses[n] = o})
  BY FS_Subset, DisputesAssumption
<1> QED
  BY <1>1, FS_CardinalityType DEF ChargedBack

\* A chargeback recorded under a free reference adds one to its own funding's
\* chargebacks and leaves the other fundings' alone.
LEMMA ChargedBackGrows ==
  ASSUME TypeOK, NEW n \in Notices, NEW o \in Originals, reverses[n] = Nobody,
         reverses' = [reverses EXCEPT ![n] = o]
  PROVE  \A p \in Originals : ChargedBack(p)' = IF p = o THEN ChargedBack(p) + 1 ELSE ChargedBack(p)
<1> SUFFICES ASSUME NEW p \in Originals
             PROVE  ChargedBack(p)' = IF p = o THEN ChargedBack(p) + 1 ELSE ChargedBack(p)
  OBVIOUS
<1> DEFINE before == {m \in Notices : reverses[m] = p}
<1>1. IsFiniteSet(before) /\ n \notin before
  BY FS_Subset, DisputesAssumption
<1>2. CASE p = o
  <2>1. {m \in Notices : reverses'[m] = p} = before \cup {n}
    BY <1>2 DEF TypeOK
  <2>2. Cardinality(before \cup {n}) = Cardinality(before) + 1
    <3> HIDE DEF before
    <3> QED BY <1>1, FS_AddElement
  <2> QED
    BY <1>2, <2>1, <2>2 DEF ChargedBack
<1>3. CASE p # o
  <2>1. {m \in Notices : reverses'[m] = p} = before
    BY <1>3, DisputesAssumption DEF TypeOK
  <2> QED
    BY <1>3, <2>1 DEF ChargedBack
<1> QED
  BY <1>2, <1>3

-----------------------------------------------------------------------------
(* Types *)

\* The possible statuses of a funding are the ones Aggregate computes.
LEMMA AggregateType == ASSUME NEW verdicts PROVE Aggregate(verdicts) \in Status
BY DEF Aggregate, Status

\* A call that moves on to another step stays a call.
LEMMA GotoType ==
  ASSUME TypeOK, NEW c \in Calls, NEW step \in Step, Goto(c, step)
  PROVE  call' \in [Calls -> Call]
<1>1. call[c] \in Call
  BY DEF TypeOK
<1>2. [call[c] EXCEPT !.step = step] \in Call
  BY <1>1 DEF Call
<1> QED
  BY <1>2 DEF TypeOK, Goto

\* Locks are taken by calls, and released to nobody.
LEMMA LockType ==
  ASSUME TypeOK, NEW c \in Calls
  PROVE  /\ \A l \in Locks : Acquire(c, l) => owner' \in [Locks -> Calls \cup {Nobody}]
         /\ Release(c) => /\ owner' \in [Locks -> Calls \cup {Nobody}]
                          /\ call' \in [Calls -> Call]
<1>1. Release(c) => call' \in [Calls -> Call]
  BY GotoType DEF Release, Step
<1> QED
  BY <1>1 DEF TypeOK, Acquire, Release

\* Every action keeps the types.
LEMMA TypeStep == ASSUME DisputesInv, [Next]_vars PROVE TypeOK'
<1>1. TypeOK /\ \A c \in Calls : call[c] \in Call
  BY DEF DisputesInv, TypeOK
<1>2. ASSUME NEW c \in Calls, NEW n \in Notices, NEW o \in Originals, RecordChargeback(c, n, o)
      PROVE  TypeOK'
  BY <1>1, <1>2 DEF RecordChargeback, NewCall, Call, Database, TypeOK, Step, Status
<1>3. ASSUME NEW c \in Calls, NEW n \in Notices, NEW outcome \in {"upheld", "resolved"},
             ResolveDispute(c, n, outcome)
      PROVE  TypeOK'
  BY <1>1, <1>3 DEF ResolveDispute, NewCall, Call, Database, TypeOK, Step, Status
<1>4. ASSUME NEW c \in Calls, LockOriginal(c) PROVE TypeOK'
  <2>1. call[c].original \in Locks
    BY <1>4, <1>1 DEF LockOriginal, At, DisputesInv, CallWellFormed, InTransaction, Locks
  <2>2. owner' \in [Locks -> Calls \cup {Nobody}] /\ call' \in [Calls -> Call]
    BY <1>1, <1>4, <2>1, LockType, GotoType DEF LockOriginal, Step
  <2> QED
    BY <1>1, <1>4, <2>2 DEF LockOriginal, TypeOK, Database
<1>5. ASSUME NEW c \in Calls, LockAccounts(c) PROVE TypeOK'
  <2>1. owner' \in [Locks -> Calls \cup {Nobody}] /\ call' \in [Calls -> Call]
    BY <1>1, <1>5, LockType, GotoType DEF LockAccounts, Step, Locks
  <2> QED
    BY <1>1, <1>5, <2>1 DEF LockAccounts, TypeOK, Database
<1>6. ASSUME NEW c \in Calls, PostChargeback(c) PROVE TypeOK'
  <2>1. owner' \in [Locks -> Calls \cup {Nobody}] /\ call' \in [Calls -> Call]
    BY <1>1, <1>6, LockType DEF PostChargeback
  <2>2. call[c].original \in Originals
    BY <1>6 DEF PostChargeback, At, DisputesInv, CallWellFormed, InTransaction
  <2>3. status' \in [Originals -> Status] /\ dispute' \in [Notices -> Verdict]
    BY <1>1, <1>6 DEF PostChargeback, TypeOK, Database, Status, Verdict
  <2>4. reverses' \in [Notices -> Originals \cup {Nobody}]
    BY <1>1, <1>6, <2>2 DEF PostChargeback, TypeOK, Database
  <2>5. balance' \in Int
    BY <1>1, <1>6 DEF PostChargeback, TypeOK, Database
  <2>6. frozen' \in BOOLEAN
    BY <1>1, <1>6, Zenon DEF PostChargeback, TypeOK, Database
  <2> QED
    BY <1>1, <1>6, <2>1, <2>3, <2>4, <2>5, <2>6 DEF TypeOK, PostChargeback
<1>7. ASSUME NEW c \in Calls, LockDispute(c) PROVE TypeOK'
  <2>1. call[c].notice \in Locks
    BY <1>7, <1>1 DEF LockDispute, At, DisputesInv, CallWellFormed, InTransaction, Locks
  <2>2. owner' \in [Locks -> Calls \cup {Nobody}] /\ call' \in [Calls -> Call]
    BY <1>1, <1>7, <2>1, LockType, GotoType DEF LockDispute, Step
  <2> QED
    BY <1>1, <1>7, <2>2 DEF LockDispute, TypeOK, Database
<1>8. ASSUME NEW c \in Calls, ReadSiblings(c) PROVE TypeOK'
  <2>1. [call[c] EXCEPT !.step = "readDisputes",
                        !.siblings = {n \in Notices : reverses[n] = call[c].original}] \in Call
    BY <1>1 DEF Call, Step
  <2> QED
    BY <1>1, <1>8, <2>1 DEF ReadSiblings, TypeOK, Database
<1>9. ASSUME NEW c \in Calls, ReadDisputes(c) PROVE TypeOK'
  <2>1. PICK aggregate \in Status :
          call' = [call EXCEPT ![c].step = "updateOriginal", ![c].aggregate = aggregate]
    BY <1>9, AggregateType DEF ReadDisputes
  <2>2. [call[c] EXCEPT !.step = "updateOriginal", !.aggregate = aggregate] \in Call
    BY <1>1 DEF Call, Step
  <2> QED
    BY <1>1, <1>9, <2>1, <2>2 DEF ReadDisputes, TypeOK, Database
<1>10. ASSUME NEW c \in Calls, UpdateOriginal(c) PROVE TypeOK'
  <2>1. call[c].original \in Locks
    BY <1>10, <1>1 DEF UpdateOriginal, At, DisputesInv, CallWellFormed, InTransaction, Locks
  <2>2. owner' \in [Locks -> Calls \cup {Nobody}] /\ call' \in [Calls -> Call]
    BY <1>1, <1>10, <2>1, LockType, GotoType DEF UpdateOriginal, Step
  <2> QED
    BY <1>1, <1>10, <2>2 DEF UpdateOriginal, TypeOK, Database
<1>11. ASSUME NEW c \in Calls, FinishResolution(c) PROVE TypeOK'
  <2>1. owner' \in [Locks -> Calls \cup {Nobody}] /\ call' \in [Calls -> Call]
    BY <1>1, <1>11, LockType DEF FinishResolution
  <2>2. call[c].does \in Verdict /\ call[c].aggregate \in Status
    BY <1>1, <1>11 DEF FinishResolution, At, DisputesInv, CallWellFormed, Call, Verdict
  <2>3. status' \in [Originals -> Status] /\ dispute' \in [Notices -> Verdict]
    BY <1>1, <1>11, <2>2 DEF FinishResolution, TypeOK
  <2>4. balance' \in Int /\ frozen' \in BOOLEAN /\ reverses' = reverses /\ read' = read
    BY <1>1, <1>11 DEF FinishResolution, TypeOK
  <2> QED
    BY <1>1, <2>1, <2>3, <2>4 DEF TypeOK
<1>12. ASSUME NEW c \in Calls, Rollback(c) PROVE TypeOK'
  BY <1>1, <1>12, LockType DEF Rollback, TypeOK, Database
<1>13. CASE UseWallet
  BY <1>1, <1>13 DEF UseWallet, TypeOK
<1>14. CASE UNCHANGED vars
  BY <1>1, <1>14 DEF vars, TypeOK
<1>15. CASE ReadUser \/ \E value \in BOOLEAN : SaveUser(value)
  <2>1. frozen' \in BOOLEAN /\ read' \subseteq BOOLEAN
    BY <1>1, <1>15, Zenon DEF ReadUser, SaveUser, TypeOK
  <2> QED
    BY <1>1, <1>15, <2>1 DEF ReadUser, SaveUser, TypeOK, Others
<1> QED
  BY <1>2, <1>3, <1>4, <1>5, <1>6, <1>7, <1>8, <1>9, <1>10, <1>11, <1>12, <1>13, <1>14, <1>15
  DEF Next, CallStep, Crash, DetectDeadlock

-----------------------------------------------------------------------------
(* One call acts at a time *)

\* What a step of call c leaves alone: the other calls, and their locks.
OthersKept(c) ==
  /\ \A d \in Calls \ {c} : call'[d] = call[d]
  /\ \A l \in Locks, d \in Calls \ {c} : owner[l] = d => owner'[l] = d

\* No step of a call changes another call or takes a lock from it.
LEMMA CallsApart ==
  ASSUME DisputesInv, NEW c \in Calls,
         \/ CallStep(c) \/ Rollback(c)
         \/ \E n \in Notices, o \in Originals : RecordChargeback(c, n, o)
         \/ \E n \in Notices, outcome \in {"upheld", "resolved"} : ResolveDispute(c, n, outcome)
  PROVE  OthersKept(c)
<1> USE DisputesAssumption DEF OthersKept
<1>1. TypeOK
  BY DEF DisputesInv
<1>2. Release(c) => OthersKept(c)
  BY <1>1 DEF Release, Goto, TypeOK
<1>3. ASSUME NEW step \in Step PROVE Goto(c, step) => \A d \in Calls \ {c} : call'[d] = call[d]
  BY <1>1 DEF Goto, TypeOK
<1>4. ASSUME NEW l \in Locks
      PROVE  Acquire(c, l) => \A k \in Locks, d \in Calls \ {c} : owner[k] = d => owner'[k] = d
  BY <1>1 DEF Acquire, TypeOK
<1>5. InTransaction(c) => call[c].original \in Locks /\ call[c].notice \in Locks
  BY DEF DisputesInv, CallWellFormed, Locks
<1>6. CASE LockOriginal(c)
  BY <1>2, <1>3, <1>4, <1>5, <1>6 DEF LockOriginal, At, InTransaction, Step
<1>7. CASE LockAccounts(c)
  BY <1>2, <1>3, <1>4, <1>7 DEF LockAccounts, Step, Locks
<1>8. CASE PostChargeback(c)
  BY <1>2, <1>8 DEF PostChargeback
<1>9. CASE LockDispute(c)
  BY <1>2, <1>3, <1>4, <1>5, <1>9 DEF LockDispute, At, InTransaction, Step
<1>10. CASE ReadSiblings(c) \/ ReadDisputes(c)
  BY <1>1, <1>10 DEF ReadSiblings, ReadDisputes, TypeOK
<1>11. CASE UpdateOriginal(c)
  BY <1>3, <1>4, <1>5, <1>11 DEF UpdateOriginal, At, InTransaction, Step
<1>12. CASE FinishResolution(c)
  BY <1>2, <1>12 DEF FinishResolution
<1>13. CASE Rollback(c)
  BY <1>2, <1>13 DEF Rollback
<1>14. CASE \E n \in Notices, o \in Originals : RecordChargeback(c, n, o)
  BY <1>1, <1>14 DEF RecordChargeback, TypeOK
<1>15. CASE \E n \in Notices, outcome \in {"upheld", "resolved"} : ResolveDispute(c, n, outcome)
  BY <1>1, <1>15 DEF ResolveDispute, TypeOK
<1> QED
  BY <1>6, <1>7, <1>8, <1>9, <1>10, <1>11, <1>12, <1>13, <1>14, <1>15 DEF CallStep

\* Where the database is unchanged and the other calls keep their locks, what
\* those calls know stays true.
LEMMA OthersStillKnow ==
  ASSUME DisputesInv, NEW c \in Calls, OthersKept(c), UNCHANGED <<reverses, dispute>>
  PROVE  \A d \in Calls \ {c} : CallWellFormed(d)' /\ CallKnows(d)'
<1> SUFFICES ASSUME NEW d \in Calls \ {c} PROVE CallWellFormed(d)' /\ CallKnows(d)'
  OBVIOUS
<1>1. CallWellFormed(d) /\ CallKnows(d) /\ call'[d] = call[d]
  BY DEF DisputesInv, OthersKept
<1>2. CallWellFormed(d)'
  BY <1>1 DEF CallWellFormed, InTransaction
<1>3. Charging(d) \/ Resolving(d) => call[d].original \in Locks /\ call[d].notice \in Locks
  BY <1>1 DEF CallWellFormed, InTransaction, Charging, Resolving, Locks
<1>4. CallKnows(d)'
  BY <1>1, <1>3 DEF CallKnows, Charging, Resolving, OthersKept, WithinFunding, ChargedBack
<1> QED
  BY <1>2, <1>4

-----------------------------------------------------------------------------
(* Each action keeps the invariant *)

\* A call that ends knows nothing any more.
LEMMA EndedKnows ==
  ASSUME NEW c \in Calls, TypeOK, Goto(c, "done") PROVE CallWellFormed(c)' /\ CallKnows(c)'
<1>1. call'[c].step = "done"
  BY DEF Goto, TypeOK
<1> QED
  BY <1>1 DEF CallWellFormed, CallKnows, InTransaction, Charging, Resolving

\* Steps that write no row: only what the calling transaction knows changes.
LEMMA ReadingStep ==
  ASSUME DisputesInv, [Next]_vars, NEW c \in Calls, OthersKept(c), UNCHANGED <<reverses, dispute>>,
         CallWellFormed(c)' /\ CallKnows(c)'
  PROVE  DisputesInv'
<1>1. TypeOK'
  BY TypeStep
<1>2. RowsPaired' /\ ChargebacksWithinFunding'
  BY DEF DisputesInv, RowsPaired, ChargebacksWithinFunding, ChargedBack
<1>3. \A d \in Calls : CallWellFormed(d)' /\ CallKnows(d)'
  BY OthersStillKnow
<1> QED
  BY <1>1, <1>2, <1>3 DEF DisputesInv

\* The locking of a funding checks, under the lock, that the chargeback fits.
LEMMA LockOriginalStep == ASSUME DisputesInv, [Next]_vars, NEW c \in Calls, LockOriginal(c) PROVE DisputesInv'
<1> USE DEF At
<1>1. TypeOK /\ CallWellFormed(c) /\ call[c] \in Call
  BY DEF DisputesInv, TypeOK
<1>2. OthersKept(c) /\ UNCHANGED <<reverses, dispute>>
  BY CallsApart DEF CallStep, LockOriginal, Database
<1>3. call[c].original \in Originals /\ call[c].notice \in Notices /\ call[c].does = "record"
  BY <1>1 DEF LockOriginal, CallWellFormed, InTransaction
<1>4. CASE WithinFunding(call[c].original)
  <2>1. call'[c] = [call[c] EXCEPT !.step = "lockAccounts"] /\ owner'[call[c].original] = c
    BY <1>1, <1>3, <1>4 DEF LockOriginal, Goto, Acquire, TypeOK, Locks
  <2>2. call'[c].step = "lockAccounts" /\ call'[c].original = call[c].original
          /\ call'[c].notice = call[c].notice /\ call'[c].does = "record"
    BY <1>1, <1>3, <2>1 DEF Call
  <2>3. WithinFunding(call[c].original)'
    BY <1>2, <1>4, <2>2 DEF WithinFunding, ChargedBack
  <2>4. CallWellFormed(c)' /\ CallKnows(c)'
    BY <1>3, <2>1, <2>2, <2>3 DEF CallWellFormed, CallKnows, InTransaction, Charging, Resolving
  <2> QED
    BY <1>2, <2>4, ReadingStep
<1>5. CASE ~WithinFunding(call[c].original)
  BY <1>1, <1>2, <1>5, EndedKnows, ReadingStep DEF LockOriginal, Release
<1> QED
  BY <1>4, <1>5

\* The wallet's and the float's lock adds nothing to what the call knows.
LEMMA LockAccountsStep == ASSUME DisputesInv, [Next]_vars, NEW c \in Calls, LockAccounts(c) PROVE DisputesInv'
<1> USE DEF At
<1>1. TypeOK /\ CallWellFormed(c) /\ CallKnows(c) /\ call[c] \in Call
  BY DEF DisputesInv, TypeOK
<1>2. OthersKept(c) /\ UNCHANGED <<reverses, dispute>>
  BY CallsApart DEF CallStep, LockAccounts, Database
<1>3. call[c].original \in Originals /\ call[c].notice \in Notices
  BY <1>1 DEF LockAccounts, CallWellFormed, InTransaction
<1>4. PICK step \in {"post", "readSiblings"} :
        /\ call'[c] = [call[c] EXCEPT !.step = step]
        /\ step = "post" <=> call[c].does = "record"
  BY <1>1 DEF LockAccounts, Goto, TypeOK
<1>5. call'[c].step = step /\ call'[c].original = call[c].original
          /\ call'[c].notice = call[c].notice /\ call'[c].does = call[c].does
  BY <1>1, <1>4 DEF Call
<1>6. /\ owner[call[c].original] = c => owner'[call[c].original] = c
      /\ owner[call[c].notice] = c => owner'[call[c].notice] = c
  BY <1>1, <1>3 DEF LockAccounts, Acquire, TypeOK, Locks
<1>7. CallKnows(c)'
  BY <1>1, <1>2, <1>4, <1>5, <1>6 DEF LockAccounts, CallKnows, Charging, Resolving, WithinFunding, ChargedBack
<1>8. CallWellFormed(c)'
  BY <1>3, <1>4, <1>5 DEF CallWellFormed, InTransaction
<1> QED
  BY <1>2, <1>7, <1>8, ReadingStep

\* The dispute row is locked and found open.
LEMMA LockDisputeStep == ASSUME DisputesInv, [Next]_vars, NEW c \in Calls, LockDispute(c) PROVE DisputesInv'
<1> USE DEF At
<1>1. TypeOK /\ CallWellFormed(c) /\ call[c] \in Call
  BY DEF DisputesInv, TypeOK
<1>2. OthersKept(c) /\ UNCHANGED <<reverses, dispute>>
  BY CallsApart DEF CallStep, LockDispute, Database
<1>3. call[c].original \in Originals /\ call[c].notice \in Notices /\ call[c].does # "record"
  BY <1>1 DEF LockDispute, CallWellFormed, InTransaction
<1>4. CASE IsOpen(call[c].notice)
  <2>1. /\ \E step \in {"readSiblings", "lockAccounts"} : call'[c] = [call[c] EXCEPT !.step = step]
        /\ owner'[call[c].notice] = c
    BY <1>1, <1>3, <1>4 DEF LockDispute, Goto, Acquire, TypeOK, Locks
  <2>2. call'[c].step \in {"readSiblings", "lockAccounts"} /\ call'[c].original = call[c].original
          /\ call'[c].notice = call[c].notice /\ call'[c].does = call[c].does
    BY <1>1, <2>1 DEF Call
  <2>3. CallWellFormed(c)' /\ CallKnows(c)'
    BY <1>2, <1>3, <1>4, <2>1, <2>2
    DEF CallWellFormed, CallKnows, InTransaction, Charging, Resolving, IsOpen
  <2> QED
    BY <1>2, <2>3, ReadingStep
<1>5. CASE ~IsOpen(call[c].notice)
  BY <1>1, <1>2, <1>5, EndedKnows, ReadingStep DEF LockDispute, Release
<1> QED
  BY <1>4, <1>5

\* The reads of a resolution and its wait for the funding's row keep its lock.
LEMMA ReadStep ==
  ASSUME DisputesInv, [Next]_vars, NEW c \in Calls,
         ReadSiblings(c) \/ ReadDisputes(c) \/ UpdateOriginal(c)
  PROVE  DisputesInv'
<1> USE DEF At
<1>1. TypeOK /\ CallWellFormed(c) /\ CallKnows(c) /\ call[c] \in Call
  BY DEF DisputesInv, TypeOK
<1>2. OthersKept(c) /\ UNCHANGED <<reverses, dispute>>
  BY CallsApart DEF CallStep, ReadSiblings, ReadDisputes, UpdateOriginal, Database
<1>3. /\ call[c].original \in Originals /\ call[c].notice \in Notices
      /\ call[c].does # "record" /\ Resolving(c)
  BY <1>1 DEF ReadSiblings, ReadDisputes, UpdateOriginal, CallWellFormed, InTransaction, Resolving
<1>4. /\ call'[c].step \in {"readDisputes", "updateOriginal", "finish"}
      /\ call'[c].original = call[c].original
      /\ call'[c].notice = call[c].notice /\ call'[c].does = call[c].does
  <2>1. CASE ReadSiblings(c)
    <3>1. PICK found : call'[c] = [call[c] EXCEPT !.step = "readDisputes", !.siblings = found]
      BY <1>1, <2>1 DEF ReadSiblings, TypeOK
    <3> QED BY <1>1, <3>1 DEF Call
  <2>2. CASE ReadDisputes(c)
    <3>1. PICK verdict : call'[c] = [call[c] EXCEPT !.step = "updateOriginal", !.aggregate = verdict]
      BY <1>1, <2>2 DEF ReadDisputes, TypeOK
    <3> QED BY <1>1, <3>1 DEF Call
  <2>3. CASE UpdateOriginal(c)
    BY <1>1, <2>3 DEF UpdateOriginal, Goto, TypeOK, Call
  <2> QED
    BY <2>1, <2>2, <2>3
<1>5. owner[call[c].notice] = c => owner'[call[c].notice] = c
  BY <1>1, <1>3 DEF ReadSiblings, ReadDisputes, UpdateOriginal, Acquire, TypeOK, Locks
<1>6. CallWellFormed(c)' /\ CallKnows(c)'
  BY <1>1, <1>2, <1>3, <1>4, <1>5 DEF CallWellFormed, CallKnows, InTransaction, Charging, Resolving
<1> QED
  BY <1>2, <1>6, ReadingStep

\* A chargeback that posts holds its funding's lock, so the funding still has
\* room for it; no other call charges the same funding.
LEMMA PostChargebackStep == ASSUME DisputesInv, [Next]_vars, NEW c \in Calls, PostChargeback(c) PROVE DisputesInv'
<1> DEFINE n == call[c].notice
           o == call[c].original
<1> USE DEF At
<1>1. TypeOK /\ TypeOK' /\ CallWellFormed(c) /\ CallKnows(c) /\ RowsPaired /\ ChargebacksWithinFunding
  BY TypeStep DEF DisputesInv
<1>2. OthersKept(c)
  BY CallsApart DEF CallStep
<1>3. n \in Notices /\ o \in Originals /\ owner[o] = c /\ WithinFunding(o)
  BY <1>1 DEF PostChargeback, CallWellFormed, CallKnows, InTransaction, Charging
<1>4. CallWellFormed(c)' /\ CallKnows(c)'
  BY <1>1, EndedKnows DEF PostChargeback, Release
<1>5. CASE dispute[n] # "none"
  <2>1. UNCHANGED <<reverses, dispute>>
    BY <1>5 DEF PostChargeback, Database
  <2> QED
    BY <1>2, <1>4, <2>1, ReadingStep
<1>6. CASE dispute[n] = "none"
  <2>1. reverses' = [reverses EXCEPT ![n] = o] /\ dispute' = [dispute EXCEPT ![n] = "open"]
    BY <1>6 DEF PostChargeback
  <2>2. reverses[n] = Nobody
    BY <1>1, <1>3, <1>6 DEF RowsPaired
  <2>3. RowsPaired'
    BY <1>1, <1>3, <2>1, DisputesAssumption DEF RowsPaired, TypeOK
  <2>4. \A p \in Originals : ChargedBack(p)' = IF p = o THEN ChargedBack(p) + 1 ELSE ChargedBack(p)
    BY <1>1, <1>3, <2>1, <2>2, ChargedBackGrows
  <2>5. ChargebacksWithinFunding'
    BY <1>1, <1>3, <2>4 DEF ChargebacksWithinFunding, WithinFunding
  <2>6. ASSUME NEW d \in Calls \ {c} PROVE CallWellFormed(d)' /\ CallKnows(d)'
    <3>1. CallWellFormed(d) /\ CallKnows(d) /\ call'[d] = call[d]
      BY <1>2 DEF DisputesInv, OthersKept
    <3>2. CallWellFormed(d)'
      BY <3>1 DEF CallWellFormed, InTransaction
    <3>3. Charging(d) \/ Resolving(d) => /\ call[d].original \in Originals
                                         /\ call[d].notice \in Notices
      BY <3>1 DEF CallWellFormed, InTransaction, Charging, Resolving
    <3>4. Charging(d) => call[d].original # o /\ WithinFunding(call[d].original)'
      BY <1>3, <2>4, <3>1, <3>3 DEF CallKnows, WithinFunding
    <3>5. Resolving(d) => dispute'[call[d].notice] = "open"
      BY <1>1, <1>3, <2>1, <3>1, <3>3 DEF CallKnows, TypeOK
    <3>6. /\ Charging(d) => owner'[call[d].original] = d
          /\ Resolving(d) => owner'[call[d].notice] = d
      BY <1>2, <3>1, <3>3 DEF OthersKept, Locks, CallKnows
    <3>7. CallKnows(d)'
      BY <3>1, <3>4, <3>5, <3>6 DEF CallKnows, Charging, Resolving, WithinFunding, ChargedBack
    <3> QED
      BY <3>2, <3>7
  <2> QED
    BY <1>1, <1>4, <2>3, <2>5, <2>6 DEF DisputesInv
<1> QED
  BY <1>5, <1>6

\* A resolution decides the dispute whose lock it holds and which is open.
LEMMA FinishStep == ASSUME DisputesInv, [Next]_vars, NEW c \in Calls, FinishResolution(c) PROVE DisputesInv'
<1> DEFINE n == call[c].notice
<1> USE DEF At
<1>1. TypeOK /\ TypeOK' /\ CallWellFormed(c) /\ CallKnows(c) /\ RowsPaired /\ ChargebacksWithinFunding
  BY TypeStep DEF DisputesInv
<1>2. OthersKept(c)
  BY CallsApart DEF CallStep
<1>3. n \in Notices /\ owner[n] = c /\ dispute[n] = "open"
  BY <1>1 DEF FinishResolution, CallWellFormed, CallKnows, InTransaction, Resolving
<1>4. CallWellFormed(c)' /\ CallKnows(c)'
  BY <1>1, EndedKnows DEF FinishResolution, Release
<1>5. /\ reverses' = reverses
      /\ \E verdict \in {"upheld", "resolved"} : dispute' = [dispute EXCEPT ![n] = verdict]
  BY <1>1 DEF FinishResolution, CallWellFormed, TypeOK, Call
<1>6. RowsPaired'
  BY <1>1, <1>3, <1>5 DEF RowsPaired, TypeOK
<1>7. ChargebacksWithinFunding'
  BY <1>1, <1>5 DEF ChargebacksWithinFunding, ChargedBack
<1>8. ASSUME NEW d \in Calls \ {c} PROVE CallWellFormed(d)' /\ CallKnows(d)'
  <2>1. CallWellFormed(d) /\ CallKnows(d) /\ call'[d] = call[d]
    BY <1>2 DEF DisputesInv, OthersKept
  <2>2. CallWellFormed(d)'
    BY <2>1 DEF CallWellFormed, InTransaction
  <2>3. Charging(d) \/ Resolving(d) => /\ call[d].original \in Originals
                                       /\ call[d].notice \in Notices
    BY <2>1 DEF CallWellFormed, InTransaction, Charging, Resolving
  <2>4. Resolving(d) => dispute'[call[d].notice] = "open"
    BY <1>1, <1>3, <1>5, <2>1, <2>3 DEF CallKnows, TypeOK
  <2>5. /\ Charging(d) => owner'[call[d].original] = d
        /\ Resolving(d) => owner'[call[d].notice] = d
    BY <1>2, <2>1, <2>3 DEF OthersKept, Locks, CallKnows
  <2>6. CallKnows(d)'
    BY <1>5, <2>1, <2>4, <2>5 DEF CallKnows, Charging, Resolving, WithinFunding, ChargedBack
  <2> QED
    BY <2>2, <2>6
<1> QED
  BY <1>1, <1>4, <1>6, <1>7, <1>8 DEF DisputesInv

\* A call that arrives knows which dispute and funding it is about.
LEMMA ArrivalStep ==
  ASSUME DisputesInv, [Next]_vars, NEW c \in Calls, NEW n \in Notices,
         \/ \E o \in Originals : RecordChargeback(c, n, o)
         \/ \E outcome \in {"upheld", "resolved"} : ResolveDispute(c, n, outcome)
  PROVE  DisputesInv'
<1> USE DEF At
<1>1. TypeOK /\ RowsPaired /\ call[c] \in Call
  BY DEF DisputesInv, TypeOK
<1>2. OthersKept(c) /\ UNCHANGED <<reverses, dispute>>
  BY CallsApart DEF RecordChargeback, ResolveDispute, Database
<1>3. \/ /\ call'[c].step = "lockOriginal" /\ call'[c].does = "record"
         /\ call'[c].notice \in Notices /\ call'[c].original \in Originals
      \/ /\ call'[c].step = "lockDispute" /\ call'[c].does # "record"
         /\ call'[c].notice \in Notices /\ call'[c].original \in Originals
  <2>1. CASE \E o \in Originals : RecordChargeback(c, n, o)
    <3>1. PICK o \in Originals :
            call'[c] = [NewCall EXCEPT !.step = "lockOriginal", !.notice = n, !.original = o]
      BY <1>1, <2>1 DEF RecordChargeback, TypeOK
    <3> QED
      BY <3>1 DEF NewCall
  <2>2. CASE \E outcome \in {"upheld", "resolved"} : ResolveDispute(c, n, outcome)
    <3>1. reverses[n] \in Originals
      BY <1>1, <2>2 DEF ResolveDispute, RowsPaired, TypeOK
    <3>2. PICK outcome \in {"upheld", "resolved"} :
            call'[c] = [NewCall EXCEPT !.step = "lockDispute", !.does = outcome, !.notice = n,
                                       !.original = reverses[n]]
      BY <1>1, <2>2 DEF ResolveDispute, TypeOK
    <3> QED
      BY <3>1, <3>2 DEF NewCall
  <2> QED
    BY <2>1, <2>2
<1>4. CallWellFormed(c)' /\ CallKnows(c)'
  BY <1>3 DEF CallWellFormed, CallKnows, InTransaction, Charging, Resolving
<1> QED
  BY <1>2, <1>4, ReadingStep

\* A rollback, after a crash or a deadlock, undoes everything but the locks.
LEMMA RollbackStep == ASSUME DisputesInv, [Next]_vars, NEW c \in Calls, Rollback(c) PROVE DisputesInv'
<1>1. OthersKept(c) /\ UNCHANGED <<reverses, dispute>>
  BY CallsApart DEF Rollback, Database
<1>2. CallWellFormed(c)' /\ CallKnows(c)'
  BY EndedKnows DEF DisputesInv, Rollback, Release
<1> QED
  BY <1>1, <1>2, ReadingStep

\* Steps of no call: the wallet in use, profile calls, and stuttering.
LEMMA ElsewhereStep ==
  ASSUME DisputesInv, [Next]_vars,
         UseWallet \/ ReadUser \/ (\E value \in BOOLEAN : SaveUser(value)) \/ UNCHANGED vars
  PROVE  DisputesInv'
<1>1. UNCHANGED <<reverses, dispute, owner, call>>
  BY DEF UseWallet, ReadUser, SaveUser, Others, vars
<1>2. TypeOK'
  BY TypeStep
<1>3. RowsPaired' /\ ChargebacksWithinFunding'
  BY <1>1 DEF DisputesInv, RowsPaired, ChargebacksWithinFunding, ChargedBack
<1>4. \A c \in Calls : CallWellFormed(c)' /\ CallKnows(c)'
  BY <1>1 DEF DisputesInv, CallWellFormed, CallKnows, InTransaction, Charging, Resolving, WithinFunding, ChargedBack
<1> QED
  BY <1>2, <1>3, <1>4 DEF DisputesInv

\* The invariant holds at the start, with nothing charged back yet.
LEMMA DisputesInvInit == ASSUME Init PROVE DisputesInv
<1>1. MaxBalance \in Nat
  BY FS_CardinalityType, DisputesAssumption DEF MaxBalance
<1>2. TypeOK
  <2>1. NewCall \in Call
    BY DEF NewCall, Call, Step, Status
  <2>2. balance \in Int
    BY <1>1 DEF Init
  <2>3. frozen \in BOOLEAN
    BY DEF Init
  <2>4. status \in [Originals -> Status] /\ dispute \in [Notices -> Verdict]
    BY DEF Init, Status, Verdict
  <2> QED
    BY <2>1, <2>2, <2>3, <2>4 DEF Init, TypeOK
<1>3. RowsPaired
  BY DEF Init, RowsPaired
<1>4. ChargebacksWithinFunding
  <2> SUFFICES ASSUME NEW o \in Originals PROVE ChargedBack(o) <= Funded
    BY DEF ChargebacksWithinFunding
  <2>1. {n \in Notices : reverses[n] = o} = {}
    BY DisputesAssumption DEF Init
  <2> QED
    BY <2>1, FS_EmptySet, DisputesAssumption DEF ChargedBack
<1>5. \A c \in Calls : CallWellFormed(c) /\ CallKnows(c)
  BY DEF Init, NewCall, CallWellFormed, CallKnows, InTransaction, Charging, Resolving
<1> QED
  BY <1>2, <1>3, <1>4, <1>5 DEF DisputesInv

\* Every step keeps the invariant.
LEMMA DisputesInvStep == ASSUME DisputesInv, [Next]_vars PROVE DisputesInv'
<1>1. ASSUME NEW c \in Calls, CallStep(c) PROVE DisputesInv'
  BY <1>1, LockOriginalStep, LockAccountsStep, PostChargebackStep, LockDisputeStep, ReadStep,
     FinishStep DEF CallStep
<1>2. ASSUME NEW c \in Calls, Crash(c) \/ DetectDeadlock(c) PROVE DisputesInv'
  BY <1>2, RollbackStep DEF Crash, DetectDeadlock
<1> QED
  BY <1>1, <1>2, ArrivalStep, ElsewhereStep DEF Next

\* Every behaviour of racing chargebacks and resolutions keeps the invariant.
THEOREM DisputesInvHolds == Spec => []DisputesInv
BY DisputesInvInit, DisputesInvStep, PTL DEF Spec

-----------------------------------------------------------------------------
(* What follows *)

\* recordChargeback: two chargebacks recorded at once never take back more
\* than the funding, for every number of racing calls.
THEOREM ChargebacksBounded == Spec => []ChargebacksWithinFunding
<1>1. DisputesInv => ChargebacksWithinFunding
  BY DEF DisputesInv
<1> QED
  BY <1>1, DisputesInvHolds, PTL

\* resolveDispute decides a dispute once: a verdict is never changed, by
\* whatever resolutions race.
THEOREM VerdictsFinal == Spec => VerdictIsFinal
<1>1. ASSUME DisputesInv, [Next]_vars
      PROVE  [\A n \in Notices : dispute[n] \in {"upheld", "resolved"} => dispute'[n] = dispute[n]]_vars
  <2> SUFFICES ASSUME NEW m \in Notices, dispute[m] \in {"upheld", "resolved"}
               PROVE  dispute'[m] = dispute[m]
    OBVIOUS
  <2> USE DEF Database, At
  <2>1. ASSUME NEW c \in Calls, PostChargeback(c) PROVE dispute'[m] = dispute[m]
    BY <1>1, <2>1 DEF PostChargeback, DisputesInv, TypeOK
  <2>2. ASSUME NEW c \in Calls, FinishResolution(c) PROVE dispute'[m] = dispute[m]
    <3>1. dispute[call[c].notice] = "open"
      BY <1>1, <2>2 DEF FinishResolution, DisputesInv, CallWellFormed, CallKnows, Resolving
    <3> QED
      BY <1>1, <2>2, <3>1 DEF FinishResolution, DisputesInv, TypeOK
  <2>3. ASSUME NEW c \in Calls, CallStep(c) PROVE dispute'[m] = dispute[m]
    BY <2>1, <2>2, <2>3 DEF CallStep, LockOriginal, LockAccounts, LockDispute, ReadSiblings,
      ReadDisputes, UpdateOriginal
  <2> QED
    BY <1>1, <2>3 DEF Next, RecordChargeback, ResolveDispute, Crash, DetectDeadlock, Rollback, UseWallet,
      ReadUser, SaveUser, Others, vars
<1> QED
  BY <1>1, DisputesInvHolds, PTL DEF Spec, VerdictIsFinal

\* resolveDispute lifts the freeze only when no dispute of the user is open and
\* no money is owed, after its own verdict and credit; nothing else lifts it but
\* the save of a user row that was read unfrozen.
THEOREM UnfreezeSafe == Spec => UnfreezesSafely
<1>1. ASSUME DisputesInv, [Next]_vars
      PROVE  [frozen /\ ~frozen' => \/ balance' >= 0 /\ \A n \in Notices : dispute'[n] # "open"
                                   \/ SaveUser(FALSE)]_vars
  <2> SUFFICES ASSUME frozen, ~frozen', ~SaveUser(FALSE)
               PROVE  balance' >= 0 /\ \A n \in Notices : dispute'[n] # "open"
    OBVIOUS
  <2>0. ~(\E value \in BOOLEAN : SaveUser(value))
    <3>1. ~SaveUser(TRUE)
      BY Zenon DEF SaveUser
    <3> QED BY <3>1
  <2>1. PICK c \in Calls : FinishResolution(c)
    BY <1>1, <2>0, Zenon DEF Next, CallStep, LockOriginal, LockAccounts, PostChargeback, LockDispute,
      ReadSiblings, ReadDisputes, UpdateOriginal, RecordChargeback, ResolveDispute, Crash,
      DetectDeadlock, Rollback, UseWallet, ReadUser, Database, vars
  <2>2. call[c].does = "resolved" /\ MayUnfreeze(call[c].notice)
    BY <2>1, Zenon DEF FinishResolution
  <2>3. balance' = balance + 1 /\ dispute' = [dispute EXCEPT ![call[c].notice] = "resolved"]
    BY <2>1, <2>2 DEF FinishResolution
  <2> QED
    BY <1>1, <2>2, <2>3 DEF MayUnfreeze, DisputesInv, TypeOK
<1> QED
  BY <1>1, DisputesInvHolds, PTL DEF Spec, UnfreezesSafely
=============================================================================
