------------------------------ MODULE Refunds -------------------------------
(***************************************************************************)
(* The refund of one funding that would have breached the balance cap      *)
(* (ADR-0021): PaymentsService.completeFunding and the refund webhook, the *)
(* five-minute refund poll, LedgerService's attempt rows, and the provider *)
(* Kora, which is external.                                                *)
(*                                                                         *)
(* Workers are the processes that run these handlers.  A worker keeps what *)
(* it read (a provider answer, the number of attempts) while others go on; *)
(* it may crash between any two of its steps.                              *)
(***************************************************************************)
EXTENDS Integers, Sequences, FiniteSets

CONSTANTS
  Workers,            \* webhook handlers and poll runs that may overlap
  MaxRefundAttempts,  \* MAX_REFUND_ATTEMPTS
  MaxReferences,      \* bound on the attempt rows followed
  MaxFaults,          \* bound on crashes and refund calls that never reach Kora
  Recants             \* Kora may pay a refund it first reported failed

ASSUME RefundsAssumption ==
  /\ MaxRefundAttempts \in Nat \ {0}
  /\ MaxReferences \in Nat
  /\ MaxRefundAttempts <= MaxReferences
  /\ MaxFaults \in Nat
  /\ Recants \in BOOLEAN

VARIABLES
  funding,   \* status of the funding's transactions row
  attempts,  \* status of the funding_refund rows, in order
  kora,      \* what the provider did with each refund reference
  worker,    \* what each worker is about to do
  alerts,    \* refund.attention_required reasons published
  refused,   \* history: references Kora answered with a refusal
  faults     \* crashes and lost calls so far

refundsVars == <<funding, attempts, kora, worker, alerts, refused, faults>>

Numbers == 1..MaxReferences
FundingStatus == {"pending", "held", "refunded"}
AttemptStatus == {"pending", "failed", "completed"}
\* late: paid after it was reported failed; other: paid another amount
KoraStatus == {"none", "processing", "success", "failed", "late", "other"}
Paid == {"success", "late"}
Successes == Paid \cup {"other"}
Job == [does   : {"idle", "send", "reject", "resolve", "start"},
        number : 0..MaxReferences,
        answer : KoraStatus]
IdleJob == [does |-> "idle", number |-> 0, answer |-> "none"]

Becomes(k, does, number, answer) ==
  worker' = [worker EXCEPT ![k] = [does |-> does, number |-> number, answer |-> answer]]
Rest(k) == worker' = [worker EXCEPT ![k] = IdleJob]
Doing(k, does) == worker[k].does = does

HasPending == \E n \in DOMAIN attempts : attempts[n] = "pending"
LastFailed == attempts # <<>> /\ attempts[Len(attempts)] = "failed"

-----------------------------------------------------------------------------
(* The ledger's transactions *)

\* failRefund: guarded on pending.
FailRefund(n) ==
  attempts' = [attempts EXCEPT ![n] = IF @ = "pending" THEN "failed" ELSE @]

\* Mutant: the reported amount is not compared.
SettlesAnyAmount(n, answer) == funding = "held" /\ attempts[n] \in {"pending", "failed"}

\* settleRefund: the reported amount is the attempt's, the funding under its
\* row lock is held, and a failed attempt still settles.
CanSettle(n, answer) ==
  answer \in Paid /\ funding = "held" /\ attempts[n] \in {"pending", "failed"}

\* Mutants: a duplicate delivery counts as a second payout; a superseded
\* attempt is thought to be of no interest.
IsSuccessAfterRefund(n) == funding = "refunded"
IsPendingSuccess(n) == funding = "refunded" /\ attempts[n] = "pending"

\* findRefundContext in alertOnLateSuccess: the funding is refunded, and not
\* by the attempt that is now reported paid.
IsLateSuccess(n) == funding = "refunded" /\ attempts[n] # "completed"

\* A reported success: settle and supersede the other pending attempt; or, when
\* nothing settles, look for a second payout and alert.
ApplySuccess(n, answer) ==
  IF CanSettle(n, answer)
  THEN /\ attempts' = [m \in DOMAIN attempts |->
                         IF m = n THEN "completed"
                         ELSE IF attempts[m] = "pending" THEN "failed"
                         ELSE attempts[m]]
       /\ funding' = "refunded"
       /\ UNCHANGED alerts
  ELSE /\ alerts' = IF IsLateSuccess(n) THEN alerts \cup {"late_success"} ELSE alerts
       /\ UNCHANGED <<funding, attempts>>

-----------------------------------------------------------------------------
(* Holding the funding and asking for its refund *)

\* completeFunding finds the cap breached: the hold and the first attempt row
\* commit together, then the refund is asked for.
HoldFunding(k) ==
  /\ Doing(k, "idle")
  /\ funding = "pending"
  /\ funding' = "held"
  /\ attempts' = <<"pending">>
  /\ Becomes(k, "send", 1, "none")
  /\ UNCHANGED <<kora, alerts, refused, faults>>

\* Mutant: a call without a confirmed answer counts as a rejection.
UnconfirmedIsRejection(k) == Becomes(k, "reject", worker[k].number, "none")

\* Without a confirmed answer the attempt stays pending.
Unconfirmed(k) == Rest(k)

\* initiateRefund: Kora accepts a reference once and knows it afterwards, or
\* refuses it (a 4xx); an unreadable answer leaves open whether it arrived.
\* markRefundInitiated, which only feeds the reconciliation, is left out.
InitiateRefund(k) ==
  LET n == worker[k].number IN
  /\ Doing(k, "send")
  /\ \/ /\ kora' = [kora EXCEPT ![n] = IF @ = "none" THEN "processing" ELSE @]
        /\ Rest(k) \/ Unconfirmed(k)
        /\ UNCHANGED <<refused, faults>>
     \/ /\ faults < MaxFaults
        /\ faults' = faults + 1
        /\ Unconfirmed(k)
        /\ UNCHANGED <<kora, refused>>
     \/ /\ kora[n] = "none"
        /\ Becomes(k, "reject", n, "none")
        /\ refused' = refused \cup {n}
        /\ UNCHANGED <<kora, faults>>
  /\ UNCHANGED <<funding, attempts, alerts>>

FailRejected(k) ==
  /\ Doing(k, "reject")
  /\ FailRefund(worker[k].number)
  /\ Rest(k)
  /\ UNCHANGED <<funding, kora, alerts, refused, faults>>

-----------------------------------------------------------------------------
(* Kora and its webhook *)

\* Kora decides a refund it is processing; it may report another amount.
KoraSettles(n) ==
  /\ kora[n] = "processing"
  /\ \E status \in {"success", "failed", "other"} : kora' = [kora EXCEPT ![n] = status]
  /\ UNCHANGED <<funding, attempts, worker, alerts, refused, faults>>

\* It pays a refund it had reported failed.
KoraRecants(n) ==
  /\ Recants
  /\ kora[n] = "failed"
  /\ kora' = [kora EXCEPT ![n] = "late"]
  /\ UNCHANGED <<funding, attempts, worker, alerts, refused, faults>>

\* processRefundWebhookData: delivered never, late or any number of times.
RefundWebhook(n) ==
  /\ \/ kora[n] \in Successes /\ ApplySuccess(n, kora[n])
     \/ kora[n] = "failed" /\ FailRefund(n) /\ UNCHANGED <<funding, alerts>>
  /\ UNCHANGED <<kora, worker, refused, faults>>

-----------------------------------------------------------------------------
(* The refund poll *)

\* resolveStaleRefund asks about a pending attempt.  A refund still processing
\* is left alone; not_found is "none".
PollVerify(k, n) ==
  /\ Doing(k, "idle")
  /\ attempts[n] = "pending"
  /\ kora[n] # "processing"
  /\ Becomes(k, "resolve", n, kora[n])
  /\ UNCHANGED <<funding, attempts, kora, alerts, refused, faults>>

\* Mutant: a reference Kora does not know is waited for.
NoResend(k, n) == Rest(k)

\* The initiate call never reached Kora: the same reference is sent again.
Resend(k, n) == Becomes(k, "send", n, "none")

\* It acts on the answer it holds.
ResolveStaleRefund(k) ==
  LET n == worker[k].number
      answer == worker[k].answer
  IN
  /\ Doing(k, "resolve")
  /\ CASE answer = "none"    -> Resend(k, n) /\ UNCHANGED <<funding, attempts, alerts>>
       [] answer = "failed"  -> FailRefund(n) /\ Rest(k) /\ UNCHANGED <<funding, alerts>>
       [] answer \in Successes -> ApplySuccess(n, answer) /\ Rest(k)
  /\ UNCHANGED <<kora, refused, faults>>

\* held.attempts >= MAX_REFUND_ATTEMPTS of the rows findHeldFundings read.
MayRetry == Len(attempts) < MaxRefundAttempts

\* retryFailedRefunds decides on what findHeldFundings read.
RetryScan(k) ==
  /\ Doing(k, "idle")
  /\ funding = "held"
  /\ ~HasPending
  /\ LastFailed
  /\ MayRetry
  /\ Becomes(k, "start", 0, "none")
  /\ UNCHANGED <<funding, attempts, kora, alerts, refused, faults>>

\* What startRefundAttempt checks under the funding's row lock.
MayStart == funding = "held" /\ ~HasPending

StartRefundAttempt(k) ==
  /\ Doing(k, "start")
  /\ IF MayStart /\ Len(attempts) < MaxReferences
     THEN /\ attempts' = Append(attempts, "pending")
          /\ Becomes(k, "send", Len(attempts) + 1, "none")
     ELSE Rest(k) /\ UNCHANGED attempts
  /\ UNCHANGED <<funding, kora, alerts, refused, faults>>

\* alertOnHeldFundings: all attempts are used up and the last one failed, or
\* the money has been held for a day (at any time here).
AlertOnHeldFunding(reason) ==
  /\ funding = "held"
  /\ reason = "retries_exhausted" =>
       ~HasPending /\ LastFailed /\ Len(attempts) >= MaxRefundAttempts
  /\ alerts' = alerts \cup {reason}
  /\ UNCHANGED <<funding, attempts, kora, worker, refused, faults>>

WorkerCrash(k) ==
  /\ ~Doing(k, "idle")
  /\ faults < MaxFaults
  /\ faults' = faults + 1
  /\ Rest(k)
  /\ UNCHANGED <<funding, attempts, kora, alerts, refused>>

-----------------------------------------------------------------------------
RefundsInit ==
  /\ funding = "pending"
  /\ attempts = <<>>
  /\ kora = [n \in Numbers |-> "none"]
  /\ worker = [k \in Workers |-> IdleJob]
  /\ alerts = {}
  /\ refused = {}
  /\ faults = 0

WorkerStep(k) ==
  \/ InitiateRefund(k)
  \/ FailRejected(k)
  \/ ResolveStaleRefund(k)
  \/ StartRefundAttempt(k)

Verify(n) == \E k \in Workers : PollVerify(k, n)
Retry == \E k \in Workers : RetryScan(k)

RefundsNext ==
  \/ \E k \in Workers : HoldFunding(k) \/ WorkerStep(k) \/ WorkerCrash(k)
  \/ \E n \in DOMAIN attempts : KoraSettles(n) \/ KoraRecants(n)
                                   \/ RefundWebhook(n) \/ Verify(n)
  \/ Retry
  \/ \E reason \in {"retries_exhausted", "held_too_long"} : AlertOnHeldFunding(reason)

\* Workers run on, Kora decides, and the five-minute poll job keeps running
\* all of its steps.  No webhook need ever arrive.
Fairness ==
  /\ \A k \in Workers : WF_refundsVars(WorkerStep(k))
  /\ \A n \in Numbers : /\ WF_refundsVars(n \in DOMAIN attempts /\ KoraSettles(n))
                         /\ SF_refundsVars(n \in DOMAIN attempts /\ Verify(n))
  /\ SF_refundsVars(Retry)
  /\ \A reason \in {"retries_exhausted", "held_too_long"} :
       WF_refundsVars(AlertOnHeldFunding(reason))

\* Kora repeats a webhook until it is answered.
WebhookFairness ==
  \A n \in Numbers : WF_refundsVars(n \in DOMAIN attempts /\ RefundWebhook(n))

RefundsSpec == RefundsInit /\ [][RefundsNext]_refundsVars
FairSpec == RefundsSpec /\ Fairness

-----------------------------------------------------------------------------
(* Properties *)

\* Statuses, worker jobs and alerts stay in their types; an attempt is stored
\* with one of the ledger's statuses, never with the provider's word.
RefundsTypeOK ==
  /\ funding \in FundingStatus
  /\ attempts \in Seq(AttemptStatus)
  /\ kora \in [Numbers -> KoraStatus]
  /\ worker \in [Workers -> Job]
  /\ alerts \subseteq {"late_success", "retries_exhausted", "held_too_long"}
  /\ refused \subseteq Numbers
  /\ faults \in 0..MaxFaults

\* The ledger calls a funding refunded exactly when one attempt of it is
\* completed, and that attempt was paid by Kora; at most one is in flight.
RefundedMeansPaid ==
  /\ funding = "refunded" <=> \E n \in DOMAIN attempts : attempts[n] = "completed"
  /\ \A n \in DOMAIN attempts : attempts[n] = "completed" => kora[n] \in Paid
  /\ \A m, n \in DOMAIN attempts :
       attempts[m] # "failed" /\ attempts[n] # "failed" => m = n

\* Cliqpay never has two refunds of one funding accepted that can both be paid,
\* whatever is lost, resent or retried, unless Kora contradicts itself: it pays
\* a refund it reported failed, or accepts a reference it had refused.
PaidOnceUnlessDenied ==
  \A m, n \in Numbers \ refused :
    {kora[m], kora[n]} \subseteq {"processing", "success", "other"} => m = n

\* Kora reported a success with another amount for an attempt.
Misreported == \E n \in Numbers : kora[n] = "other"

\* Held money does not stay forgotten, even when every webhook is lost: it is
\* refunded, or operations are told that the retries are used up.  An attempt
\* whose amount was misreported stays pending for ever, settleRefund refusing it
\* at every poll; then the daily held_too_long alert is what operations get.
HeldIsResolved ==
  funding = "held" ~> \/ funding = "refunded"
                      \/ "retries_exhausted" \in alerts
                      \/ Misreported /\ "held_too_long" \in alerts

\* Two attempts of the funding were paid, one of them its exact amount.
PaidTwice ==
  \E m, n \in Numbers : m # n /\ kora[m] \in Paid /\ kora[n] \in Successes

\* A second payout of the same funding is reported to operations by
\* alertOnLateSuccess, in whatever order the two successes arrive, if their
\* webhooks are delivered and the event bus takes the event
\* (publishRefundAttention swallows a failure to publish; only the two alerts
\* about held money are tried again by the next poll).
SecondPayoutAlerted ==
  WebhookFairness => (PaidTwice ~> "late_success" \in alerts)

\* Nothing but a second payout is reported as one: duplicate deliveries and
\* superseded attempts raise no late_success alert.
AlertsAreTrue == "late_success" \in alerts => PaidTwice
=============================================================================
