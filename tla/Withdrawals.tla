---------------------------- MODULE Withdrawals -----------------------------
(***************************************************************************)
(* A withdrawal from the client's request to its final answer:             *)
(* WithdrawalsService.initiateWithdrawal (debit first, then call the       *)
(* provider), the payout webhook and the payout poll of PaymentsService,   *)
(* and the provider Kora, which is external.  Any step of a request or of  *)
(* a poll run may be the last one its process takes.                       *)
(*                                                                         *)
(* LedgerService's database transactions are single steps here; module     *)
(* Ledger says what each of them posts.                                    *)
(***************************************************************************)
EXTENDS Integers, Sequences

CONSTANTS
  References,   \* client-supplied withdrawal references
  Requests,     \* HTTP requests, retries of the same reference included
  Idle,         \* no reference
  MaxCrashes    \* bound on process crashes

ASSUME WithdrawalsAssumption ==
  /\ Idle \notin References
  /\ MaxCrashes \in Nat

VARIABLES
  row,       \* status of the withdrawal's transactions row
  credits,   \* withdrawal_reversal transactions posted for it
  kora,      \* what the provider did with the payout
  sent,      \* payout calls made for the reference
  notices,   \* withdrawal.completed / withdrawal.failed events published
  pc,        \* where each request is
  reference, \* the reference each request carries
  told,      \* what each request was answered
  poll,      \* the poll run: the reference it verified and the answer it holds
  crashes

vars == <<row, credits, kora, sent, notices, pc, reference, told, poll, crashes>>

RowStatus == {"none", "pending", "completed", "reversed"}
Paid == {"success", "misreported"}      \* the bank was paid; misreported: another amount
Final == Paid \cup {"failed"}
KoraStatus == {"none", "processing"} \cup Final
Step == {"new", "check", "post", "payout", "reverse", "done"}
NoPoll == [reference |-> Idle, answer |-> "none"]

-----------------------------------------------------------------------------
(* The ledger's two guarded status transitions *)

\* Mutant: the UPDATE does not ask for a pending row.
IsPosted(r) == row[r] # "none"

\* UPDATE ... WHERE reference = r AND status = 'pending'.
IsPending(r) == row[r] = "pending"

ReverseWithdrawal(r) ==
  /\ row' = [row EXCEPT ![r] = IF IsPending(r) THEN "reversed" ELSE @]
  /\ credits' = [credits EXCEPT ![r] = IF IsPending(r) THEN @ + 1 ELSE @]

\* An amount that does not match leaves the withdrawal as it is.
CompleteWithdrawal(r, answer) ==
  /\ row' = [row EXCEPT ![r] =
               IF IsPending(r) /\ answer = "success" THEN "completed" ELSE @]
  /\ UNCHANGED credits

\* What the webhook and the poll do with a provider status: reverse on a
\* failure, complete on a success, publish the event of the transition that
\* was made (a crash after the commit loses the event).
Apply(r, answer) ==
  LET decided == IsPending(r) /\ answer # "misreported" IN
  /\ IF answer = "failed" THEN ReverseWithdrawal(r) ELSE CompleteWithdrawal(r, answer)
  /\ \/ notices' = [notices EXCEPT ![r] = IF decided THEN Append(@, answer) ELSE @]
     \/ /\ decided
        /\ crashes < MaxCrashes
        /\ UNCHANGED notices
  /\ crashes' = IF decided /\ notices' = notices THEN crashes + 1 ELSE crashes

-----------------------------------------------------------------------------
(* initiateWithdrawal *)

At(q, step) == pc[q] = step
Goto(q, step) == pc' = [pc EXCEPT ![q] = step]
Answer(q, answer) == told' = [told EXCEPT ![q] = answer]

Receive(q, r) ==
  /\ At(q, "new")
  /\ reference' = [reference EXCEPT ![q] = r]
  /\ Goto(q, "check")
  /\ UNCHANGED <<row, credits, kora, sent, notices, told, poll, crashes>>

\* resolveWithdrawalReplay: a reversed withdrawal is answered as a failure, any
\* other existing one as pending.
ReplayAnswer(r) == IF row[r] = "reversed" THEN "failed" ELSE "pending"

\* checkIdempotentReplay, before the PIN is asked for.  The reference of another
\* user, amount or bank account is refused.
CheckIdempotentReplay(q) ==
  /\ At(q, "check")
  /\ IF row[reference[q]] = "none"
     THEN Goto(q, "post") /\ UNCHANGED told
     ELSE /\ Goto(q, "done")
          /\ Answer(q, ReplayAnswer(reference[q])) \/ Answer(q, "refused")
  /\ UNCHANGED <<row, credits, kora, sent, notices, reference, poll, crashes>>

\* A frozen user, a wrong PIN, an exceeded limit or insufficient funds.  The
\* last two are found inside the posting transaction, so the reference is
\* looked up once more: a racing duplicate may have committed.
Refuse(q) ==
  /\ At(q, "post")
  /\ Goto(q, "done")
  /\ \/ Answer(q, "refused")
     \/ row[reference[q]] # "none" /\ Answer(q, ReplayAnswer(reference[q]))
  /\ UNCHANGED <<row, credits, kora, sent, notices, reference, poll, crashes>>

\* Mutant: the request that lost the race goes on to pay out, too.
PostOrResume(q) ==
  /\ At(q, "post")
  /\ row' = [row EXCEPT ![reference[q]] = IF @ = "none" THEN "pending" ELSE @]
  /\ Goto(q, "payout")
  /\ UNCHANGED <<credits, kora, sent, notices, reference, told, poll, crashes>>

\* postWithdrawal: the unique reference decides which of two racing requests
\* inserts the row and debits the wallet; the other gets its result.
PostWithdrawal(q) ==
  LET r == reference[q] IN
  /\ At(q, "post")
  /\ IF row[r] = "none"
     THEN /\ row' = [row EXCEPT ![r] = "pending"]
          /\ Goto(q, "payout")
          /\ UNCHANGED told
     ELSE /\ Goto(q, "done")
          /\ Answer(q, ReplayAnswer(r))
          /\ UNCHANGED row
  /\ UNCHANGED <<credits, kora, sent, notices, reference, poll, crashes>>

\* Mutant: a call without a confirmed answer is taken for a rejection.
UnknownIsRejected(outcome) == IF outcome = "accepted" THEN "done" ELSE "reverse"

\* Only a confirmed rejection reverses; an unknown outcome stays pending.
AfterPayout(outcome) == IF outcome = "rejected" THEN "reverse" ELSE "done"

\* The provider call, made after the posting committed.  Unknown means no
\* readable answer: Kora may or may not have received the payout.
InitiatePayout(q, outcome) ==
  LET r == reference[q] IN
  /\ At(q, "payout")
  /\ sent' = [sent EXCEPT ![r] = @ + 1]
  /\ \E status \in CASE outcome = "accepted" -> {"processing"}
                     [] outcome = "rejected" -> {"failed"}
                     [] outcome = "unknown"  -> {"processing", "failed", kora[r]} :
       kora' = [kora EXCEPT ![r] = status]
  /\ Goto(q, AfterPayout(outcome))
  /\ IF AfterPayout(outcome) = "done" THEN Answer(q, "pending") ELSE UNCHANGED told
  /\ UNCHANGED <<row, credits, notices, reference, poll, crashes>>

\* Mutant: the failure is reported and nothing is reversed.
ReportRejectionOnly(q) ==
  /\ At(q, "reverse")
  /\ Goto(q, "done")
  /\ Answer(q, "failed")
  /\ UNCHANGED <<row, credits, kora, sent, notices, reference, poll, crashes>>

\* The rejected payout is reversed before the request fails.
ReverseRejected(q) ==
  /\ At(q, "reverse")
  /\ ReverseWithdrawal(reference[q])
  /\ Goto(q, "done")
  /\ Answer(q, "failed")
  /\ UNCHANGED <<kora, sent, notices, reference, poll, crashes>>

Crash(q) ==
  /\ pc[q] \notin {"new", "done"}
  /\ crashes < MaxCrashes
  /\ crashes' = crashes + 1
  /\ Goto(q, "done")
  /\ UNCHANGED <<row, credits, kora, sent, notices, reference, told, poll>>

-----------------------------------------------------------------------------
(* Kora, the webhook and the poll *)

\* Kora decides a payout it is processing, once.
KoraSettles(r) ==
  /\ kora[r] = "processing"
  /\ \E status \in Final : kora' = [kora EXCEPT ![r] = status]
  /\ UNCHANGED <<row, credits, sent, notices, pc, reference, told, poll, crashes>>

\* processPayoutWebhookData: delivered never, late or any number of times.
PayoutWebhook(r) ==
  /\ kora[r] \in Final
  /\ Apply(r, kora[r])
  /\ UNCHANGED <<kora, sent, pc, reference, told, poll>>

\* pollWithdrawalTransaction asks Kora about a stale pending withdrawal.  Kora
\* has no answer for a reference it never saw: verifyPayout throws and the
\* next run asks again.
PollVerify(r) ==
  /\ poll = NoPoll
  /\ IsPending(r)
  /\ kora[r] \in Final
  /\ poll' = [reference |-> r, answer |-> kora[r]]
  /\ UNCHANGED <<row, credits, kora, sent, notices, pc, reference, told, crashes>>

\* Mutant: the poll acts on successes only.
PollAppliesSuccess ==
  /\ poll # NoPoll
  /\ poll' = NoPoll
  /\ IF poll.answer = "failed" THEN UNCHANGED <<row, credits, notices, crashes>>
                               ELSE Apply(poll.reference, poll.answer)
  /\ UNCHANGED <<kora, sent, pc, reference, told>>

\* It applies the answer later, when a webhook may already have.
PollApply ==
  /\ poll # NoPoll
  /\ Apply(poll.reference, poll.answer)
  /\ poll' = NoPoll
  /\ UNCHANGED <<kora, sent, pc, reference, told>>

PollCrash ==
  /\ poll # NoPoll
  /\ crashes < MaxCrashes
  /\ crashes' = crashes + 1
  /\ poll' = NoPoll
  /\ UNCHANGED <<row, credits, kora, sent, notices, pc, reference, told>>

-----------------------------------------------------------------------------
Init ==
  /\ row = [r \in References |-> "none"]
  /\ credits = [r \in References |-> 0]
  /\ kora = [r \in References |-> "none"]
  /\ sent = [r \in References |-> 0]
  /\ notices = [r \in References |-> <<>>]
  /\ pc = [q \in Requests |-> "new"]
  /\ reference = [q \in Requests |-> Idle]
  /\ told = [q \in Requests |-> "nothing"]
  /\ poll = NoPoll
  /\ crashes = 0

Outcome == {"accepted", "rejected", "unknown"}

RequestStep(q) ==
  \/ CheckIdempotentReplay(q)
  \/ Refuse(q)
  \/ PostWithdrawal(q)
  \/ \E outcome \in Outcome : InitiatePayout(q, outcome)
  \/ ReverseRejected(q)

Next ==
  \/ \E q \in Requests, r \in References : Receive(q, r)
  \/ \E q \in Requests : RequestStep(q) \/ Crash(q)
  \/ \E r \in References : KoraSettles(r) \/ PayoutWebhook(r) \/ PollVerify(r)
  \/ PollApply
  \/ PollCrash

\* Requests run on, Kora decides what it accepted, and the five-minute poll
\* job keeps running.  No webhook need ever arrive.
Fairness ==
  /\ \A q \in Requests : WF_vars(RequestStep(q))
  /\ \A r \in References : WF_vars(KoraSettles(r)) /\ SF_vars(PollVerify(r))
  /\ WF_vars(PollApply)

Spec == Init /\ [][Next]_vars
FairSpec == Spec /\ Fairness

-----------------------------------------------------------------------------
(* Properties *)

\* Rows, provider records, requests and the answers clients get stay in their
\* types; a client is told pending, failed or refused, never a raw row status.
TypeOK ==
  /\ row \in [References -> RowStatus]
  /\ credits \in [References -> Nat]
  /\ kora \in [References -> KoraStatus]
  /\ sent \in [References -> Nat]
  /\ notices \in [References -> Seq(Final)]
  /\ pc \in [Requests -> Step]
  /\ reference \in [Requests -> References \cup {Idle}]
  /\ told \in [Requests -> {"nothing", "pending", "failed", "refused"}]
  /\ poll \in [reference : References \cup {Idle}, answer : Final \cup {"none"}]
  /\ crashes \in Nat

\* Where the money of a withdrawal is.  "both" is no place of PayoutPromise:
\* the bank was paid and the wallet credited back, or credited back twice.
Whereabouts(r) ==
  IF row[r] = "none" THEN "wallet"
  ELSE CASE credits[r] = 0 /\ kora[r] \notin Paid -> "transit"
         [] credits[r] = 0 /\ kora[r] \in Paid -> "bank"
         [] credits[r] = 1 /\ kora[r] \notin Paid -> "returned"
         [] OTHER -> "both"

Promise == INSTANCE PayoutPromise
             WITH money <- [r \in References |-> Whereabouts(r)]

\* The money of every withdrawal arrives or comes back, never both and never
\* twice, whatever request, webhook, poll and crash come between.
KeepsPromise == Promise!Spec

\* Racing and repeated requests of one reference make one payout call.
PaidOutOnce == \A r \in References : sent[r] <= 1

\* A client told that its withdrawal failed has its money back, and a
\* withdrawal shown as completed was paid in the requested amount.
AnswersAreTrue ==
  /\ \A q \in Requests :
       pc[q] = "done" /\ told[q] = "failed" => row[reference[q]] = "reversed"
  /\ \A r \in References : row[r] = "completed" => kora[r] = "success"

\* The user gets at most one final notice, and it says what happened.
OneTrueNotice ==
  \A r \in References :
    /\ Len(notices[r]) <= 1
    /\ \A i \in DOMAIN notices[r] :
         row[r] = IF notices[r][i] = "failed" THEN "reversed" ELSE "completed"

\* A payout the provider received is decided even when every webhook is lost:
\* the poll finds it (unless Kora reports another amount, which is left for
\* investigation).
ReceivedIsDecided ==
  \A r \in References :
    kora[r] # "none" ~> row[r] # "pending" \/ kora[r] = "misreported"

=============================================================================
