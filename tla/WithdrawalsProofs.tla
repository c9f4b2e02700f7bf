------------------------- MODULE WithdrawalsProofs --------------------------
(***************************************************************************)
(* Withdrawals keep their promise for every number of references and of    *)
(* requests and every number of crashes.                                   *)
(***************************************************************************)
EXTENDS Withdrawals, TLAPS

-----------------------------------------------------------------------------
(* The inductive invariant *)

\* The row, the reversal and the provider agree about reference r.
LedgerAgrees(r) ==
  /\ row[r] = "none" => kora[r] = "none" /\ sent[r] = 0
  /\ credits[r] = IF row[r] = "reversed" THEN 1 ELSE 0
  /\ row[r] = "reversed" => kora[r] = "failed"
  /\ row[r] = "completed" => kora[r] = "success"
  /\ sent[r] <= 1

\* What request q may rely on: it is the only one about to call the provider,
\* and it reverses only what the provider rejected.
RequestKnows(q) ==
  /\ pc[q] # "new" => reference[q] \in References
  /\ pc[q] = "payout" => /\ row[reference[q]] = "pending"
                         /\ kora[reference[q]] = "none"
                         /\ sent[reference[q]] = 0
  /\ pc[q] = "reverse" => /\ row[reference[q]] # "none"
                          /\ kora[reference[q]] = "failed"
  /\ told[q] = "failed" => /\ pc[q] = "done"
                           /\ row[reference[q]] = "reversed"

OnePayer ==
  \A p, q \in Requests :
    pc[p] = "payout" /\ pc[q] = "payout" /\ reference[p] = reference[q] => p = q

\* The answer the poll holds is still the provider's answer.
PollKnows ==
  poll # NoPoll => /\ poll.reference \in References
                   /\ poll.answer \in Final
                   /\ kora[poll.reference] = poll.answer
                   /\ row[poll.reference] # "none"

Agreement ==
  /\ \A r \in References : LedgerAgrees(r)
  /\ \A q \in Requests : RequestKnows(q)
  /\ OnePayer
  /\ PollKnows

-----------------------------------------------------------------------------
(* Types *)

\* Every step of a request, of Kora, of a webhook and of the poll keeps the types.
LEMMA TypeStep == ASSUME TypeOK, Agreement, [Next]_vars PROVE TypeOK'
<1> USE WithdrawalsAssumption DEF TypeOK, RowStatus, KoraStatus, Final, Paid, Step, NoPoll, Goto, Answer, At
<1>1. ASSUME NEW q \in Requests, NEW r \in References, Receive(q, r) PROVE TypeOK'
  BY <1>1 DEF Receive
<1>2. ASSUME NEW q \in Requests, CheckIdempotentReplay(q) PROVE TypeOK'
  <2>1. \E step \in Step : pc' = [pc EXCEPT ![q] = step]
    BY <1>2 DEF CheckIdempotentReplay
  <2>2. \/ told' = told
        \/ \E answer \in {"pending", "failed", "refused"} : told' = [told EXCEPT ![q] = answer]
    BY <1>2 DEF CheckIdempotentReplay, ReplayAnswer
  <2>3. UNCHANGED <<row, credits, kora, sent, notices, reference, poll, crashes>>
    BY <1>2 DEF CheckIdempotentReplay
  <2>4. pc' \in [Requests -> Step]
    BY <2>1
  <2>5. told' \in [Requests -> {"nothing", "pending", "failed", "refused"}]
    BY <2>2
  <2> QED BY <2>3, <2>4, <2>5
<1>3. ASSUME NEW q \in Requests, Refuse(q) PROVE TypeOK'
  <2>1. \E answer \in {"pending", "failed", "refused"} : told' = [told EXCEPT ![q] = answer]
    BY <1>3 DEF Refuse, ReplayAnswer
  <2>2. /\ pc' = [pc EXCEPT ![q] = "done"]
        /\ UNCHANGED <<row, credits, kora, sent, notices, reference, poll, crashes>>
    BY <1>3 DEF Refuse
  <2>3. pc' \in [Requests -> Step]
    BY <2>2
  <2>4. told' \in [Requests -> {"nothing", "pending", "failed", "refused"}]
    BY <2>1
  <2> QED BY <2>2, <2>3, <2>4
<1>4. ASSUME NEW q \in Requests, PostWithdrawal(q) PROVE TypeOK'
  <2>1. row' \in [References -> RowStatus]
    <3>1. row' = row \/ row' = [row EXCEPT ![reference[q]] = "pending"]
      BY <1>4 DEF PostWithdrawal
    <3> QED BY <3>1
  <2>2. pc' \in [Requests -> Step]
    <3>1. \E step \in Step : pc' = [pc EXCEPT ![q] = step]
      BY <1>4 DEF PostWithdrawal
    <3> QED BY <3>1
  <2>3. told' \in [Requests -> {"nothing", "pending", "failed", "refused"}]
    <3>1. told' = told \/ \E answer \in {"pending", "failed"} : told' = [told EXCEPT ![q] = answer]
      BY <1>4 DEF PostWithdrawal, ReplayAnswer
    <3> QED BY <3>1
  <2> QED BY <1>4, <2>1, <2>2, <2>3 DEF PostWithdrawal
<1>5. ASSUME NEW q \in Requests, NEW outcome \in Outcome, InitiatePayout(q, outcome)
      PROVE TypeOK'
  <2>1. reference[q] \in References
    BY <1>5 DEF InitiatePayout, Agreement, RequestKnows
  <2>2. kora' \in [References -> KoraStatus]
    BY <1>5, <2>1 DEF InitiatePayout, Outcome
  <2>3. sent' \in [References -> Nat]
    BY <1>5, <2>1 DEF InitiatePayout
  <2>4. pc' \in [Requests -> Step] /\ told' \in [Requests -> {"nothing", "pending", "failed", "refused"}]
    BY <1>5 DEF InitiatePayout, AfterPayout
  <2> QED BY <1>5, <2>2, <2>3, <2>4 DEF InitiatePayout
<1>6. ASSUME NEW q \in Requests, ReverseRejected(q) PROVE TypeOK'
  <2>1. reference[q] \in References
    BY <1>6 DEF ReverseRejected, Agreement, RequestKnows
  <2>2. row' \in [References -> RowStatus] /\ credits' \in [References -> Nat]
    BY <1>6, <2>1 DEF ReverseRejected, ReverseWithdrawal, IsPending
  <2> QED BY <1>6, <2>2 DEF ReverseRejected
<1>7. ASSUME NEW q \in Requests, Crash(q) PROVE TypeOK'
  BY <1>7 DEF Crash
<1>8. ASSUME NEW r \in References, KoraSettles(r) PROVE TypeOK'
  BY <1>8 DEF KoraSettles
<1>9. ASSUME NEW r \in References, NEW answer \in Final, Apply(r, answer)
      PROVE /\ row' \in [References -> RowStatus]
            /\ credits' \in [References -> Nat]
            /\ notices' \in [References -> Seq(Final)]
            /\ crashes' \in Nat
  <2>0. ReverseWithdrawal(r) \/ CompleteWithdrawal(r, answer)
    BY <1>9 DEF Apply
  <2>1. row' \in [References -> RowStatus]
    <3>1. \E status \in RowStatus : row' = [row EXCEPT ![r] = status]
      BY <2>0 DEF ReverseWithdrawal, CompleteWithdrawal
    <3> QED BY <3>1
  <2>2. credits' \in [References -> Nat]
    <3>1. \E count \in Nat : credits' = [credits EXCEPT ![r] = count]
      BY <2>0 DEF ReverseWithdrawal, CompleteWithdrawal
    <3> QED BY <3>1
  <2>3. notices' = notices \/ notices' = [notices EXCEPT ![r] = Append(@, answer)]
    BY <1>9 DEF Apply
  <2>4. Append(notices[r], answer) \in Seq(Final)
    OBVIOUS
  <2>5. notices' \in [References -> Seq(Final)]
    BY <2>3, <2>4
  <2>6. crashes' \in Nat
    BY <1>9 DEF Apply
  <2> QED BY <2>1, <2>2, <2>5, <2>6
<1>10. ASSUME NEW r \in References, PayoutWebhook(r) PROVE TypeOK'
  BY <1>10, <1>9 DEF PayoutWebhook
<1>11. ASSUME NEW r \in References, PollVerify(r) PROVE TypeOK'
  BY <1>11 DEF PollVerify
<1>12. CASE PollApply
  <2>1. poll.reference \in References /\ poll.answer \in Final
    BY <1>12 DEF PollApply, Agreement, PollKnows
  <2> QED BY <1>12, <1>9, <2>1 DEF PollApply
<1>13. CASE PollCrash
  BY <1>13 DEF PollCrash
<1>14. CASE UNCHANGED vars
  BY <1>14 DEF vars
<1> QED BY <1>1, <1>2, <1>3, <1>4, <1>5, <1>6, <1>7, <1>8, <1>10, <1>11, <1>12,
           <1>13, <1>14 DEF Next, RequestStep

-----------------------------------------------------------------------------
(* Agreement *)

\* What webhook and poll make of the provider's answer: at most the row leaves
\* pending, towards the answer.
LEMMA ApplyEffect ==
  ASSUME TypeOK, NEW r \in References, NEW answer \in Final, Apply(r, answer)
  PROVE  /\ \A s \in References \ {r} : row'[s] = row[s] /\ credits'[s] = credits[s]
         /\ row[r] # "pending" => row'[r] = row[r] /\ credits'[r] = credits[r]
         /\ row[r] = "pending" /\ answer = "failed"
              => row'[r] = "reversed" /\ credits'[r] = credits[r] + 1
         /\ row[r] = "pending" /\ answer = "success"
              => row'[r] = "completed" /\ credits'[r] = credits[r]
         /\ row[r] = "pending" /\ answer = "misreported"
              => row'[r] = "pending" /\ credits'[r] = credits[r]
  BY DEF Apply, ReverseWithdrawal, CompleteWithdrawal, IsPending, TypeOK, Final, Paid

\* Applying the provider's answer keeps the agreement of rows and requests: no
\* request is about to call the provider for a reference it has decided.
LEMMA ApplyAgrees ==
  ASSUME TypeOK, Agreement, NEW r \in References, kora[r] \in Final, row[r] # "none",
         Apply(r, kora[r]), UNCHANGED <<kora, sent, pc, reference, told>>
  PROVE  /\ \A s \in References : LedgerAgrees(s)'
         /\ \A q \in Requests : RequestKnows(q)'
         /\ OnePayer'
         /\ \A s \in References : row[s] # "none" => row'[s] # "none"
<1> USE DEF TypeOK, Agreement, Final, Paid
<1>1. \A s \in References \ {r} : row'[s] = row[s] /\ credits'[s] = credits[s]
  BY ApplyEffect
<1>2. \/ row'[r] = row[r] /\ credits'[r] = credits[r]
      \/ /\ row[r] = "pending" /\ kora[r] = "failed"
         /\ row'[r] = "reversed" /\ credits'[r] = credits[r] + 1
      \/ /\ row[r] = "pending" /\ kora[r] = "success"
         /\ row'[r] = "completed" /\ credits'[r] = credits[r]
  BY ApplyEffect
<1>3. \A s \in References : LedgerAgrees(s)'
  BY <1>1, <1>2 DEF LedgerAgrees
<1>4. ASSUME NEW q \in Requests PROVE RequestKnows(q)'
  <2>1. pc[q] = "payout" => reference[q] # r
    BY DEF RequestKnows
  <2> QED BY <1>1, <1>2, <2>1 DEF RequestKnows
<1>5. OnePayer'
  BY DEF OnePayer
<1> QED BY <1>1, <1>2, <1>3, <1>4, <1>5

\* A row that exists keeps existing when a reversal runs.
LEMMA ReverseEffect ==
  ASSUME TypeOK, NEW r \in References, ReverseWithdrawal(r)
  PROVE  /\ \A s \in References \ {r} : row'[s] = row[s] /\ credits'[s] = credits[s]
         /\ row[r] = "pending" => row'[r] = "reversed" /\ credits'[r] = credits[r] + 1
         /\ row[r] # "pending" => row'[r] = row[r] /\ credits'[r] = credits[r]
  BY DEF ReverseWithdrawal, IsPending, TypeOK

\* Every step keeps the agreement between ledger, provider, requests and poll.
LEMMA AgreementStep == ASSUME TypeOK, Agreement, [Next]_vars PROVE Agreement'
<1> USE WithdrawalsAssumption DEF TypeOK, Agreement, Final, Paid, NoPoll, Goto, Answer, At
<1> USE DEF LedgerAgrees, RequestKnows, OnePayer, PollKnows
<1>1. ASSUME NEW q \in Requests, NEW r \in References, Receive(q, r) PROVE Agreement'
  BY <1>1 DEF Receive
<1>2. ASSUME NEW q \in Requests, CheckIdempotentReplay(q) PROVE Agreement'
  <2>1. ASSUME NEW p \in Requests PROVE RequestKnows(p)'
    BY <1>2 DEF CheckIdempotentReplay, ReplayAnswer
  <2>2. OnePayer'
    <3>1. \A p \in Requests : pc'[p] = "payout" => pc[p] = "payout"
      BY <1>2 DEF CheckIdempotentReplay
    <3> QED BY <1>2, <3>1 DEF CheckIdempotentReplay
  <2> QED BY <1>2, <2>1, <2>2 DEF CheckIdempotentReplay
<1>3. ASSUME NEW q \in Requests, Refuse(q) PROVE Agreement'
  BY <1>3 DEF Refuse, ReplayAnswer
<1>4. ASSUME NEW q \in Requests, PostWithdrawal(q) PROVE Agreement'
  <2>1. CASE row[reference[q]] = "none"
    <3>1. \A r \in References : LedgerAgrees(r)'
      BY <1>4, <2>1 DEF PostWithdrawal
    <3>2. ASSUME NEW p \in Requests PROVE RequestKnows(p)'
      BY <1>4, <2>1 DEF PostWithdrawal
    <3>3. \A p \in Requests : pc[p] = "payout" => reference[p] # reference[q]
      BY <1>4, <2>1
    <3>4. OnePayer'
      BY <1>4, <2>1, <3>3 DEF PostWithdrawal
    <3>5. PollKnows'
      BY <1>4, <2>1 DEF PostWithdrawal
    <3> QED BY <3>1, <3>2, <3>4, <3>5
  <2>2. CASE row[reference[q]] # "none"
    <3>1. ASSUME NEW p \in Requests PROVE RequestKnows(p)'
      BY <1>4, <2>2 DEF PostWithdrawal, ReplayAnswer
    <3>2. OnePayer'
      <4>1. \A p \in Requests : pc'[p] = "payout" => pc[p] = "payout"
        BY <1>4, <2>2 DEF PostWithdrawal
      <4> QED BY <1>4, <2>2, <4>1 DEF PostWithdrawal
    <3> QED BY <1>4, <2>2, <3>1, <3>2 DEF PostWithdrawal
  <2> QED BY <2>1, <2>2
<1>5. ASSUME NEW q \in Requests, NEW outcome \in Outcome, InitiatePayout(q, outcome)
      PROVE Agreement'
  BY <1>5 DEF InitiatePayout, AfterPayout, Outcome
<1>6. ASSUME NEW q \in Requests, ReverseRejected(q) PROVE Agreement'
  <2>1. reference[q] \in References /\ kora[reference[q]] = "failed" /\ row[reference[q]] # "none"
    BY <1>6 DEF ReverseRejected
  <2>2. \A s \in References \ {reference[q]} : row'[s] = row[s] /\ credits'[s] = credits[s]
    BY <1>6, <2>1, ReverseEffect DEF ReverseRejected
  <2>3. /\ row[reference[q]] = "pending"
           => row'[reference[q]] = "reversed" /\ credits'[reference[q]] = credits[reference[q]] + 1
        /\ row[reference[q]] # "pending"
           => row'[reference[q]] = row[reference[q]] /\ credits'[reference[q]] = credits[reference[q]]
    BY <1>6, <2>1, ReverseEffect DEF ReverseRejected
  <2>4. row'[reference[q]] = "reversed"
    BY <2>1, <2>3 DEF RowStatus
  <2>5. \A r \in References : LedgerAgrees(r)'
    BY <1>6, <2>1, <2>2, <2>3, <2>4 DEF ReverseRejected
  <2>6. ASSUME NEW p \in Requests PROVE RequestKnows(p)'
    <3>1. pc[p] = "payout" => reference[p] # reference[q]
      BY <2>1
    <3> QED BY <1>6, <2>1, <2>2, <2>4, <3>1 DEF ReverseRejected
  <2>7. OnePayer' /\ PollKnows'
    BY <1>6, <2>1, <2>2, <2>4 DEF ReverseRejected
  <2> QED BY <2>5, <2>6, <2>7
<1>7. ASSUME NEW q \in Requests, Crash(q) PROVE Agreement'
  BY <1>7 DEF Crash
<1>8. ASSUME NEW r \in References, KoraSettles(r) PROVE Agreement'
  BY <1>8 DEF KoraSettles
<1>10. ASSUME NEW r \in References, PayoutWebhook(r) PROVE Agreement'
  BY <1>10, ApplyAgrees DEF PayoutWebhook
<1>11. ASSUME NEW r \in References, PollVerify(r) PROVE Agreement'
  BY <1>11 DEF PollVerify, IsPending
<1>12. CASE PollApply
  BY <1>12, ApplyAgrees DEF PollApply
<1>13. CASE PollCrash
  BY <1>13 DEF PollCrash
<1>14. CASE UNCHANGED vars
  BY <1>14 DEF vars
<1> QED BY <1>1, <1>2, <1>3, <1>4, <1>5, <1>6, <1>7, <1>8, <1>10, <1>11, <1>12,
           <1>13, <1>14 DEF Next, RequestStep

\* The invariant holds initially.
LEMMA InitAgrees == ASSUME Init PROVE TypeOK /\ Agreement
  BY WithdrawalsAssumption
     DEF Init, TypeOK, Agreement, LedgerAgrees, RequestKnows, OnePayer, PollKnows,
         NoPoll, RowStatus, KoraStatus, Final, Paid, Step

\* TypeOK and Agreement together are inductive, so they hold always.
THEOREM AlwaysAgrees == Spec => [](TypeOK /\ Agreement)
<1>1. Init => TypeOK /\ Agreement
  BY InitAgrees
<1>2. TypeOK /\ Agreement /\ [Next]_vars => (TypeOK /\ Agreement)'
  BY TypeStep, AgreementStep
<1> QED BY <1>1, <1>2, PTL DEF Spec

-----------------------------------------------------------------------------
(* What follows from it *)

\* Racing and repeated requests of one reference make one payout call.
THEOREM OnePayoutCall == Spec => []PaidOutOnce
<1>1. TypeOK /\ Agreement => PaidOutOnce
  BY DEF TypeOK, Agreement, LedgerAgrees, PaidOutOnce
<1> QED BY <1>1, AlwaysAgrees, PTL

\* A client told that its withdrawal failed has its money back, and a completed
\* withdrawal was paid.
THEOREM TrueAnswers == Spec => []AnswersAreTrue
<1>1. TypeOK /\ Agreement => AnswersAreTrue
  BY DEF TypeOK, Agreement, LedgerAgrees, RequestKnows, AnswersAreTrue
<1> QED BY <1>1, AlwaysAgrees, PTL

-----------------------------------------------------------------------------
(* Notices *)

\* The notices of reference r are at most one, and true of its row.
NoticeOK(r) ==
  /\ Len(notices[r]) <= 1
  /\ \A i \in DOMAIN notices[r] :
       row[r] = IF notices[r][i] = "failed" THEN "reversed" ELSE "completed"

\* A withdrawal that is still open was not reported on.
LEMMA OpenIsUnreported ==
  ASSUME TypeOK, NEW r \in References, NoticeOK(r), row[r] \in {"none", "pending"}
  PROVE  notices[r] = <<>>
<1>1. notices[r] \in Seq(Final)
  BY DEF TypeOK
<1>2. CASE Len(notices[r]) = 1
  <2>1. 1 \in DOMAIN notices[r]
    BY <1>1, <1>2
  <2> QED BY <2>1 DEF NoticeOK
<1>3. CASE Len(notices[r]) = 0
  BY <1>1, <1>3
<1> QED BY <1>1, <1>2, <1>3 DEF NoticeOK

\* Webhook and poll report the transition they made, and only that.
LEMMA ApplyReports ==
  ASSUME TypeOK, \A s \in References : NoticeOK(s),
         NEW r \in References, NEW answer \in Final, Apply(r, answer)
  PROVE  \A s \in References : NoticeOK(s)'
<1>1. /\ \A s \in References \ {r} : row'[s] = row[s]
      /\ row[r] # "pending" => row'[r] = row[r]
      /\ row[r] = "pending" /\ answer = "failed" => row'[r] = "reversed"
      /\ row[r] = "pending" /\ answer = "success" => row'[r] = "completed"
      /\ row[r] = "pending" /\ answer = "misreported" => row'[r] = "pending"
  BY ApplyEffect
<1>2. /\ \A s \in References \ {r} : notices'[s] = notices[s]
      /\ \/ notices'[r] = notices[r]
         \/ /\ row[r] = "pending" /\ answer # "misreported"
            /\ notices'[r] = Append(notices[r], answer)
  BY DEF Apply, IsPending, TypeOK
<1>3. \A s \in References \ {r} : NoticeOK(s)'
  BY <1>1, <1>2 DEF NoticeOK
<1>4. CASE row[r] = "pending" /\ answer # "misreported" /\ notices'[r] = Append(notices[r], answer)
  <2>1. notices[r] = <<>>
    BY <1>4, OpenIsUnreported
  <2>2. notices'[r] = <<answer>>
    BY <1>4, <2>1
  <2>3. row'[r] = IF answer = "failed" THEN "reversed" ELSE "completed"
    BY <1>1, <1>4 DEF Final, Paid
  <2>4. Len(<<answer>>) = 1 /\ DOMAIN <<answer>> = {1} /\ <<answer>>[1] = answer
    OBVIOUS
  <2>5. NoticeOK(r)'
    BY <2>2, <2>3, <2>4 DEF NoticeOK
  <2> QED BY <1>3, <2>5
<1>5. CASE notices'[r] = notices[r] /\ row[r] = "pending"
  <2>1. notices'[r] = <<>>
    BY <1>5, OpenIsUnreported
  <2> QED BY <1>3, <2>1 DEF NoticeOK
<1>6. CASE notices'[r] = notices[r] /\ row[r] # "pending"
  BY <1>1, <1>3, <1>6 DEF NoticeOK
<1> QED BY <1>2, <1>4, <1>5, <1>6

\* Every step keeps the notices true.
LEMMA NoticeStep ==
  ASSUME TypeOK, Agreement, OneTrueNotice, [Next]_vars
  PROVE  OneTrueNotice'
<1>a. \A s \in References : NoticeOK(s)
  BY DEF OneTrueNotice, NoticeOK
<1>b. SUFFICES \A s \in References : NoticeOK(s)'
  BY DEF OneTrueNotice, NoticeOK
<1>1. CASE UNCHANGED <<row, notices>>
  BY <1>1, <1>a DEF NoticeOK
<1>2. ASSUME NEW q \in Requests, PostWithdrawal(q)
      PROVE  \A s \in References : NoticeOK(s)'
  <2>1. CASE row[reference[q]] # "none"
    BY <1>1, <1>2, <2>1 DEF PostWithdrawal
  <2>2. CASE row[reference[q]] = "none"
    <3>1. reference[q] \in References /\ notices' = notices
      BY <1>2 DEF PostWithdrawal, At, Agreement, RequestKnows
    <3>2. \A s \in References \ {reference[q]} : row'[s] = row[s]
      BY <1>2, <2>2 DEF PostWithdrawal, TypeOK
    <3>3. notices[reference[q]] = <<>>
      BY <2>2, <3>1, <1>a, OpenIsUnreported
    <3> QED BY <3>1, <3>2, <3>3, <1>a DEF NoticeOK
  <2> QED BY <2>1, <2>2
<1>3. ASSUME NEW q \in Requests, ReverseRejected(q)
      PROVE  \A s \in References : NoticeOK(s)'
  <2>1. reference[q] \in References /\ notices' = notices /\ ReverseWithdrawal(reference[q])
    BY <1>3 DEF ReverseRejected, At, Agreement, RequestKnows
  <2>2. /\ \A s \in References \ {reference[q]} : row'[s] = row[s]
        /\ row[reference[q]] # "pending" => row'[reference[q]] = row[reference[q]]
    BY <2>1, ReverseEffect
  <2>3. row[reference[q]] = "pending" => notices[reference[q]] = <<>>
    BY <2>1, <1>a, OpenIsUnreported
  <2> QED BY <2>1, <2>2, <2>3, <1>a DEF NoticeOK
<1>4. ASSUME NEW r \in References, PayoutWebhook(r)
      PROVE  \A s \in References : NoticeOK(s)'
  BY <1>4, <1>a, ApplyReports DEF PayoutWebhook
<1>5. CASE PollApply
  <2>1. poll.reference \in References /\ poll.answer \in Final /\ Apply(poll.reference, poll.answer)
    BY <1>5 DEF PollApply, Agreement, PollKnows
  <2> QED BY <2>1, <1>a, ApplyReports
<1>6. ASSUME NEW q \in Requests,
             \/ CheckIdempotentReplay(q) \/ Refuse(q) \/ Crash(q)
             \/ \E r \in References : Receive(q, r)
             \/ \E outcome \in Outcome : InitiatePayout(q, outcome)
      PROVE  \A s \in References : NoticeOK(s)'
  BY <1>1, <1>6 DEF CheckIdempotentReplay, Refuse, Crash, Receive, InitiatePayout
<1>7. CASE \/ PollCrash \/ UNCHANGED vars
           \/ \E r \in References : PollVerify(r) \/ KoraSettles(r)
  BY <1>1, <1>7 DEF PollCrash, PollVerify, KoraSettles, vars
<1> QED BY <1>2, <1>3, <1>4, <1>5, <1>6, <1>7 DEF Next, RequestStep

\* A user gets at most one final notice of a withdrawal, and it says what
\* happened, whichever of webhook and poll comes first.
THEOREM NoticesTrue == Spec => []OneTrueNotice
<1>1. Init => OneTrueNotice
  <2> SUFFICES ASSUME Init, NEW r \in References PROVE NoticeOK(r)
    BY DEF OneTrueNotice, NoticeOK
  <2>1. notices[r] = <<>>
    BY DEF Init
  <2> QED BY <2>1 DEF NoticeOK
<1>2. TypeOK /\ Agreement /\ OneTrueNotice /\ [Next]_vars => OneTrueNotice'
  BY NoticeStep
<1> QED BY <1>1, <1>2, AlwaysAgrees, PTL DEF Spec

-----------------------------------------------------------------------------
(* The promise *)

\* What a step does to the whereabouts of a reference's money: nothing, or one
\* of the three moves of PayoutPromise.
Moves(r) ==
  \/ Whereabouts(r)' = Whereabouts(r)
  \/ Whereabouts(r) = "wallet" /\ Whereabouts(r)' = "transit"
  \/ Whereabouts(r) = "transit" /\ Whereabouts(r)' \in {"bank", "returned"}

\* Nothing the whereabouts depend on changes.
Still(r) == row'[r] = row[r] /\ credits'[r] = credits[r] /\ kora'[r] = kora[r]

OneMoves ==
  \/ \A r \in References : Still(r)
  \/ \E s \in References : Moves(s) /\ \A r \in References \ {s} : Still(r)

\* The provider's answer sends the money of a pending withdrawal back or leaves
\* it where it is.
LEMMA ApplyMoves ==
  ASSUME TypeOK, Agreement, NEW r \in References, kora[r] \in Final, row[r] # "none",
         Apply(r, kora[r]), UNCHANGED kora
  PROVE  OneMoves
<1> USE DEF TypeOK, Agreement, Final, Paid
<1>1. \A s \in References \ {r} : Still(s)
  BY ApplyEffect DEF Still
<1>2. \/ row'[r] = row[r] /\ credits'[r] = credits[r]
      \/ /\ row[r] = "pending" /\ kora[r] = "failed"
         /\ row'[r] = "reversed" /\ credits'[r] = credits[r] + 1
      \/ /\ row[r] = "pending" /\ kora[r] = "success"
         /\ row'[r] = "completed" /\ credits'[r] = credits[r]
  BY ApplyEffect
<1>3. credits[r] = IF row[r] = "reversed" THEN 1 ELSE 0
  BY DEF LedgerAgrees
<1>4. Moves(r)
  BY <1>2, <1>3 DEF Moves, Whereabouts
<1> QED BY <1>1, <1>4 DEF OneMoves

\* A step moves the money of at most one reference, and only as promised.
LEMMA MoneyStep == ASSUME TypeOK, Agreement, [Next]_vars PROVE OneMoves
<1> USE DEF TypeOK, Agreement, LedgerAgrees, RequestKnows, Final, Paid, Goto, Answer, At
<1>1. CASE UNCHANGED <<row, credits, kora>>
  BY <1>1 DEF OneMoves, Still
<1>2. ASSUME NEW q \in Requests, PostWithdrawal(q) PROVE OneMoves
  <2>1. reference[q] \in References
    BY <1>2 DEF PostWithdrawal
  <2>2. \A r \in References \ {reference[q]} : Still(r)
    BY <1>2, <2>1 DEF PostWithdrawal, Still
  <2>3. Moves(reference[q])
    BY <1>2, <2>1 DEF PostWithdrawal, Moves, Whereabouts
  <2> QED BY <2>1, <2>2, <2>3 DEF OneMoves
<1>3. ASSUME NEW q \in Requests, NEW outcome \in Outcome, InitiatePayout(q, outcome)
      PROVE OneMoves
  <2>1. reference[q] \in References
    BY <1>3 DEF InitiatePayout
  <2>2. \A r \in References \ {reference[q]} : Still(r)
    BY <1>3, <2>1 DEF InitiatePayout, Still
  <2>3. /\ row[reference[q]] = "pending" /\ kora[reference[q]] = "none"
        /\ credits[reference[q]] = 0
        /\ kora'[reference[q]] \in {"processing", "failed", "none"}
        /\ row' = row /\ credits' = credits /\ reference' = reference
    BY <1>3, <2>1 DEF InitiatePayout, Outcome
  <2>4. Moves(reference[q])
    BY <2>3 DEF Moves, Whereabouts
  <2> QED BY <2>1, <2>2, <2>4 DEF OneMoves
<1>4. ASSUME NEW q \in Requests, ReverseRejected(q) PROVE OneMoves
  <2>1. /\ reference[q] \in References /\ kora[reference[q]] = "failed"
        /\ row[reference[q]] # "none" /\ UNCHANGED <<kora, reference>>
    BY <1>4 DEF ReverseRejected
  <2>2. \A r \in References \ {reference[q]} : Still(r)
    BY <1>4, <2>1, ReverseEffect DEF ReverseRejected, Still
  <2>3. \/ row'[reference[q]] = row[reference[q]] /\ credits'[reference[q]] = credits[reference[q]]
        \/ /\ row[reference[q]] = "pending" /\ row'[reference[q]] = "reversed"
           /\ credits'[reference[q]] = credits[reference[q]] + 1
    BY <1>4, <2>1, ReverseEffect DEF ReverseRejected
  <2>4. credits[reference[q]] = IF row[reference[q]] = "reversed" THEN 1 ELSE 0
    BY <2>1
  <2>5. Moves(reference[q])
    BY <2>1, <2>3, <2>4 DEF Moves, Whereabouts
  <2> QED BY <2>1, <2>2, <2>5 DEF OneMoves
<1>5. ASSUME NEW r \in References, KoraSettles(r) PROVE OneMoves
  <2>1. \A s \in References \ {r} : Still(s)
    BY <1>5 DEF KoraSettles, Still
  <2>2. /\ row' = row /\ credits' = credits
        /\ kora[r] = "processing" /\ kora'[r] \in Final
        /\ row[r] # "none" /\ row[r] # "reversed" /\ credits[r] = 0
    BY <1>5 DEF KoraSettles
  <2>3. Moves(r)
    BY <2>2 DEF Moves, Whereabouts
  <2> QED BY <2>1, <2>3 DEF OneMoves
<1>6. ASSUME NEW r \in References, PayoutWebhook(r) PROVE OneMoves
  <2>1. row[r] # "none"
    BY <1>6 DEF PayoutWebhook
  <2> QED BY <1>6, <2>1, ApplyMoves DEF PayoutWebhook
<1>7. CASE PollApply
  BY <1>7, ApplyMoves DEF PollApply, PollKnows
<1>8. ASSUME NEW q \in Requests,
             CheckIdempotentReplay(q) \/ Refuse(q) \/ Crash(q) \/ \E r \in References : Receive(q, r)
      PROVE OneMoves
  BY <1>1, <1>8 DEF CheckIdempotentReplay, Refuse, Crash, Receive
<1>9. CASE PollCrash \/ UNCHANGED vars \/ \E r \in References : PollVerify(r)
  BY <1>1, <1>9 DEF PollCrash, PollVerify, vars
<1> QED BY <1>2, <1>3, <1>4, <1>5, <1>6, <1>7, <1>8, <1>9 DEF Next, RequestStep

\* The money of every withdrawal arrives or comes back, never both and never
\* twice: Withdrawals implements PayoutPromise.
THEOREM PromiseKept == Spec => KeepsPromise
<1> DEFINE money == [r \in References |-> Whereabouts(r)]
<1>1. ASSUME Init PROVE Promise!Init
  <2>1. \A r \in References : Whereabouts(r) = "wallet"
    <3> SUFFICES ASSUME NEW r \in References PROVE Whereabouts(r) = "wallet"
      OBVIOUS
    <3>1. row[r] = "none" /\ credits[r] = 0 /\ kora[r] = "none"
      BY <1>1 DEF Init
    <3> QED BY <3>1 DEF Whereabouts, Paid
  <2> QED BY <2>1 DEF Promise!Init
<1>2. ASSUME TypeOK, Agreement, [Next]_vars PROVE [Promise!Next]_money
  <2>1. OneMoves
    BY <1>2, MoneyStep
  <2>2. \A r \in References : Still(r) => Whereabouts(r)' = Whereabouts(r)
    BY DEF Still, Whereabouts
  <2>3. CASE \A r \in References : Still(r)
    BY <2>2, <2>3
  <2>4. ASSUME NEW s \in References, Moves(s), \A r \in References \ {s} : Still(r)
        PROVE [Promise!Next]_money
    <3>1. \A r \in References \ {s} : Whereabouts(r)' = Whereabouts(r)
      BY <2>2, <2>4
    <3>2. CASE Whereabouts(s)' = Whereabouts(s)
      BY <3>1, <3>2
    <3>3. money' = [money EXCEPT ![s] = Whereabouts(s)']
      BY <3>1
    <3>4. CASE Whereabouts(s) = "wallet" /\ Whereabouts(s)' = "transit"
      BY <3>3, <3>4 DEF Promise!Next, Promise!Debit
    <3>5. CASE Whereabouts(s) = "transit" /\ Whereabouts(s)' = "bank"
      BY <3>3, <3>5 DEF Promise!Next, Promise!Arrive
    <3>6. CASE Whereabouts(s) = "transit" /\ Whereabouts(s)' = "returned"
      BY <3>3, <3>6 DEF Promise!Next, Promise!Return
    <3> QED BY <2>4, <3>2, <3>4, <3>5, <3>6 DEF Moves
  <2> QED BY <2>1, <2>3, <2>4 DEF OneMoves
<1> QED BY <1>1, <1>2, AlwaysAgrees, PTL DEF Spec, KeepsPromise, Promise!Spec
=============================================================================
