------------------------- MODULE MoneyRequestsProofs ------------------------
(***************************************************************************)
(* Payments of money requests are safe for every set of calls, requests    *)
(* and references.  A pay call relies on its row lock, a call about to     *)
(* commit on the pair's lock; the rest of the invariant says what a        *)
(* request's status and its link to a transfer mean.                       *)
(***************************************************************************)
EXTENDS MoneyRequests, TLAPS

-----------------------------------------------------------------------------
(* The inductive invariant *)

\* A row that exists has an amount; a link leads to the transfer made for the
\* request; a request shown as paid has one.
RowTrue(m) ==
  /\ request[m].status # "none" => request[m].amount \in Amounts
  /\ request[m].transaction # None => /\ Exists(request[m].transaction)
                                      /\ madeFor[request[m].transaction] = m
  /\ request[m].status = "paid" => request[m].transaction # None

\* What was paid for is neither missing nor pending: a pending request, which
\* may be paid, has no payment yet.
PaymentTrue(ref) ==
  Exists(ref) /\ madeFor[ref] # None =>
    /\ request[madeFor[ref]].status \notin {"none", "pending"}
    /\ transfer[ref] = request[madeFor[ref]].amount

PaymentUnique ==
  \A ref1, ref2 \in References :
    Exists(ref1) /\ Exists(ref2) /\ madeFor[ref1] = madeFor[ref2] /\ madeFor[ref1] # None
      => ref1 = ref2

\* The rows and the transfers tell one story.
BooksTrue ==
  /\ \A m \in Requests : RowTrue(m)
  /\ \A ref \in References : PaymentTrue(ref)
  /\ PaymentUnique

\* What call c was made with.
CallWellFormed(c) ==
  /\ At(c, "new") => call[c] = NewCall
  /\ call[c].step \notin {"new", "done"} => call[c].told = "nothing"
  /\ Does(c, "create") => call[c].request \in Requests /\ call[c].amount \in Amounts
  /\ Does(c, "send") => call[c].request = None
  /\ Does(c, "pay") => call[c].request \in Requests
  /\ call[c].does \in {"send", "pay"} /\ ~At(c, "new") =>
       call[c].reference \in References /\ call[c].amount \in Amounts
  /\ call[c].does \in {"cancelled", "declined"} => call[c].request \in Requests
  /\ At(c, "replay") => Does(c, "send")
  /\ At(c, "lockRow") => Does(c, "pay")
  /\ call[c].step \in {"lockPair", "commit"} => call[c].does \in {"create", "send", "pay"}
  /\ call[c].step \in {"find", "reload", "write"} => call[c].does \in {"cancelled", "declined"}

\* A fresh id is given to one call.
CreatorUnique ==
  \A c, d \in Calls :
    Does(c, "create") /\ Does(d, "create") /\ call[c].request = call[d].request => c = d

UnderTransaction(c) == call[c].step \in {"lockPair", "commit"}

\* What call c may rely on: its request does not exist yet, or exists and keeps
\* its amount, or is locked and pending; it holds the pair's lock and no block
\* is committed; the status it leaves alone is a final one.
CallKnows(c) ==
  /\ Does(c, "create") /\ UnderTransaction(c) => request[call[c].request].status = "none"
  /\ Does(c, "pay") => /\ request[call[c].request].status # "none"
                       /\ request[call[c].request].amount = call[c].amount
  /\ Does(c, "pay") /\ UnderTransaction(c) => /\ rowLock[call[c].request] = c
                                              /\ request[call[c].request].status = "pending"
  /\ call[c].does \in {"cancelled", "declined"} => request[call[c].request].status # "none"
  /\ At(c, "commit") => pairLock = c /\ ~blocked
  /\ At(c, "write") /\ "status" \notin call[c].changes =>
       request[call[c].request].status \in {"cancelled", "declined"}

\* A client told that its payment went through was told the truth.
AnswerTrue(c) ==
  call[c].told = "ok" /\ call[c].does \in {"send", "pay"} =>
    /\ transfer[call[c].reference] = call[c].amount
    /\ Does(c, "pay") => madeFor[call[c].reference] = call[c].request

Inv ==
  /\ TypeOK
  /\ BooksTrue
  /\ CreatorUnique
  /\ \A c \in Calls : CallWellFormed(c) /\ CallKnows(c) /\ AnswerTrue(c)

-----------------------------------------------------------------------------
(* Types *)

\* A call that moves on, or is answered, stays a call.
LEMMA CallType ==
  ASSUME TypeOK, NEW c \in Calls
  PROVE  /\ \A step \in Step : Goto(c, step) => call' \in [Calls -> Call]
         /\ \A answer \in Answer : Tell(c, answer) => call' \in [Calls -> Call]
<1>1. call[c] \in Call
  BY DEF TypeOK
<1>2. ASSUME NEW step \in Step PROVE [call[c] EXCEPT !.step = step] \in Call
  BY <1>1 DEF Call
<1>3. ASSUME NEW answer \in Answer PROVE [call[c] EXCEPT !.step = "done", !.told = answer] \in Call
  BY <1>1 DEF Call, Step
<1> QED
  BY <1>2, <1>3 DEF TypeOK, Goto, Tell

\* A transaction that ends leaves well-typed locks.
LEMMA ReleaseType ==
  ASSUME TypeOK, NEW c \in Calls, Release(c)
  PROVE  rowLock' \in [Requests -> Calls \cup {None}] /\ pairLock' \in Calls \cup {None}
BY DEF TypeOK, Release

\* A call that arrives is a call.
LEMMA BeginType ==
  ASSUME TypeOK, NEW c \in Calls, NEW operation \in Operation, NEW step \in Step,
         NEW m \in Requests \cup {None}, NEW ref \in References \cup {None},
         NEW amount \in Amounts \cup {0}, Begin(c, operation, step, m, ref, amount)
  PROVE  TypeOK'
<1>1. [NewCall EXCEPT !.step = step, !.does = operation, !.request = m,
                      !.reference = ref, !.amount = amount] \in Call
  BY DEF NewCall, Call, Answer
<1>2. call' \in [Calls -> Call]
  BY <1>1 DEF Begin, TypeOK
<1> QED
  BY <1>2 DEF Begin, TypeOK, Tables, Locks

\* Every action keeps the types.
LEMMA TypeStep == ASSUME Inv, [Next]_vars PROVE TypeOK'
<1> USE DEF Answer
<1>1. TypeOK /\ \A c \in Calls : call[c] \in Call
  BY DEF Inv, TypeOK
<1>2. \A m \in Requests : request[m] \in Row
  BY <1>1 DEF TypeOK
<1>3. ASSUME NEW c \in Calls, Arrive(c) PROVE TypeOK'
  <2>1. ASSUME NEW m \in Requests, NEW amount \in Amounts, CreateRequest(c, m, amount) PROVE TypeOK'
    BY <1>1, <2>1, BeginType DEF CreateRequest, Operation, Step
  <2>2. ASSUME NEW ref \in References, NEW amount \in Amounts, SendMoney(c, ref, amount) PROVE TypeOK'
    BY <1>1, <2>2, BeginType DEF SendMoney, Operation, Step
  <2>3. ASSUME NEW m \in Requests, NEW ref \in References, PayRequest(c, m, ref) PROVE TypeOK'
    <3>1. request[m].amount \in Amounts \cup {0}
      BY <1>2 DEF Row
    <3> QED
      BY <1>1, <2>3, <3>1, BeginType DEF PayRequest, Operation, Step
  <2>4. ASSUME NEW m \in Requests, NEW status \in {"cancelled", "declined"}, EndRequest(c, m, status)
        PROVE  TypeOK'
    BY <1>1, <2>4, BeginType DEF EndRequest, Operation, Step
  <2> QED
    BY <1>3, <2>1, <2>2, <2>3, <2>4 DEF Arrive
<1>4. ASSUME NEW c \in Calls, CheckTransferReplay(c) \/ FindPending(c) PROVE TypeOK'
  <2>1. call' \in [Calls -> Call]
    BY <1>1, <1>4, CallType DEF CheckTransferReplay, FindPending, Step, Replay
  <2> QED
    BY <1>1, <1>4, <2>1 DEF CheckTransferReplay, FindPending, TypeOK, Tables, Locks
<1>5. ASSUME NEW c \in Calls, LockRow(c) PROVE TypeOK'
  <2>1. call' \in [Calls -> Call]
    BY <1>1, <1>5, CallType DEF LockRow, Step
  <2>2. rowLock' \in [Requests -> Calls \cup {None}]
    BY <1>1, <1>5 DEF LockRow, TypeOK
  <2> QED
    BY <1>1, <1>5, <2>1, <2>2 DEF LockRow, TypeOK, Tables
<1>6. ASSUME NEW c \in Calls, LockPair(c) PROVE TypeOK'
  <2>1. call' \in [Calls -> Call]
    BY <1>1, <1>6, CallType DEF LockPair, Refusal, Step, Answer
  <2>2. rowLock' \in [Requests -> Calls \cup {None}] /\ pairLock' \in Calls \cup {None}
    BY <1>1, <1>6, ReleaseType DEF LockPair, TypeOK
  <2> QED
    BY <1>1, <1>6, <2>1, <2>2 DEF LockPair, TypeOK, Tables
<1>7. ASSUME NEW c \in Calls, CommitRequest(c) PROVE TypeOK'
  <2>1. call' \in [Calls -> Call]
    BY <1>1, <1>7, CallType DEF CommitRequest
  <2>2. [NoRow EXCEPT !.status = "pending", !.amount = call[c].amount] \in Row
    BY <1>1 DEF NoRow, Row, Call, RequestStatus
  <2>3. request' \in [Requests -> Row]
    BY <1>1, <1>7, <2>2 DEF CommitRequest, TypeOK
  <2> QED
    BY <1>1, <1>7, <2>1, <2>3, ReleaseType DEF CommitRequest, TypeOK
<1>8. ASSUME NEW c \in Calls, CommitTransfer(c) PROVE TypeOK'
  <2>1. call' \in [Calls -> Call]
    BY <1>1, <1>8, CallType DEF CommitTransfer
  <2>2. call[c].request \in Requests \cup {None} /\ call[c].reference \in References
          /\ call[c].amount \in Amounts
    BY <1>1, <1>8 DEF Call, CommitTransfer, Inv, CallWellFormed, At
  <2>3. transfer' \in [References -> Amounts \cup {0}] /\ madeFor' \in [References -> Requests \cup {None}]
    BY <1>1, <1>8, <2>2 DEF CommitTransfer, TypeOK
  <2>4. request' \in [Requests -> Row]
    <3>1. CASE Does(c, "pay")
      <4>1. call[c].request \in Requests
        BY <3>1 DEF Inv, CallWellFormed
      <4>2. [request[call[c].request] EXCEPT !.status = "paid", !.transaction = call[c].reference] \in Row
        BY <1>2, <2>2, <4>1 DEF Row, RequestStatus
      <4> QED
        BY <1>1, <1>8, <3>1, <4>1, <4>2 DEF CommitTransfer, TypeOK
    <3>2. CASE ~Does(c, "pay")
      BY <1>1, <1>8, <3>2 DEF CommitTransfer, TypeOK
    <3> QED
      BY <3>1, <3>2
  <2> QED
    BY <1>1, <1>8, <2>1, <2>3, <2>4, ReleaseType DEF CommitTransfer, TypeOK
<1>9. ASSUME NEW c \in Calls, FailTransfer(c) \/ Abort(c) PROVE TypeOK'
  <2>1. call' \in [Calls -> Call]
    BY <1>1, <1>9, CallType DEF FailTransfer, Refusal, Abort, Answer
  <2> QED
    BY <1>1, <1>9, <2>1, ReleaseType DEF FailTransfer, Abort, TypeOK, Tables
<1>10. ASSUME NEW c \in Calls, Reload(c) PROVE TypeOK'
  <2>1. PICK changes \in SUBSET {"status", "transaction"} :
           Tell(c, "ok") \/ call' = [call EXCEPT ![c].step = "write", ![c].changes = changes]
    BY <1>10 DEF Reload
  <2>2. [call[c] EXCEPT !.step = "write", !.changes = changes] \in Call
    BY <1>1 DEF Call, Step
  <2>3. call' \in [Calls -> Call]
    BY <1>1, <2>1, <2>2, CallType DEF TypeOK
  <2> QED
    BY <1>1, <1>10, <2>3 DEF Reload, TypeOK, Tables, Locks
<1>11. ASSUME NEW c \in Calls, Write(c) PROVE TypeOK'
  <2>1. call' \in [Calls -> Call]
    BY <1>1, <1>11, CallType DEF Write
  <2>2. call[c].request \in Requests /\ call[c].does \in {"cancelled", "declined"}
    BY <1>11 DEF Write, Inv, CallWellFormed, At
  <2> DEFINE row == request[call[c].request]
             status == IF "status" \in call[c].changes THEN call[c].does ELSE row.status
             transaction == IF "transaction" \in call[c].changes THEN None ELSE row.transaction
  <2>3. row \in Row /\ status \in RequestStatus /\ transaction \in References \cup {None}
    BY <1>2, <2>2 DEF Row, RequestStatus
  <2>4. [row EXCEPT !.status = status, !.transaction = transaction] \in Row
    <3> HIDE DEF row, status, transaction
    <3> QED BY <2>3 DEF Row
  <2>5. request' = [request EXCEPT ![call[c].request] =
                      [row EXCEPT !.status = status, !.transaction = transaction]]
    BY <1>1, <1>11, <2>2 DEF Write, TypeOK
  <2>6. request' \in [Requests -> Row]
    <3> HIDE DEF row, status, transaction
    <3> QED BY <1>1, <2>2, <2>4, <2>5 DEF TypeOK
  <2> QED
    BY <1>1, <1>11, <2>1, <2>6 DEF Write, TypeOK, Locks
<1>12. ASSUME NEW m \in Requests, Expire(m) PROVE TypeOK'
  <2>1. [request[m] EXCEPT !.expired = TRUE] \in Row
    BY <1>2 DEF Row
  <2> QED
    BY <1>1, <1>12, <2>1 DEF Expire, TypeOK, Locks
<1>13. CASE Block \/ Unblock
  BY <1>1, <1>13 DEF Block, Unblock, TypeOK, Locks
<1>14. CASE UNCHANGED vars
  BY <1>1, <1>14 DEF vars, TypeOK
<1> QED
  BY <1>3, <1>4, <1>5, <1>6, <1>7, <1>8, <1>9, <1>10, <1>11, <1>12, <1>13, <1>14
  DEF Next, CallStep

-----------------------------------------------------------------------------
(* One call acts at a time *)

\* A step of c (or of none of the calls) leaves the other calls and their locks
\* alone.
Kept(c) ==
  \A d \in Calls \ {c} :
    /\ call'[d] = call[d]
    /\ \A m \in Requests : rowLock[m] = d => rowLock'[m] = d
    /\ pairLock = d => pairLock'= d

\* It writes no row but m's, and that one only as nobody else relies on it: a
\* new row is c's own, a pending one changes under c's lock or under none, and
\* no row comes back.
WritesOnly(c, m) ==
  /\ \A k \in Requests \ {m} : request'[k] = request[k]
  /\ request[m].status = "none" => c \in Calls /\ Does(c, "create") /\ call[c].request = m
  /\ request[m].status # "none" => /\ request'[m].status # "none"
                                   /\ request'[m].amount = request[m].amount
  /\ request[m].status = "pending" => request'[m].status = "pending" \/ rowLock[m] \in {c, None}
  /\ request[m].status \in {"cancelled", "declined"} => request'[m].status \in {"cancelled", "declined"}

\* A transfer that was posted stays as it is.
TransfersStay ==
  \A ref \in References : Exists(ref) => transfer'[ref] = transfer[ref] /\ madeFor'[ref] = madeFor[ref]

\* Then what the other calls know and what their clients were told stays true.
LEMMA OthersStillKnow ==
  ASSUME Inv, NEW c, Kept(c), TransfersStay,
         UNCHANGED request \/ \E m \in Requests : WritesOnly(c, m),
         UNCHANGED blocked \/ blocked' = FALSE \/ pairLock = None
  PROVE  \A d \in Calls \ {c} : CallWellFormed(d)' /\ CallKnows(d)' /\ AnswerTrue(d)'
<1> SUFFICES ASSUME NEW d \in Calls \ {c}
             PROVE  CallWellFormed(d)' /\ CallKnows(d)' /\ AnswerTrue(d)'
  OBVIOUS
<1>1. /\ CallWellFormed(d) /\ CallKnows(d) /\ AnswerTrue(d)
      /\ call'[d] = call[d] /\ call[d] \in Call /\ d # None
  BY MoneyRequestsAssumption DEF Inv, Kept, TypeOK
<1>2. CallWellFormed(d)'
  BY <1>1 DEF CallWellFormed, At, Does
<1> DEFINE k == call[d].request
<1>3. ASSUME k \in Requests
      PROVE  /\ request[k].status = "none" /\ Does(d, "create") => request'[k].status = "none"
             /\ request[k].status # "none" => /\ request'[k].status # "none"
                                              /\ request'[k].amount = request[k].amount
             /\ request[k].status = "pending" /\ rowLock[k] = d => request'[k].status = "pending"
             /\ request[k].status \in {"cancelled", "declined"}
                  => request'[k].status \in {"cancelled", "declined"}
  <2>1. CASE UNCHANGED request
    BY <2>1
  <2>2. CASE \E m \in Requests : WritesOnly(c, m)
    <3>1. PICK m \in Requests : WritesOnly(c, m)
      BY <2>2
    <3>2. CASE m # k
      BY <1>3, <3>1, <3>2 DEF WritesOnly
    <3>3. CASE m = k
      BY <1>1, <3>1, <3>3 DEF WritesOnly, Inv, CreatorUnique
    <3> QED
      BY <3>2, <3>3
  <2> QED
    BY <2>1, <2>2
<1>4. At(d, "commit") => pairLock' = d /\ ~blocked'
  BY <1>1 DEF CallKnows, Kept
<1>5. Does(d, "pay") /\ UnderTransaction(d) => rowLock'[k] = d
  BY <1>1 DEF CallKnows, CallWellFormed, Kept
<1>6. Does(d, "create") \/ Does(d, "pay") \/ call[d].does \in {"cancelled", "declined"} => k \in Requests
  BY <1>1 DEF CallWellFormed
<1>7. At(d, "write") => call[d].does \in {"cancelled", "declined"}
  BY <1>1 DEF CallWellFormed, At
<1>8. CallKnows(d)'
  <2>1. call'[d] = call[d]
    BY <1>1
  <2>2. Does(d, "create")' = Does(d, "create") /\ Does(d, "pay")' = Does(d, "pay")
          /\ UnderTransaction(d)' = UnderTransaction(d) /\ At(d, "commit")' = At(d, "commit")
          /\ At(d, "write")' = At(d, "write")
    BY <2>1 DEF Does, UnderTransaction, At
  <2> QED
    BY <1>1, <1>3, <1>4, <1>5, <1>6, <1>7, <2>1, <2>2 DEF CallKnows
<1>9. AnswerTrue(d)'
  <2> SUFFICES ASSUME call[d].told = "ok", call[d].does \in {"send", "pay"}
               PROVE  /\ transfer'[call[d].reference] = call[d].amount
                      /\ Does(d, "pay") => madeFor'[call[d].reference] = k
    BY <1>1 DEF AnswerTrue, Does
  <2>1. ~At(d, "new")
    BY <1>1 DEF CallWellFormed, NewCall
  <2>2. call[d].reference \in References /\ call[d].amount \in Amounts
    BY <1>1, <2>1 DEF CallWellFormed
  <2>3. Exists(call[d].reference)
    BY <1>1, <2>2, MoneyRequestsAssumption DEF AnswerTrue, Exists
  <2> QED
    BY <1>1, <2>2, <2>3 DEF AnswerTrue, TransfersStay
<1> QED
  BY <1>2, <1>8, <1>9

\* No step of a call changes another call or takes a lock from it.
LEMMA CallsApart == ASSUME Inv, NEW c \in Calls, Arrive(c) \/ CallStep(c) PROVE Kept(c)
<1> USE MoneyRequestsAssumption
<1>1. TypeOK
  BY DEF Inv
<1>2. \A d \in Calls \ {c} : call'[d] = call[d]
  <2>1. CASE Arrive(c)
    BY <1>1, <2>1 DEF Arrive, CreateRequest, SendMoney, PayRequest, EndRequest, Begin, TypeOK
  <2>2. CASE \/ \E step \in Step : Goto(c, step)
             \/ \E answer \in Answer : Tell(c, answer)
    BY <1>1, <2>2 DEF Goto, Tell, TypeOK
  <2>3. CASE Reload(c)
    BY <1>1, <2>3 DEF Reload, Tell, TypeOK
  <2>4. CASE CallStep(c) /\ ~Reload(c)
    BY <2>2, <2>4 DEF CallStep, CheckTransferReplay, Replay, LockRow, LockPair, CommitRequest,
      CommitTransfer, FailTransfer, Refusal, Abort, FindPending, Write, Step, Answer
  <2> QED
    BY <2>1, <2>3, <2>4
<1>3. ASSUME Release(c) \/ UNCHANGED <<rowLock, pairLock>> PROVE Kept(c)
  BY <1>1, <1>2, <1>3 DEF Release, Kept, TypeOK
<1>4. CASE Arrive(c)
  BY <1>3, <1>4 DEF Arrive, CreateRequest, SendMoney, PayRequest, EndRequest, Begin, Locks
<1>5. CASE LockRow(c)
  <2>1. call[c].request \in Requests
    BY <1>5 DEF LockRow, At, Inv, CallWellFormed
  <2>2. pairLock' = pairLock /\ \A m \in Requests : rowLock[m] # None => rowLock'[m] = rowLock[m]
    BY <1>1, <1>5, <2>1 DEF LockRow, TypeOK
  <2> QED
    BY <1>2, <2>2 DEF Kept
<1>6. CASE LockPair(c)
  <2>1. Release(c) \/ (pairLock = None /\ rowLock' = rowLock)
    BY <1>6 DEF LockPair
  <2> QED
    BY <1>2, <1>3, <2>1 DEF Kept
<1>7. CASE CheckTransferReplay(c) \/ CommitRequest(c) \/ CommitTransfer(c) \/ FailTransfer(c)
           \/ Abort(c) \/ FindPending(c) \/ Reload(c) \/ Write(c)
  BY <1>3, <1>7 DEF CheckTransferReplay, CommitRequest, CommitTransfer, FailTransfer, Abort,
    FindPending, Reload, Write, Locks
<1> QED
  BY <1>4, <1>5, <1>6, <1>7 DEF CallStep

-----------------------------------------------------------------------------
(* Each action keeps the invariant *)

\* A call that is told something other than a success it has not checked.
LEMMA Told ==
  ASSUME Inv, NEW c \in Calls, NEW answer \in Answer, Tell(c, answer),
         ~At(c, "new"), TransfersStay,
         \A m \in Requests : request[m].status # "none" =>
           request'[m].status # "none" /\ request'[m].amount = request[m].amount,
         answer = "ok" /\ call[c].does \in {"send", "pay"} =>
           /\ transfer'[call[c].reference] = call[c].amount
           /\ Does(c, "pay") => madeFor'[call[c].reference] = call[c].request
  PROVE  /\ CallWellFormed(c)' /\ CallKnows(c)' /\ AnswerTrue(c)'
         /\ call'[c].does = call[c].does /\ call'[c].request = call[c].request
<1>1. call[c] \in Call /\ CallWellFormed(c) /\ CallKnows(c)
  BY DEF Inv, TypeOK
<1>2. call'[c] = [call[c] EXCEPT !.step = "done", !.told = answer]
  BY DEF Tell, Inv, TypeOK
<1>3. /\ call'[c].step = "done" /\ call'[c].told = answer
      /\ call'[c].does = call[c].does /\ call'[c].request = call[c].request
      /\ call'[c].reference = call[c].reference /\ call'[c].amount = call[c].amount
  BY <1>1, <1>2 DEF Call
<1>4. CallWellFormed(c)'
  BY <1>1, <1>3 DEF CallWellFormed, At, Does
<1>5. CallKnows(c)'
  BY <1>1, <1>3 DEF CallKnows, CallWellFormed, At, Does, UnderTransaction
<1>6. AnswerTrue(c)'
  BY <1>3 DEF AnswerTrue, Does
<1> QED
  BY <1>3, <1>4, <1>5, <1>6

\* Where c's own part is known, the invariant follows for all.
LEMMA Together ==
  ASSUME Inv, [Next]_vars, NEW c \in Calls, Kept(c), TransfersStay, BooksTrue',
         UNCHANGED request \/ \E m \in Requests : WritesOnly(c, m), UNCHANGED blocked,
         CallWellFormed(c)' /\ CallKnows(c)' /\ AnswerTrue(c)',
         call'[c].does = call[c].does /\ call'[c].request = call[c].request
  PROVE  Inv'
<1>1. \A d \in Calls : CallWellFormed(d)' /\ CallKnows(d)' /\ AnswerTrue(d)'
  BY OthersStillKnow
<1>2. \A d \in Calls : call'[d].does = call[d].does /\ call'[d].request = call[d].request
  BY DEF Kept
<1>3. CreatorUnique'
  BY <1>2 DEF Inv, CreatorUnique, Does
<1> QED
  BY <1>1, <1>3, TypeStep DEF Inv

\* Steps that write no table.
LEMMA ReadingStep ==
  ASSUME Inv, [Next]_vars, NEW c \in Calls, Kept(c), UNCHANGED Tables,
         CallWellFormed(c)' /\ CallKnows(c)' /\ AnswerTrue(c)',
         call'[c].does = call[c].does /\ call'[c].request = call[c].request
  PROVE  Inv'
<1>1. TransfersStay
  BY DEF TransfersStay, Tables
<1>2. BooksTrue'
  BY DEF Inv, BooksTrue, RowTrue, PaymentTrue, PaymentUnique, Exists, Tables
<1> QED
  BY <1>1, <1>2, Together DEF Tables

\* A call that goes on to a step which promises nothing new.
LEMMA WentOn ==
  ASSUME Inv, NEW c \in Calls, NEW step \in Step, Goto(c, step), ~At(c, "new"), step # "new",
         UNCHANGED Tables
  PROVE  /\ call'[c] \in Call /\ call'[c].step = step
         /\ call'[c].does = call[c].does /\ call'[c].request = call[c].request
         /\ call'[c].reference = call[c].reference /\ call'[c].amount = call[c].amount
         /\ call'[c].told = call[c].told /\ call'[c].changes = call[c].changes
         /\ AnswerTrue(c)'
<1>1. call[c] \in Call /\ call'[c] = [call[c] EXCEPT !.step = step]
  BY DEF Inv, TypeOK, Goto
<1>2. /\ call'[c] \in Call /\ call'[c].step = step
      /\ call'[c].does = call[c].does /\ call'[c].request = call[c].request
      /\ call'[c].reference = call[c].reference /\ call'[c].amount = call[c].amount
      /\ call'[c].told = call[c].told /\ call'[c].changes = call[c].changes
  BY <1>1 DEF Call
<1>3. AnswerTrue(c)'
  BY <1>2 DEF Inv, AnswerTrue, Does, Tables
<1> QED
  BY <1>2, <1>3

\* A refusal, or an answer that is true already, ends a call without a write.
LEMMA AnswerStep ==
  ASSUME Inv, [Next]_vars, NEW c \in Calls, CallStep(c), NEW answer \in Answer, Tell(c, answer),
         UNCHANGED Tables, ~At(c, "new"),
         answer = "ok" /\ call[c].does \in {"send", "pay"} =>
           /\ transfer[call[c].reference] = call[c].amount
           /\ Does(c, "pay") => madeFor[call[c].reference] = call[c].request
  PROVE  Inv'
<1>1. Kept(c)
  BY CallsApart
<1>2. TransfersStay
  BY DEF TransfersStay, Tables
<1>3. /\ CallWellFormed(c)' /\ CallKnows(c)' /\ AnswerTrue(c)'
      /\ call'[c].does = call[c].does /\ call'[c].request = call[c].request
  BY <1>2, Told DEF Tables
<1> QED
  BY <1>1, <1>3, ReadingStep

\* The unlocked replay check of sendMoney.
LEMMA ReplayStep == ASSUME Inv, [Next]_vars, NEW c \in Calls, CheckTransferReplay(c) PROVE Inv'
<1>1. CallStep(c) /\ Kept(c) /\ UNCHANGED Tables /\ Does(c, "send") /\ ~At(c, "new")
  BY CallsApart DEF CallStep, CheckTransferReplay, Inv, CallWellFormed, At
<1>2. CASE Tell(c, "ok") /\ Replay(c) = "match"
  <2>1. transfer[call[c].reference] = call[c].amount /\ ~Does(c, "pay")
    BY <1>1, <1>2 DEF Replay, Does
  <2> QED
    BY <1>1, <1>2, <2>1, AnswerStep DEF Answer
<1>3. CASE Tell(c, "refused")
  BY <1>1, <1>3, AnswerStep DEF Answer
<1>4. CASE Goto(c, "lockPair")
  <2>1. CallWellFormed(c) /\ CallKnows(c) /\ call[c].step = "replay"
    BY DEF Inv, CheckTransferReplay, At
  <2>2. /\ call'[c].step = "lockPair"
        /\ call'[c].does = call[c].does /\ call'[c].request = call[c].request
        /\ call'[c].reference = call[c].reference /\ call'[c].amount = call[c].amount
        /\ call'[c].told = call[c].told /\ AnswerTrue(c)'
    BY <1>1, <1>4, WentOn DEF Step
  <2>3. CallWellFormed(c)' /\ CallKnows(c)'
    BY <1>1, <2>1, <2>2 DEF CallWellFormed, CallKnows, At, Does, UnderTransaction
  <2> QED
    BY <1>1, <2>2, <2>3, ReadingStep
<1> QED
  BY <1>2, <1>3, <1>4 DEF CheckTransferReplay, Replay

\* payRequest under the row's lock: a replay of the request's own transfer is
\* answered, a pending request is kept locked.
LEMMA LockRowStep == ASSUME Inv, [Next]_vars, NEW c \in Calls, LockRow(c) PROVE Inv'
<1> DEFINE m == call[c].request
<1>1. /\ CallStep(c) /\ Kept(c) /\ UNCHANGED Tables /\ ~At(c, "new")
      /\ CallWellFormed(c) /\ CallKnows(c) /\ TypeOK /\ BooksTrue
  BY CallsApart DEF CallStep, LockRow, Inv, At
<1>2. call[c].step = "lockRow" /\ Does(c, "pay") /\ m \in Requests /\ call[c].reference \in References
  BY <1>1 DEF LockRow, CallWellFormed, At, Does
<1>3. CASE \E answer \in Answer \ {"ok"} : Tell(c, answer)
  BY <1>1, <1>3, AnswerStep
<1>4. CASE Tell(c, "ok") /\ Replay(c) = "match" /\ IsItsTransfer(m, call[c].reference)
  <2>1. transfer[call[c].reference] = call[c].amount
    BY <1>4 DEF Replay
  <2>2. madeFor[call[c].reference] = m
    BY <1>1, <1>2, <1>4, MoneyRequestsAssumption DEF IsItsTransfer, BooksTrue, RowTrue
  <2> QED
    BY <1>1, <1>4, <2>1, <2>2, AnswerStep DEF Answer
<1>5. CASE Goto(c, "lockPair") /\ rowLock' = [rowLock EXCEPT ![m] = c] /\ IsPayable(m)
  <2>1. /\ call'[c].step = "lockPair"
        /\ call'[c].does = call[c].does /\ call'[c].request = call[c].request
        /\ call'[c].reference = call[c].reference /\ call'[c].amount = call[c].amount
        /\ call'[c].told = call[c].told /\ AnswerTrue(c)'
    BY <1>1, <1>5, WentOn DEF Step
  <2>2. rowLock'[m] = c /\ request'[m].status = "pending" /\ request' = request
    BY <1>1, <1>2, <1>5 DEF TypeOK, IsPayable, EffectivelyPending, Tables
  <2>3. CallWellFormed(c)'
    BY <1>1, <1>2, <2>1 DEF CallWellFormed, At, Does
  <2>4. CallKnows(c)'
    BY <1>1, <1>2, <2>1, <2>2 DEF CallKnows, At, Does, UnderTransaction
  <2> QED
    BY <1>1, <2>1, <2>3, <2>4, ReadingStep
<1> QED
  BY <1>3, <1>4, <1>5 DEF LockRow, Answer

\* The pair's lock: from here on no block commits before this call does.
\* A send that is rolled back is told of the transfer its reference made.
LEMMA RefusalStep ==
  ASSUME Inv, [Next]_vars, NEW c \in Calls, CallStep(c), UNCHANGED Tables, ~At(c, "new"),
         Tell(c, Refusal(c))
  PROVE  Inv'
<1>1. CASE Tell(c, "refused")
  BY <1>1, AnswerStep DEF Answer
<1>2. CASE Tell(c, "ok") /\ Replay(c) = "match" /\ Does(c, "send")
  <2>1. transfer[call[c].reference] = call[c].amount /\ ~Does(c, "pay")
    BY <1>2 DEF Replay, Does
  <2> QED
    BY <1>2, <2>1, AnswerStep DEF Answer
<1> QED
  BY <1>1, <1>2 DEF Refusal

LEMMA LockPairStep == ASSUME Inv, [Next]_vars, NEW c \in Calls, LockPair(c) PROVE Inv'
<1>1. /\ CallStep(c) /\ Kept(c) /\ UNCHANGED Tables /\ ~At(c, "new")
      /\ CallWellFormed(c) /\ CallKnows(c)
  BY CallsApart DEF CallStep, LockPair, Inv, At
<1>2. CASE Tell(c, Refusal(c))
  BY <1>1, <1>2, RefusalStep
<1>3. CASE Goto(c, "commit") /\ pairLock' = c /\ rowLock' = rowLock /\ ~blocked
  <2>1. /\ call'[c].step = "commit"
        /\ call'[c].does = call[c].does /\ call'[c].request = call[c].request
        /\ call'[c].reference = call[c].reference /\ call'[c].amount = call[c].amount
        /\ call'[c].told = call[c].told /\ AnswerTrue(c)'
    BY <1>1, <1>3, WentOn DEF Step
  <2>2. call[c].step = "lockPair"
    BY DEF LockPair, At
  <2>3. CallWellFormed(c)'
    BY <1>1, <2>1, <2>2 DEF CallWellFormed, At, Does
  <2>4. CallKnows(c)'
    BY <1>1, <1>3, <2>1, <2>2 DEF CallKnows, At, Does, UnderTransaction, Tables
  <2> QED
    BY <1>1, <2>1, <2>3, <2>4, ReadingStep
<1> QED
  BY <1>2, <1>3 DEF LockPair

\* A transaction that fails or is given up writes nothing.
LEMMA FailStep == ASSUME Inv, [Next]_vars, NEW c \in Calls, FailTransfer(c) \/ Abort(c) PROVE Inv'
<1>1. CallStep(c) /\ UNCHANGED Tables /\ ~At(c, "new")
  BY DEF CallStep, FailTransfer, Abort, At
<1>2. CASE \E answer \in Answer \ {"ok"} : Tell(c, answer)
  BY <1>1, <1>2, AnswerStep
<1>3. CASE Tell(c, Refusal(c))
  BY <1>1, <1>3, RefusalStep
<1> QED
  BY <1>2, <1>3 DEF FailTransfer, Abort, Answer

\* createRequest commits the row whose id only this call has.
LEMMA CommitRequestStep ==
  ASSUME Inv, [Next]_vars, NEW c \in Calls, CommitRequest(c) PROVE Inv'
<1> DEFINE m == call[c].request
<1>1. /\ CallStep(c) /\ Kept(c) /\ ~At(c, "new") /\ Tell(c, "ok")
      /\ CallWellFormed(c) /\ CallKnows(c) /\ TypeOK /\ BooksTrue
      /\ UNCHANGED <<transfer, madeFor, blocked>>
  BY CallsApart DEF CallStep, CommitRequest, Inv, At
<1>2. /\ m \in Requests /\ call[c].amount \in Amounts /\ request[m].status = "none"
      /\ Does(c, "create")
  BY <1>1 DEF CommitRequest, CallWellFormed, CallKnows, UnderTransaction, At
<1>3. /\ request'[m] = [NoRow EXCEPT !.status = "pending", !.amount = call[c].amount]
      /\ \A k \in Requests \ {m} : request'[k] = request[k]
  BY <1>1, <1>2 DEF CommitRequest, TypeOK
<1>4. /\ request'[m].status = "pending" /\ request'[m].amount = call[c].amount
      /\ request'[m].transaction = None
  BY <1>3 DEF NoRow
<1>5. TransfersStay
  BY <1>1 DEF TransfersStay
<1>6. WritesOnly(c, m)
  BY <1>2, <1>3 DEF WritesOnly
<1>7. \A k \in Requests : RowTrue(k)'
  <2> SUFFICES ASSUME NEW k \in Requests PROVE RowTrue(k)'
    OBVIOUS
  <2>1. CASE k = m
    BY <1>2, <1>4, <2>1 DEF RowTrue
  <2>2. CASE k # m
    BY <1>1, <1>3, <2>2 DEF BooksTrue, RowTrue, Exists
  <2> QED
    BY <2>1, <2>2
<1>8. \A ref \in References : PaymentTrue(ref)'
  <2> SUFFICES ASSUME NEW ref \in References, Exists(ref), madeFor[ref] # None
               PROVE  /\ request'[madeFor[ref]].status \notin {"none", "pending"}
                      /\ transfer[ref] = request'[madeFor[ref]].amount
    BY <1>1 DEF PaymentTrue, Exists
  <2>1. PaymentTrue(ref) /\ madeFor[ref] \in Requests
    BY <1>1 DEF BooksTrue, TypeOK
  <2>2. madeFor[ref] # m
    BY <1>2, <2>1 DEF PaymentTrue
  <2> QED
    BY <1>3, <2>1, <2>2 DEF PaymentTrue
<1>9. PaymentUnique'
  BY <1>1 DEF BooksTrue, PaymentUnique, Exists
<1>10. ~(call[c].does \in {"send", "pay"})
  BY <1>2 DEF Does
<1>11. \A k \in Requests : request[k].status # "none" =>
         request'[k].status # "none" /\ request'[k].amount = request[k].amount
  BY <1>2, <1>3
<1>12. /\ CallWellFormed(c)' /\ CallKnows(c)' /\ AnswerTrue(c)'
       /\ call'[c].does = call[c].does /\ call'[c].request = call[c].request
  <2>1. "ok" \in Answer
    BY DEF Answer
  <2> QED
    BY <1>1, <1>5, <1>10, <1>11, <2>1, Told
<1> QED
  BY <1>1, <1>2, <1>5, <1>6, <1>7, <1>8, <1>9, <1>12, Together DEF BooksTrue

\* finalizeTransfer: the payment of a request finds it pending, so it has no
\* other, and leaves it paid.
LEMMA CommitTransferStep ==
  ASSUME Inv, [Next]_vars, NEW c \in Calls, CommitTransfer(c) PROVE Inv'
<1> USE MoneyRequestsAssumption
<1> DEFINE m == call[c].request
           ref == call[c].reference
<1>1. /\ CallStep(c) /\ Kept(c) /\ ~At(c, "new") /\ Tell(c, "ok") /\ ~Exists(ref)
      /\ CallWellFormed(c) /\ CallKnows(c) /\ TypeOK /\ BooksTrue /\ UNCHANGED blocked
  BY CallsApart DEF CallStep, CommitTransfer, Inv, At
<1>2. /\ ref \in References /\ call[c].amount \in Amounts /\ call[c].amount # 0
      /\ call[c].does \in {"send", "pay"}
  BY <1>1 DEF CommitTransfer, CallWellFormed
<1>3. /\ transfer'[ref] = call[c].amount /\ madeFor'[ref] = m
      /\ \A r \in References \ {ref} : transfer'[r] = transfer[r] /\ madeFor'[r] = madeFor[r]
  BY <1>1, <1>2 DEF CommitTransfer, TypeOK
<1>4. TransfersStay
  BY <1>1, <1>3 DEF TransfersStay
<1>5. \A r \in References \ {ref} : Exists(r)' = Exists(r)
  BY <1>3 DEF Exists
<1>6. transfer'[ref] # 0
  BY <1>2, <1>3
<1>7. /\ BooksTrue'
      /\ UNCHANGED request \/ \E k \in Requests : WritesOnly(c, k)
      /\ \A k \in Requests : request[k].status # "none" =>
           request'[k].status # "none" /\ request'[k].amount = request[k].amount
  <2>1. CASE Does(c, "send")
    <3>1. m = None /\ request' = request
      BY <1>1, <2>1 DEF CommitTransfer, CallWellFormed, Does
    <3>2. \A k \in Requests : RowTrue(k)'
      <4> SUFFICES ASSUME NEW k \in Requests PROVE RowTrue(k)'
        OBVIOUS
      <4>1. RowTrue(k) /\ request[k].transaction \in References \cup {None}
        BY <1>1 DEF BooksTrue, TypeOK, Row
      <4>2. request[k].transaction # None => request[k].transaction # ref
        BY <1>1, <4>1 DEF RowTrue
      <4> QED
        BY <1>3, <1>5, <3>1, <4>1, <4>2 DEF RowTrue
    <3>3. \A r \in References : PaymentTrue(r)'
      BY <1>1, <1>3, <1>5, <3>1 DEF BooksTrue, PaymentTrue
    <3>4. PaymentUnique'
      BY <1>1, <1>3, <1>5, <3>1 DEF BooksTrue, PaymentUnique
    <3> QED
      BY <3>1, <3>2, <3>3, <3>4 DEF BooksTrue
  <2>2. CASE Does(c, "pay")
    <3>1. m \in Requests /\ rowLock[m] = c /\ request[m].status = "pending"
            /\ request[m].amount = call[c].amount
      BY <1>1, <2>2 DEF CommitTransfer, CallWellFormed, CallKnows, UnderTransaction, At
    <3>2. /\ request[m] \in Row
          /\ request'[m] = [request[m] EXCEPT !.status = "paid", !.transaction = ref]
          /\ \A k \in Requests \ {m} : request'[k] = request[k]
      BY <1>1, <2>2, <3>1 DEF CommitTransfer, TypeOK
    <3>3. /\ request'[m].status = "paid" /\ request'[m].transaction = ref
          /\ request'[m].amount = request[m].amount
      BY <3>2 DEF Row
    <3>4. \A r \in References : Exists(r) => madeFor[r] # m
      BY <1>1, <3>1 DEF BooksTrue, PaymentTrue
    <3>5. \A k \in Requests : RowTrue(k)'
      <4> SUFFICES ASSUME NEW k \in Requests PROVE RowTrue(k)'
        OBVIOUS
      <4>1. RowTrue(k) /\ request[k].transaction \in References \cup {None}
        BY <1>1 DEF BooksTrue, TypeOK, Row
      <4>2. request[k].transaction # None => request[k].transaction # ref
        BY <1>1, <4>1 DEF RowTrue
      <4>3. CASE k = m
        BY <1>2, <1>3, <1>6, <3>1, <3>3, <4>3 DEF RowTrue, Exists
      <4>4. CASE k # m
        BY <1>3, <1>5, <3>2, <4>1, <4>2, <4>4 DEF RowTrue
      <4> QED
        BY <4>3, <4>4
    <3>6. \A r \in References : PaymentTrue(r)'
      <4> SUFFICES ASSUME NEW r \in References PROVE PaymentTrue(r)'
        OBVIOUS
      <4>1. CASE r = ref
        BY <1>3, <3>1, <3>3, <4>1 DEF PaymentTrue
      <4>2. CASE r # ref
        <5>1. PaymentTrue(r) /\ madeFor[r] \in Requests \cup {None}
          BY <1>1 DEF BooksTrue, TypeOK
        <5> QED
          BY <1>3, <1>5, <3>2, <3>4, <4>2, <5>1 DEF PaymentTrue
      <4> QED
        BY <4>1, <4>2
    <3>7. PaymentUnique'
      BY <1>1, <1>3, <1>5, <3>4 DEF BooksTrue, PaymentUnique
    <3>8. WritesOnly(c, m)
      BY <3>1, <3>2, <3>3 DEF WritesOnly
    <3> QED
      BY <3>1, <3>2, <3>3, <3>5, <3>6, <3>7, <3>8 DEF BooksTrue
  <2> QED
    BY <1>2, <2>1, <2>2 DEF Does
<1>8. /\ CallWellFormed(c)' /\ CallKnows(c)' /\ AnswerTrue(c)'
      /\ call'[c].does = call[c].does /\ call'[c].request = call[c].request
  <2>1. "ok" \in Answer
    BY DEF Answer
  <2> QED
    BY <1>1, <1>3, <1>4, <1>7, <2>1, Told
<1> QED
  BY <1>1, <1>4, <1>7, <1>8, Together

\* The unlocked reads of cancelRequest and declineRequest.
LEMMA FindStep ==
  ASSUME Inv, [Next]_vars, NEW c \in Calls, FindPending(c) \/ Reload(c) PROVE Inv'
<1> DEFINE m == call[c].request
<1>1. /\ CallStep(c) /\ Kept(c) /\ UNCHANGED Tables /\ ~At(c, "new") /\ TypeOK
      /\ CallWellFormed(c) /\ CallKnows(c) /\ call[c] \in Call
  BY CallsApart DEF CallStep, FindPending, Reload, Inv, At, TypeOK
<1>2. m \in Requests /\ call[c].does \in {"cancelled", "declined"}
        /\ call[c].step \in {"find", "reload"}
  BY <1>1 DEF FindPending, Reload, CallWellFormed, At
<1>3. CASE \E answer \in Answer : Tell(c, answer)
  BY <1>1, <1>2, <1>3, AnswerStep
<1>4. CASE Goto(c, "reload")
  <2>1. /\ call'[c].step = "reload"
        /\ call'[c].does = call[c].does /\ call'[c].request = call[c].request
        /\ call'[c].reference = call[c].reference /\ call'[c].amount = call[c].amount
        /\ call'[c].told = call[c].told /\ AnswerTrue(c)'
    BY <1>1, <1>4, WentOn DEF Step
  <2>2. CallWellFormed(c)'
    BY <1>1, <1>2, <2>1 DEF CallWellFormed, At, Does
  <2>3. CallKnows(c)'
    BY <1>1, <1>2, <2>1 DEF CallKnows, At, Does, UnderTransaction, Tables
  <2> QED
    BY <1>1, <2>1, <2>2, <2>3, ReadingStep
<1>5. CASE \E changes \in SUBSET {"status", "transaction"} :
             /\ call' = [call EXCEPT ![c].step = "write", ![c].changes = changes]
             /\ "status" \notin changes => request[m].status = call[c].does
  <2>1. PICK changes \in SUBSET {"status", "transaction"} :
             /\ call' = [call EXCEPT ![c].step = "write", ![c].changes = changes]
             /\ "status" \notin changes => request[m].status = call[c].does
    BY <1>5
  <2>2. call'[c] = [call[c] EXCEPT !.step = "write", !.changes = changes]
    BY <1>1, <2>1 DEF TypeOK
  <2>3. /\ call'[c].step = "write" /\ call'[c].changes = changes
        /\ call'[c].does = call[c].does /\ call'[c].request = call[c].request
        /\ call'[c].reference = call[c].reference /\ call'[c].amount = call[c].amount
        /\ call'[c].told = call[c].told
    BY <1>1, <2>2 DEF Call
  <2>4. CallWellFormed(c)'
    BY <1>1, <1>2, <2>3 DEF CallWellFormed, At, Does
  <2>5. CallKnows(c)'
    BY <1>1, <1>2, <2>1, <2>3 DEF CallKnows, At, Does, UnderTransaction, Tables
  <2>6. AnswerTrue(c)'
    BY <1>2, <2>3 DEF AnswerTrue
  <2> QED
    BY <1>1, <2>3, <2>4, <2>5, <2>6, ReadingStep
<1>6. CASE FindPending(c)
  BY <1>3, <1>4, <1>6 DEF FindPending, Answer
<1>7. CASE Reload(c)
  <2> DEFINE changes == (IF request[m].status # call[c].does THEN {"status"} ELSE {})
                          \cup (IF request[m].transaction # None THEN {"transaction"} ELSE {})
  <2>1. CASE Tell(c, "ok")
    BY <1>3, <2>1 DEF Answer
  <2>2. CASE call' = [call EXCEPT ![c].step = "write", ![c].changes = changes]
    <3>1. changes \in SUBSET {"status", "transaction"}
            /\ ("status" \notin changes => request[m].status = call[c].does)
      OBVIOUS
    <3> HIDE DEF changes
    <3> QED
      BY <1>5, <2>2, <3>1
  <2> QED
    BY <1>7, <2>1, <2>2 DEF Reload
<1> QED
  BY <1>6, <1>7

\* save() writes over whatever happened since it read the row.  Nobody holds the
\* row's lock, so no payment is under way: a paid request may lose its status
\* and its link, but its payment stays the only one.
LEMMA WriteStep == ASSUME Inv, [Next]_vars, NEW c \in Calls, Write(c) PROVE Inv'
<1> DEFINE m == call[c].request
           status == IF "status" \in call[c].changes THEN call[c].does ELSE request[m].status
           transaction == IF "transaction" \in call[c].changes THEN None ELSE request[m].transaction
<1>1. /\ CallStep(c) /\ Kept(c) /\ ~At(c, "new") /\ Tell(c, "ok") /\ TypeOK /\ BooksTrue
      /\ CallWellFormed(c) /\ CallKnows(c) /\ UNCHANGED <<transfer, madeFor, blocked>>
  BY CallsApart DEF CallStep, Write, Inv, At
<1>2. m \in Requests /\ call[c].does \in {"cancelled", "declined"} /\ rowLock[m] = None
        /\ request[m].status # "none"
  BY <1>1 DEF Write, CallWellFormed, CallKnows, At
<1>3. /\ status \in {"cancelled", "declined"}
      /\ transaction \in {None, request[m].transaction}
  BY <1>1, <1>2 DEF Write, CallKnows
<1>4. /\ request[m] \in Row
      /\ request'[m] = [request[m] EXCEPT !.status = status, !.transaction = transaction]
      /\ \A k \in Requests \ {m} : request'[k] = request[k]
  BY <1>1, <1>2 DEF Write, TypeOK
<1> HIDE DEF status, transaction
<1>5. /\ request'[m].status = status /\ request'[m].transaction = transaction
      /\ request'[m].amount = request[m].amount
  BY <1>4 DEF Row
<1>6. TransfersStay
  BY <1>1 DEF TransfersStay
<1>7. WritesOnly(c, m)
  BY <1>2, <1>3, <1>4, <1>5 DEF WritesOnly
<1>8. \A k \in Requests : RowTrue(k)'
  <2> SUFFICES ASSUME NEW k \in Requests PROVE RowTrue(k)'
    OBVIOUS
  <2>1. RowTrue(k)
    BY <1>1 DEF BooksTrue
  <2>2. CASE k = m
    BY <1>1, <1>2, <1>3, <1>5, <2>1, <2>2 DEF RowTrue, Exists
  <2>3. CASE k # m
    BY <1>1, <1>4, <2>1, <2>3 DEF RowTrue, Exists
  <2> QED
    BY <2>2, <2>3
<1>9. \A ref \in References : PaymentTrue(ref)'
  <2> SUFFICES ASSUME NEW ref \in References, Exists(ref), madeFor[ref] # None
               PROVE  /\ request'[madeFor[ref]].status \notin {"none", "pending"}
                      /\ transfer[ref] = request'[madeFor[ref]].amount
    BY <1>1 DEF PaymentTrue, Exists
  <2>1. PaymentTrue(ref) /\ madeFor[ref] \in Requests
    BY <1>1 DEF BooksTrue, TypeOK
  <2>2. CASE madeFor[ref] = m
    BY <1>3, <1>5, <2>1, <2>2 DEF PaymentTrue
  <2>3. CASE madeFor[ref] # m
    BY <1>4, <2>1, <2>3 DEF PaymentTrue
  <2> QED
    BY <2>2, <2>3
<1>10. PaymentUnique'
  BY <1>1 DEF BooksTrue, PaymentUnique, Exists
<1>11. \A k \in Requests : request[k].status # "none" =>
         request'[k].status # "none" /\ request'[k].amount = request[k].amount
  BY <1>3, <1>4, <1>5
<1>12. /\ CallWellFormed(c)' /\ CallKnows(c)' /\ AnswerTrue(c)'
       /\ call'[c].does = call[c].does /\ call'[c].request = call[c].request
  <2>1. "ok" \in Answer /\ ~(call[c].does \in {"send", "pay"})
    BY <1>2 DEF Answer
  <2> QED
    BY <1>1, <1>6, <1>11, <2>1, Told
<1> QED
  BY <1>1, <1>2, <1>6, <1>7, <1>8, <1>9, <1>10, <1>12, Together DEF BooksTrue

\* A call that arrives knows only what it was made with.
LEMMA ArrivalStep == ASSUME Inv, [Next]_vars, NEW c \in Calls, Arrive(c) PROVE Inv'
<1> USE MoneyRequestsAssumption
<1>1. /\ Kept(c) /\ UNCHANGED Tables /\ TypeOK /\ BooksTrue /\ At(c, "new")
  BY CallsApart DEF Inv, Arrive, CreateRequest, SendMoney, PayRequest, EndRequest, Begin
<1>2. TransfersStay /\ UNCHANGED request /\ UNCHANGED blocked
  BY <1>1 DEF TransfersStay, Tables
<1>3. BooksTrue'
  BY <1>1 DEF BooksTrue, RowTrue, PaymentTrue, PaymentUnique, Exists, Tables
<1>4. \A d \in Calls \ {c} : CallWellFormed(d)' /\ CallKnows(d)' /\ AnswerTrue(d)'
  BY <1>1, <1>2, OthersStillKnow
<1>5. ASSUME NEW operation, NEW step, NEW m, NEW ref, NEW amount,
             Begin(c, operation, step, m, ref, amount)
      PROVE  /\ call'[c].step = step /\ call'[c].does = operation /\ call'[c].request = m
             /\ call'[c].reference = ref /\ call'[c].amount = amount
             /\ call'[c].told = "nothing" /\ call'[c].changes = {}
  <2>1. call'[c] = [NewCall EXCEPT !.step = step, !.does = operation, !.request = m,
                                   !.reference = ref, !.amount = amount]
    BY <1>1, <1>5 DEF Begin, TypeOK
  <2> QED
    BY <2>1 DEF NewCall
<1>6. ASSUME \A d \in Calls \ {c} : ~(Does(d, "create") /\ Does(c, "create")'
                                       /\ call[d].request = call'[c].request)
      PROVE  CreatorUnique'
  BY <1>1, <1>6 DEF Kept, Inv, CreatorUnique, Does
<1>7. ASSUME CallWellFormed(c)', CallKnows(c)', CreatorUnique', call'[c].told = "nothing"
      PROVE  Inv'
  BY <1>3, <1>4, <1>7, TypeStep DEF Inv, AnswerTrue
<1>8. ASSUME NEW m \in Requests, NEW amount \in Amounts, CreateRequest(c, m, amount) PROVE Inv'
  <2>1. /\ call'[c].step = "lockPair" /\ call'[c].does = "create" /\ call'[c].request = m
        /\ call'[c].reference = None /\ call'[c].amount = amount /\ call'[c].told = "nothing"
    BY <1>5, <1>8 DEF CreateRequest
  <2>2. CallWellFormed(c)'
    BY <2>1 DEF CallWellFormed, At, Does
  <2>3. CallKnows(c)'
    BY <1>2, <1>8, <2>1 DEF CallKnows, At, Does, UnderTransaction, CreateRequest
  <2>4. CreatorUnique'
    BY <1>6, <1>8, <2>1 DEF CreateRequest
  <2> QED
    BY <1>7, <2>1, <2>2, <2>3, <2>4
<1>9. ASSUME NEW ref \in References, NEW amount \in Amounts, SendMoney(c, ref, amount) PROVE Inv'
  <2>1. /\ call'[c].step = "replay" /\ call'[c].does = "send" /\ call'[c].request = None
        /\ call'[c].reference = ref /\ call'[c].amount = amount /\ call'[c].told = "nothing"
    BY <1>5, <1>9 DEF SendMoney
  <2>2. CallWellFormed(c)' /\ CallKnows(c)'
    BY <2>1 DEF CallWellFormed, CallKnows, At, Does, UnderTransaction
  <2>3. CreatorUnique'
    BY <1>6, <2>1 DEF Does
  <2> QED
    BY <1>7, <2>1, <2>2, <2>3
<1>10. ASSUME NEW m \in Requests, NEW ref \in References, PayRequest(c, m, ref) PROVE Inv'
  <2>1. request[m].status # "none" /\ request[m].amount \in Amounts
    BY <1>1, <1>10 DEF PayRequest, BooksTrue, RowTrue
  <2>2. /\ call'[c].step = "lockRow" /\ call'[c].does = "pay" /\ call'[c].request = m
        /\ call'[c].reference = ref /\ call'[c].amount = request[m].amount
        /\ call'[c].told = "nothing"
    BY <1>5, <1>10 DEF PayRequest
  <2>3. CallWellFormed(c)'
    BY <2>1, <2>2 DEF CallWellFormed, At, Does
  <2>4. CallKnows(c)'
    BY <1>2, <2>1, <2>2 DEF CallKnows, At, Does, UnderTransaction
  <2>5. CreatorUnique'
    BY <1>6, <2>2 DEF Does
  <2> QED
    BY <1>7, <2>2, <2>3, <2>4, <2>5
<1>11. ASSUME NEW m \in Requests, NEW status \in {"cancelled", "declined"}, EndRequest(c, m, status)
       PROVE  Inv'
  <2>1. /\ call'[c].step = "find" /\ call'[c].does = status /\ call'[c].request = m
        /\ call'[c].told = "nothing" /\ request[m].status # "none"
    BY <1>5, <1>11 DEF EndRequest
  <2>2. CallWellFormed(c)'
    BY <2>1 DEF CallWellFormed, At, Does
  <2>3. CallKnows(c)'
    BY <1>2, <2>1 DEF CallKnows, At, Does, UnderTransaction
  <2>4. CreatorUnique'
    BY <1>6, <2>1 DEF Does
  <2> QED
    BY <1>7, <2>1, <2>2, <2>3, <2>4
<1> QED
  BY <1>8, <1>9, <1>10, <1>11 DEF Arrive

\* Expiry changes a flag no call relies on; a block waits for the pair's lock,
\* so none commits under a call about to.
LEMMA WorldStep ==
  ASSUME Inv, [Next]_vars, (\E m \in Requests : Expire(m)) \/ Block \/ Unblock \/ UNCHANGED vars
  PROVE  Inv'
<1>1. /\ TypeOK /\ BooksTrue /\ UNCHANGED <<transfer, madeFor, rowLock, pairLock, call>>
      /\ UNCHANGED blocked \/ blocked' = FALSE \/ pairLock = None
  BY DEF Inv, Expire, Block, Unblock, vars, Locks
<1>2. Kept(None) /\ TransfersStay
  BY <1>1 DEF Kept, TransfersStay
<1>3. /\ UNCHANGED request \/ \E m \in Requests : WritesOnly(None, m)
      /\ \A k \in Requests : /\ request'[k].status = request[k].status
                             /\ request'[k].amount = request[k].amount
                             /\ request'[k].transaction = request[k].transaction
  <2>1. CASE UNCHANGED request
    BY <2>1
  <2>2. CASE \E m \in Requests : Expire(m)
    <3> PICK m \in Requests : Expire(m)
      BY <2>2
    <3>1. request[m] \in Row /\ request'[m] = [request[m] EXCEPT !.expired = TRUE]
            /\ \A k \in Requests \ {m} : request'[k] = request[k]
      BY <1>1 DEF Expire, TypeOK
    <3>2. /\ request'[m].status = request[m].status /\ request'[m].amount = request[m].amount
          /\ request'[m].transaction = request[m].transaction
      BY <3>1 DEF Row
    <3>3. WritesOnly(None, m)
      BY <3>1, <3>2 DEF WritesOnly, Expire
    <3> QED
      BY <3>1, <3>2, <3>3
  <2> QED
    BY <2>1, <2>2 DEF Block, Unblock, vars
<1>4. \A d \in Calls : CallWellFormed(d)' /\ CallKnows(d)' /\ AnswerTrue(d)'
  <2>1. None \notin Calls
    BY MoneyRequestsAssumption
  <2> QED
    BY <1>1, <1>2, <1>3, <2>1, OthersStillKnow
<1>5. BooksTrue'
  <2>1. \A k \in Requests : RowTrue(k)'
    BY <1>1, <1>3 DEF BooksTrue, RowTrue, Exists
  <2>2. \A ref \in References : PaymentTrue(ref)'
    BY <1>1, <1>3 DEF BooksTrue, PaymentTrue, Exists, TypeOK
  <2>3. PaymentUnique'
    BY <1>1 DEF BooksTrue, PaymentUnique, Exists
  <2> QED
    BY <2>1, <2>2, <2>3 DEF BooksTrue
<1>6. CreatorUnique'
  BY <1>1 DEF Inv, CreatorUnique, Does
<1> QED
  BY <1>4, <1>5, <1>6, TypeStep DEF Inv

-----------------------------------------------------------------------------
(* The theorems *)

\* No row, no transfer, no lock and no call yet.
LEMMA InvInit == Init => Inv
<1> SUFFICES ASSUME Init PROVE Inv
  OBVIOUS
<1>1. NoRow \in Row /\ NewCall \in Call
  BY DEF NoRow, Row, RequestStatus, NewCall, Call, Step, Operation, Answer
<1>2. TypeOK
  BY <1>1 DEF Init, TypeOK
<1>3. BooksTrue
  BY DEF Init, BooksTrue, RowTrue, PaymentTrue, PaymentUnique, Exists, NoRow
<1>4. \A c \in Calls : CallWellFormed(c) /\ CallKnows(c) /\ AnswerTrue(c)
  BY DEF Init, NewCall, CallWellFormed, CallKnows, AnswerTrue, At, Does, UnderTransaction
<1>5. CreatorUnique
  BY DEF Init, NewCall, CreatorUnique, Does
<1> QED
  BY <1>2, <1>3, <1>4, <1>5 DEF Inv

LEMMA InvStep == Inv /\ [Next]_vars => Inv'
<1> SUFFICES ASSUME Inv, [Next]_vars PROVE Inv'
  OBVIOUS
<1>1. ASSUME NEW c \in Calls, Arrive(c) PROVE Inv'
  BY <1>1, ArrivalStep
<1>2. ASSUME NEW c \in Calls, CallStep(c) PROVE Inv'
  BY <1>2, ReplayStep, LockRowStep, LockPairStep, CommitRequestStep, CommitTransferStep,
    FailStep, FindStep, WriteStep DEF CallStep
<1> QED
  BY <1>1, <1>2, WorldStep DEF Next

\* The rows, the transfers and what the calls know stay consistent.
THEOREM InvHolds == Spec => []Inv
BY InvInit, InvStep, PTL DEF Spec

\* However many pay calls race, with however many references: a request has at
\* most one payment, of its amount, and one shown as paid is linked to it.
THEOREM PaidOnce == Spec => []PaidByOneTransfer
<1>1. Inv => PaidByOneTransfer
  <2> SUFFICES ASSUME Inv, NEW m \in Requests
               PROVE  LET payments == {ref \in References : Exists(ref) /\ madeFor[ref] = m} IN
                      /\ \A ref1, ref2 \in payments : ref1 = ref2
                      /\ \A ref \in payments : transfer[ref] = request[m].amount
                      /\ request[m].status = "paid" => request[m].transaction \in payments
    BY DEF PaidByOneTransfer
  <2>1. m # None /\ request[m].transaction \in References \cup {None}
    BY MoneyRequestsAssumption DEF Inv, TypeOK, Row
  <2> QED
    BY <2>1 DEF Inv, BooksTrue, RowTrue, PaymentTrue, PaymentUnique
<1> QED
  BY <1>1, InvHolds, PTL

\* A client told that its payment went through was told the truth, through
\* replays, races for a reference and overlapping pay calls.
THEOREM AnswersTrue == Spec => []AnswersAreTrue
<1>1. Inv => AnswersAreTrue
  BY DEF Inv, AnswerTrue, AnswersAreTrue
<1> QED
  BY <1>1, InvHolds, PTL

\* Once a block is committed no transfer and no request between the two commits.
THEOREM BlockIsFinal == Spec => NothingAfterBlock
<1>1. Inv /\ [Next]_vars =>
        [blocked /\ blocked' =>
           /\ transfer' = transfer
           /\ \A m \in Requests : request[m].status = "none" => request'[m] = request[m]]_vars
  <2> SUFFICES ASSUME Inv, Next, blocked, blocked'
               PROVE  /\ transfer' = transfer
                      /\ \A m \in Requests : request[m].status = "none" => request'[m] = request[m]
    BY DEF vars
  <2>1. \A c \in Calls : ~At(c, "commit")
    BY DEF Inv, CallKnows
  <2>2. ASSUME NEW c \in Calls, Write(c)
        PROVE  /\ transfer' = transfer
               /\ \A m \in Requests : request[m].status = "none" => request'[m] = request[m]
    <3>1. call[c].request \in Requests /\ request[call[c].request].status # "none"
      BY <2>2 DEF Write, Inv, CallWellFormed, CallKnows, At
    <3>2. \A k \in Requests \ {call[c].request} : request'[k] = request[k]
      BY <2>2 DEF Write, Inv, TypeOK
    <3> QED
      BY <2>2, <3>1, <3>2 DEF Write
  <2>3. ASSUME NEW k \in Requests, Expire(k)
        PROVE  /\ transfer' = transfer
               /\ \A m \in Requests : request[m].status = "none" => request'[m] = request[m]
    BY <2>3 DEF Expire, Inv, TypeOK
  <2>4. ASSUME NEW c \in Calls, Arrive(c) \/ CallStep(c), ~Write(c) PROVE UNCHANGED <<transfer, request>>
    BY <2>1, <2>4 DEF Arrive, CreateRequest, SendMoney, PayRequest, EndRequest, Begin, CallStep,
      CheckTransferReplay, LockRow, LockPair, CommitRequest, CommitTransfer, FailTransfer, Abort,
      FindPending, Reload, Tables
  <2> QED
    BY <2>2, <2>3, <2>4 DEF Next, Block, Unblock
<1> QED
  BY <1>1, InvHolds, PTL DEF Spec, NothingAfterBlock
=============================================================================
