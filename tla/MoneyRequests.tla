--------------------------- MODULE MoneyRequests ----------------------------
(***************************************************************************)
(* Transfers from one user to another, and the money requests the other    *)
(* made: TransfersService.sendMoney and MoneyRequestsService's create,     *)
(* pay, cancel and decline, statement by statement where they can wait or  *)
(* read.  PostgreSQL runs them under READ COMMITTED: locks are held to the *)
(* end of a transaction, and its writes show when it commits.              *)
(*                                                                         *)
(* The pair lock is the advisory lock of SocialService.lockPair.  What a   *)
(* transfer posts is the subject of module Ledger; here it is a row under  *)
(* a unique reference.                                                     *)
(***************************************************************************)
EXTENDS Integers, FiniteSets

CONSTANTS
  Calls,             \* HTTP requests, each made once
  Requests,          \* money requests of the requester to the payer
  References,        \* references the payer's client chooses
  Amounts,           \* amounts; note and visibility are part of them here
  None,              \* SQL's NULL, and no call
  MaxPendingPerPair  \* config.moneyRequests.maxPendingPerPair

ASSUME MoneyRequestsAssumption ==
  /\ Amounts \subseteq Nat \ {0}
  /\ MaxPendingPerPair \in Nat
  /\ None \notin Calls \cup Requests \cup References

VARIABLES
  request,   \* money_requests, committed
  transfer,  \* amount of the transfer with each reference, 0 if there is none
  madeFor,   \* the request a transfer was made to pay, None for a plain one
  blocked,   \* one of the two has blocked the other
  rowLock,   \* who holds the lock on each request's row
  pairLock,  \* who holds the pair's advisory lock
  call       \* the progress of each call

vars == <<request, transfer, madeFor, blocked, rowLock, pairLock, call>>

RequestStatus == {"none", "pending", "paid", "declined", "cancelled"}
Row == [status : RequestStatus, amount : Amounts \cup {0}, expired : BOOLEAN,
        transaction : References \cup {None}]
NoRow == [status |-> "none", amount |-> 0, expired |-> FALSE, transaction |-> None]

Operation == {"create", "send", "pay", "cancelled", "declined"}
Step == {"new", "replay", "lockRow", "lockPair", "commit", "find", "reload",
         "write", "done"}
Answer == {"nothing", "ok", "refused", "conflict", "notFound", "notPayable"}
Call == [step : Step, does : Operation, request : Requests \cup {None},
         reference : References \cup {None}, amount : Amounts \cup {0},
         changes : SUBSET {"status", "transaction"}, told : Answer]
NewCall == [step |-> "new", does |-> "send", request |-> None, reference |-> None,
            amount |-> 0, changes |-> {}, told |-> "nothing"]

-----------------------------------------------------------------------------
(* Calls and locks *)

At(c, step) == call[c].step = step
Does(c, operation) == call[c].does = operation
Goto(c, step) == call' = [call EXCEPT ![c].step = step]
Tell(c, answer) == call' = [call EXCEPT ![c].step = "done", ![c].told = answer]

\* COMMIT and ROLLBACK.
Release(c) ==
  /\ rowLock' = [m \in Requests |-> IF rowLock[m] = c THEN None ELSE rowLock[m]]
  /\ pairLock' = IF pairLock = c THEN None ELSE pairLock

Locks == <<rowLock, pairLock>>
Tables == <<request, transfer, madeFor, blocked>>

Exists(ref) == transfer[ref] # 0

\* A pending row whose expiry has passed is never rewritten, only ignored.
EffectivelyPending(m) == request[m].status = "pending" /\ ~request[m].expired

Begin(c, operation, step, m, ref, amount) ==
  /\ At(c, "new")
  /\ call' = [call EXCEPT ![c] =
                [NewCall EXCEPT !.step = step, !.does = operation, !.request = m,
                                !.reference = ref, !.amount = amount]]
  /\ UNCHANGED <<Tables, Locks>>

-----------------------------------------------------------------------------
(* The arrival of the calls *)

\* A created request gets a fresh id.
CreateRequest(c, m, amount) ==
  /\ request[m].status = "none"
  /\ \A d \in Calls : ~(Does(d, "create") /\ call[d].request = m)
  /\ Begin(c, "create", "lockPair", m, None, amount)

SendMoney(c, ref, amount) == Begin(c, "send", "replay", None, ref, amount)

PayRequest(c, m, ref) ==
  /\ request[m].status # "none"
  /\ Begin(c, "pay", "lockRow", m, ref, request[m].amount)

\* cancelRequest and declineRequest differ in who may call them.
EndRequest(c, m, status) ==
  /\ request[m].status # "none"
  /\ Begin(c, status, "find", m, None, 0)

-----------------------------------------------------------------------------
(* Transfers *)

\* checkTransferReplay: the reference was used for this very transfer, for
\* another one, or not yet.
Replay(c) ==
  LET posted == transfer[call[c].reference] IN
  IF posted = 0 THEN "none" ELSE IF posted = call[c].amount THEN "match" ELSE "diverged"

\* The transaction was rolled back: sendMoney then looks for the transfer of a
\* racing twin, which answers the call.
Refusal(c) == IF Does(c, "send") /\ Replay(c) = "match" THEN "ok" ELSE "refused"

\* executeTransfer's check before the PIN is asked for.
CheckTransferReplay(c) ==
  /\ At(c, "replay")
  /\ CASE Replay(c) = "none"     -> Goto(c, "lockPair")
       [] Replay(c) = "match"    -> Tell(c, "ok")
       [] Replay(c) = "diverged" -> Tell(c, "refused")
  /\ UNCHANGED <<Tables, Locks>>

\* Mutant: a transfer that matches is taken for the payment of this request.
AnyTransfer(m, ref) == TRUE

\* The replayed transfer is the one that paid this request.
IsItsTransfer(m, ref) == request[m].transaction = ref

\* Mutant: the row's status is not looked at again.
PayableIfUnexpired(m) == ~request[m].expired

IsPayable(m) == EffectivelyPending(m)

\* payRequest locks the row, then looks for a replay, then at the status.
LockRow(c) ==
  LET m == call[c].request
      reject(answer) == Tell(c, answer) /\ UNCHANGED rowLock
  IN
  /\ At(c, "lockRow")
  /\ rowLock[m] = None
  /\ CASE Replay(c) = "diverged" -> reject("refused")
       [] Replay(c) = "match" ->
            IF IsItsTransfer(m, call[c].reference) THEN reject("ok") ELSE reject("conflict")
       [] OTHER ->
            IF IsPayable(m)
            THEN rowLock' = [rowLock EXCEPT ![m] = c] /\ Goto(c, "lockPair")
            ELSE reject("notPayable")
  /\ UNCHANGED <<Tables, pairLock>>

Outstanding == Cardinality({m \in Requests : EffectivelyPending(m)})

WithinPairCap == Outstanding < MaxPendingPerPair

\* Mutant: the block is looked up without waiting for the pair's lock.
LockNothing(c) ==
  /\ At(c, "lockPair")
  /\ ~blocked
  /\ Goto(c, "commit")
  /\ UNCHANGED <<Tables, Locks>>

\* lockPairAndCheckBlock; createRequest goes on to count the pair's requests.
\* Whatever is refused here is a rollback.
LockPair(c) ==
  /\ At(c, "lockPair")
  /\ pairLock = None
  /\ IF blocked \/ (Does(c, "create") /\ ~WithinPairCap)
     THEN Tell(c, Refusal(c)) /\ Release(c)
     ELSE Goto(c, "commit") /\ pairLock' = c /\ UNCHANGED rowLock
  /\ UNCHANGED Tables

CommitRequest(c) ==
  /\ At(c, "commit")
  /\ Does(c, "create")
  /\ request' = [request EXCEPT ![call[c].request] =
                   [NoRow EXCEPT !.status = "pending", !.amount = call[c].amount]]
  /\ Release(c)
  /\ Tell(c, "ok")
  /\ UNCHANGED <<transfer, madeFor, blocked>>

\* finalizeTransfer: the posting, the request's status and its transaction id
\* commit together.
CommitTransfer(c) ==
  LET ref == call[c].reference
      m == call[c].request
  IN
  /\ At(c, "commit")
  /\ call[c].does \in {"send", "pay"}
  /\ ~Exists(ref)
  /\ transfer' = [transfer EXCEPT ![ref] = call[c].amount]
  /\ madeFor' = [madeFor EXCEPT ![ref] = m]
  /\ request' = IF Does(c, "pay")
                THEN [request EXCEPT ![m].status = "paid", ![m].transaction = ref]
                ELSE request
  /\ Release(c)
  /\ Tell(c, "ok")
  /\ UNCHANGED blocked

\* The transaction fails: funds or a limit do not suffice, or the reference was
\* taken meanwhile, which payRequest answers with a conflict.
FailTransfer(c) ==
  /\ At(c, "commit")
  /\ call[c].does \in {"send", "pay"}
  /\ Release(c)
  /\ \/ Tell(c, Refusal(c))
     \/ Does(c, "pay") /\ Exists(call[c].reference) /\ Tell(c, "conflict")
  /\ UNCHANGED Tables

\* A frozen sender, a wrong PIN, or a crash, at any point of a transaction.
Abort(c) ==
  /\ call[c].step \in {"lockPair", "commit"}
  /\ Release(c)
  /\ Tell(c, "nothing")
  /\ UNCHANGED Tables

-----------------------------------------------------------------------------
(* Cancelling and declining *)

\* The query asks for a pending, unexpired request and takes no lock.
FindPending(c) ==
  /\ At(c, "find")
  /\ IF EffectivelyPending(call[c].request) THEN Goto(c, "reload") ELSE Tell(c, "notFound")
  /\ UNCHANGED <<Tables, Locks>>

\* save() reads the row again by id, to find the columns that differ from the
\* object in memory: the new status and, if a payment was linked since, the
\* transaction id.
Reload(c) ==
  LET row == request[call[c].request]
      changes == (IF row.status # call[c].does THEN {"status"} ELSE {})
                   \cup (IF row.transaction # None THEN {"transaction"} ELSE {})
  IN
  /\ At(c, "reload")
  /\ IF changes = {}
     THEN Tell(c, "ok")
     ELSE call' = [call EXCEPT ![c].step = "write", ![c].changes = changes]
  /\ UNCHANGED <<Tables, Locks>>

\* UPDATE ... WHERE id = m: it waits for the row and asks for no status.
Write(c) ==
  LET m == call[c].request IN
  /\ At(c, "write")
  /\ rowLock[m] = None
  /\ request' = [request EXCEPT
                   ![m].status = IF "status" \in call[c].changes THEN call[c].does ELSE @,
                   ![m].transaction = IF "transaction" \in call[c].changes THEN None ELSE @]
  /\ Tell(c, "ok")
  /\ UNCHANGED <<transfer, madeFor, blocked, Locks>>

-----------------------------------------------------------------------------
(* Time, blocks and the specification *)

\* now passes expiresAt: nothing is written.
Expire(m) ==
  /\ request[m].status # "none"
  /\ request' = [request EXCEPT ![m].expired = TRUE]
  /\ UNCHANGED <<transfer, madeFor, blocked, Locks, call>>

\* SocialService.block takes the pair's lock, unblock does not.
Block ==
  /\ pairLock = None
  /\ blocked' = TRUE
  /\ UNCHANGED <<request, transfer, madeFor, Locks, call>>

Unblock ==
  /\ blocked' = FALSE
  /\ UNCHANGED <<request, transfer, madeFor, Locks, call>>

Init ==
  /\ request = [m \in Requests |-> NoRow]
  /\ transfer = [ref \in References |-> 0]
  /\ madeFor = [ref \in References |-> None]
  /\ blocked = FALSE
  /\ rowLock = [m \in Requests |-> None]
  /\ pairLock = None
  /\ call = [c \in Calls |-> NewCall]

Arrive(c) ==
  \/ \E m \in Requests, amount \in Amounts : CreateRequest(c, m, amount)
  \/ \E ref \in References, amount \in Amounts : SendMoney(c, ref, amount)
  \/ \E m \in Requests, ref \in References : PayRequest(c, m, ref)
  \/ \E m \in Requests, status \in {"cancelled", "declined"} : EndRequest(c, m, status)

CallStep(c) ==
  \/ CheckTransferReplay(c) \/ LockRow(c) \/ LockPair(c)
  \/ CommitRequest(c) \/ CommitTransfer(c) \/ FailTransfer(c) \/ Abort(c)
  \/ FindPending(c) \/ Reload(c) \/ Write(c)

Next ==
  \/ \E c \in Calls : Arrive(c) \/ CallStep(c)
  \/ \E m \in Requests : Expire(m)
  \/ Block
  \/ Unblock

Spec == Init /\ [][Next]_vars

-----------------------------------------------------------------------------
(* Properties *)

\* Rows, locks and calls stay in their types; a row that exists has an amount.
TypeOK ==
  /\ request \in [Requests -> Row]
  /\ transfer \in [References -> Amounts \cup {0}]
  /\ madeFor \in [References -> Requests \cup {None}]
  /\ blocked \in BOOLEAN
  /\ rowLock \in [Requests -> Calls \cup {None}]
  /\ pairLock \in Calls \cup {None}
  /\ call \in [Calls -> Call]

\* A request is paid by at most one transfer, of its amount, however many pay
\* calls race with however many references; and a request shown as paid is
\* linked to a transfer that was made for it.
PaidByOneTransfer ==
  \A m \in Requests :
    LET payments == {ref \in References : Exists(ref) /\ madeFor[ref] = m} IN
    /\ \A ref1, ref2 \in payments : ref1 = ref2
    /\ \A ref \in payments : transfer[ref] = request[m].amount
    /\ request[m].status = "paid" => request[m].transaction \in payments

\* A client told that its payment went through: a transfer of that amount has
\* its reference, and one for a request was made for that request and not for
\* another of the same amount.
AnswersAreTrue ==
  \A c \in Calls :
    call[c].told = "ok" /\ call[c].does \in {"send", "pay"} =>
      /\ transfer[call[c].reference] = call[c].amount
      /\ Does(c, "pay") => madeFor[call[c].reference] = call[c].request

\* Once a block is committed no transfer and no request between the two
\* commits, whatever was checked before.
NothingAfterBlock ==
  [][blocked /\ blocked' =>
       /\ transfer' = transfer
       /\ \A m \in Requests : request[m].status = "none" => request'[m] = request[m]]_vars

\* money-requests.service.ts: "the request moving to `paid` and the transfer
\* posting must never disagree".
PaidWhenPosted ==
  \A ref \in References :
    Exists(ref) /\ madeFor[ref] # None => request[madeFor[ref]].status = "paid"
=============================================================================
