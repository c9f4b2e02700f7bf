------------------------------ MODULE Disputes ------------------------------
(***************************************************************************)
(* DisputesService.recordChargeback and resolveDispute at the grain of     *)
(* their row locks, as PostgreSQL runs them under READ COMMITTED: each     *)
(* statement reads what is committed when it runs, a lock is held until    *)
(* its transaction ends, and a transaction's writes show when it commits.  *)
(* Module Ledger takes each of them as one step.                           *)
(*                                                                         *)
(* The fundings here are of one user.  Every posting locks that user's     *)
(* wallet and the float in one ordered statement, so the two rows are one  *)
(* lock, Accounts.  The lock on a chargeback's own row is left out: only a *)
(* holder of the dispute's lock takes it.                                  *)
(*                                                                         *)
(* UsersService also writes users.is_frozen, in the calls that read the    *)
(* user's whole row and save it: ReadUser and SaveUser.                    *)
(***************************************************************************)
EXTENDS Integers, FiniteSets

CONSTANTS
  Calls,     \* admin requests, each made once
  Originals, \* completed fundings of one user
  Notices,   \* dispute references
  Accounts,  \* the lock on the wallet and float rows
  Nobody,    \* no call; also no funding
  Funded     \* amount of each funding; a chargeback takes 1

ASSUME DisputesAssumption ==
  /\ Funded \in Nat
  /\ Accounts \notin Originals \cup Notices
  /\ Originals \cap Notices = {}
  /\ Nobody \notin Calls \cup Originals
  /\ IsFiniteSet(Originals) /\ IsFiniteSet(Notices)

VARIABLES
  status,    \* status of each funding, committed
  reverses,  \* the funding each chargeback row reverses, committed
  dispute,   \* disputes.status, committed
  balance,   \* the user's wallet
  frozen,    \* users.is_frozen
  read,      \* what unfinished profile calls read of is_frozen
  owner,     \* who holds each row lock
  call       \* the progress of each call

vars == <<status, reverses, dispute, balance, frozen, read, owner, call>>

Locks == Originals \cup Notices \cup {Accounts}
Status == {"completed", "disputed", "reversed"}
Verdict == {"none", "open", "upheld", "resolved"}
Step == {"new", "lockOriginal", "lockDispute", "lockAccounts", "post",
         "readSiblings", "readDisputes", "updateOriginal", "finish", "done"}
Call == [step : Step, does : {"record", "upheld", "resolved"},
         notice : Notices \cup {Nobody}, original : Originals \cup {Nobody},
         siblings : SUBSET Notices, aggregate : Status]
NewCall == [step |-> "new", does |-> "record", notice |-> Nobody,
            original |-> Nobody, siblings |-> {}, aggregate |-> "disputed"]

-----------------------------------------------------------------------------
(* Calls and locks *)

At(c, step) == call[c].step = step
Goto(c, step) == call' = [call EXCEPT ![c].step = step]

\* SELECT ... FOR UPDATE or UPDATE: wait until the row is free.
Acquire(c, lock) ==
  /\ owner[lock] \in {Nobody, c}
  /\ owner' = [owner EXCEPT ![lock] = c]

\* COMMIT and ROLLBACK release every lock of the transaction.
Release(c) ==
  /\ owner' = [l \in Locks |-> IF owner[l] = c THEN Nobody ELSE owner[l]]
  /\ Goto(c, "done")

Database == <<status, reverses, dispute, balance, frozen>>

Rollback(c) == Release(c) /\ UNCHANGED <<Database, read>>

\* The lock a call is waiting for, if it is not free.
Wants(c) ==
  CASE At(c, "lockOriginal")   -> call[c].original
    [] At(c, "lockDispute")    -> call[c].notice
    [] At(c, "lockAccounts")   -> Accounts
    [] At(c, "updateOriginal") -> call[c].original
    [] OTHER                   -> Nobody
Blocker(c) == IF Wants(c) = Nobody THEN Nobody ELSE owner[Wants(c)]

-----------------------------------------------------------------------------
(* recordChargeback *)

Chargebackable == {"completed", "disputed"}

\* The duplicate check and the status check, both without a lock.
RecordChargeback(c, n, o) ==
  /\ At(c, "new")
  /\ dispute[n] = "none"
  /\ status[o] \in Chargebackable
  /\ call' = [call EXCEPT ![c] = [NewCall EXCEPT !.step = "lockOriginal",
                                                 !.notice = n, !.original = o]]
  /\ UNCHANGED <<owner, read, Database>>

ChargedBack(o) == Cardinality({n \in Notices : reverses[n] = o})

\* Mutant: off by one.
WithinFundingByOne(o) == ChargedBack(o) <= Funded

WithinFunding(o) == ChargedBack(o) + 1 <= Funded

\* postChargebackEntries locks the funding and derives what may still be
\* charged back under that lock.
LockOriginal(c) ==
  /\ At(c, "lockOriginal")
  /\ owner[call[c].original] = Nobody
  /\ IF WithinFunding(call[c].original)
     THEN Acquire(c, call[c].original) /\ Goto(c, "lockAccounts")
     ELSE Release(c)
  /\ UNCHANGED <<read, Database>>

LockAccounts(c) ==
  /\ At(c, "lockAccounts")
  /\ Acquire(c, Accounts)
  /\ Goto(c, IF call[c].does = "record" THEN "post" ELSE "readSiblings")
  /\ UNCHANGED <<read, Database>>

\* The rest of the transaction waits for nobody: the chargeback row (unless
\* its reference was taken meanwhile), the debit, the funding's status, the
\* freeze and the dispute row.
PostChargeback(c) ==
  LET n == call[c].notice IN
  /\ At(c, "post")
  /\ Release(c)
  /\ IF dispute[n] = "none"
     THEN /\ reverses' = [reverses EXCEPT ![n] = call[c].original]
          /\ dispute' = [dispute EXCEPT ![n] = "open"]
          /\ status' = [status EXCEPT ![call[c].original] = "disputed"]
          /\ balance' = balance - 1
          /\ frozen' = (frozen \/ balance - 1 < 0)
     ELSE UNCHANGED Database
  /\ UNCHANGED read

-----------------------------------------------------------------------------
(* resolveDispute *)

ResolveDispute(c, n, outcome) ==
  /\ At(c, "new")
  /\ dispute[n] # "none"
  /\ call' = [call EXCEPT ![c] = [NewCall EXCEPT !.step = "lockDispute",
                                                 !.does = outcome, !.notice = n,
                                                 !.original = reverses[n]]]
  /\ UNCHANGED <<owner, read, Database>>

\* Mutant: a dispute that was resolved while this call waited is resolved again.
IsOpenOrNot(n) == TRUE

IsOpen(n) == dispute[n] = "open"

\* The dispute row is locked and must still be open.
LockDispute(c) ==
  /\ At(c, "lockDispute")
  /\ owner[call[c].notice] = Nobody
  /\ IF IsOpen(call[c].notice)
     THEN /\ Acquire(c, call[c].notice)
          /\ Goto(c, IF call[c].does = "upheld" THEN "readSiblings" ELSE "lockAccounts")
     ELSE Release(c)
  /\ UNCHANGED <<read, Database>>

\* recomputeOriginalTransactionStatus: one statement finds the chargebacks of
\* the funding, the next their disputes; this call's own verdict is visible
\* to itself.
ReadSiblings(c) ==
  /\ At(c, "readSiblings")
  /\ call' = [call EXCEPT ![c].step = "readDisputes",
                          ![c].siblings = {n \in Notices : reverses[n] = call[c].original}]
  /\ UNCHANGED <<owner, read, Database>>

Aggregate(verdicts) ==
  IF "open" \in verdicts THEN "disputed"
  ELSE IF "upheld" \in verdicts THEN "reversed"
  ELSE "completed"

ReadDisputes(c) ==
  LET seen(n) == IF n = call[c].notice THEN call[c].does ELSE dispute[n] IN
  /\ At(c, "readDisputes")
  /\ call' = [call EXCEPT ![c].step = "updateOriginal",
                          ![c].aggregate = Aggregate({seen(n) : n \in call[c].siblings})]
  /\ UNCHANGED <<owner, read, Database>>

\* setTransactionStatus writes the status it computed before it held the row.
UpdateOriginal(c) ==
  /\ At(c, "updateOriginal")
  /\ Acquire(c, call[c].original)
  /\ Goto(c, "finish")
  /\ UNCHANGED <<read, Database>>

\* Mutant: only the balance decides.
UnfreezeByBalance(n) == balance + 1 >= 0

\* The balance is no longer negative and no other dispute of the user is open.
MayUnfreeze(n) ==
  balance + 1 >= 0 /\ \A m \in Notices \ {n} : dispute[m] # "open"

\* The verdict; for one in Cliqpay's favor also the credit and the unfreeze.
FinishResolution(c) ==
  LET n == call[c].notice
      favorable == call[c].does = "resolved"
  IN
  /\ At(c, "finish")
  /\ Release(c)
  /\ dispute' = [dispute EXCEPT ![n] = call[c].does]
  /\ status' = [status EXCEPT ![call[c].original] = call[c].aggregate]
  /\ balance' = IF favorable THEN balance + 1 ELSE balance
  /\ frozen' = (frozen /\ ~(favorable /\ MayUnfreeze(n)))
  /\ UNCHANGED <<reverses, read>>

-----------------------------------------------------------------------------
(* The wallet in use, failures, and the specification *)

\* The user spends it all, or is paid (postings of module Ledger, made under
\* the wallet's lock).  No wallet is followed beyond what it began with.
MaxBalance == Funded * Cardinality(Originals)
UseWallet ==
  /\ owner[Accounts] = Nobody
  /\ \/ balance > 0 /\ balance' = 0
     \/ balance < MaxBalance /\ balance' = balance + 1
  /\ UNCHANGED <<status, reverses, dispute, frozen, read, owner, call>>

-----------------------------------------------------------------------------
(* The other writer of users.is_frozen *)

Others == <<status, reverses, dispute, balance, owner, call>>

\* updateNames, changeUsername, updateProfile, confirmPendingEmail and
\* confirmPendingPhone read the user's row.  Any number of them may be under
\* way: what counts is which values of is_frozen they carry.
ReadUser ==
  /\ read' = read \cup {frozen}
  /\ UNCHANGED <<frozen, Others>>

\* Their repo.save reads the row again and updates the columns that differ, so
\* is_frozen is written exactly when that second reading differs from the
\* first.  A save whose second reading agrees writes nothing here.
SaveUser(value) ==
  /\ value \in read
  /\ frozen' = value
  /\ UNCHANGED <<read, Others>>

InTransaction(c) == call[c].step \notin {"new", "done"}

\* The process dies, or the connection does.
Crash(c) == InTransaction(c) /\ Rollback(c)

\* Two transactions that wait for each other.
Deadlocked(c) == \E d \in Calls : Blocker(c) = d /\ Blocker(d) = c

\* PostgreSQL aborts one transaction of a deadlock.
DetectDeadlock(c) == Deadlocked(c) /\ Rollback(c)

Init ==
  /\ status = [o \in Originals |-> "completed"]
  /\ reverses = [n \in Notices |-> Nobody]
  /\ dispute = [n \in Notices |-> "none"]
  /\ balance = MaxBalance
  /\ frozen = FALSE
  /\ read = {}
  /\ owner = [l \in Locks |-> Nobody]
  /\ call = [c \in Calls |-> NewCall]

CallStep(c) ==
  \/ LockOriginal(c) \/ LockAccounts(c) \/ PostChargeback(c)
  \/ LockDispute(c) \/ ReadSiblings(c) \/ ReadDisputes(c)
  \/ UpdateOriginal(c) \/ FinishResolution(c)

Next ==
  \/ \E c \in Calls, n \in Notices, o \in Originals : RecordChargeback(c, n, o)
  \/ \E c \in Calls, n \in Notices, outcome \in {"upheld", "resolved"} :
       ResolveDispute(c, n, outcome)
  \/ \E c \in Calls : CallStep(c) \/ Crash(c) \/ DetectDeadlock(c)
  \/ UseWallet
  \/ ReadUser
  \/ \E value \in BOOLEAN : SaveUser(value)

Spec == Init /\ [][Next]_vars

-----------------------------------------------------------------------------
(* Properties *)

\* The columns and each call's progress stay in their types; a funding's status
\* is never one of the dispute statuses it is computed from.
TypeOK ==
  /\ status \in [Originals -> Status]
  /\ reverses \in [Notices -> Originals \cup {Nobody}]
  /\ dispute \in [Notices -> Verdict]
  /\ balance \in Int
  /\ frozen \in BOOLEAN
  /\ read \subseteq BOOLEAN
  /\ owner \in [Locks -> Calls \cup {Nobody}]
  /\ call \in [Calls -> Call]

DisputesOf(o) == {n \in Notices : reverses[n] = o}

\* Two chargebacks recorded at once never take back more than the funding.
ChargebacksWithinFunding == \A o \in Originals : ChargedBack(o) <= Funded

\* A resolution never unfreezes while a dispute of the user is open or money is
\* owed; nothing but a resolution unfreezes, except the save of a user row that
\* was read before the freeze.
UnfreezesSafely ==
  [][frozen /\ ~frozen' => \/ balance' >= 0 /\ \A n \in Notices : dispute'[n] # "open"
                          \/ SaveUser(FALSE)]_vars

\* A verdict is final: racing resolutions of one dispute decide it once.
VerdictIsFinal ==
  [][\A n \in Notices : dispute[n] \in {"upheld", "resolved"}
                          => dispute'[n] = dispute[n]]_vars

\* disputes.service.ts: "the original transaction's status must reflect every
\* dispute against it".
StatusReflectsDisputes ==
  \A o \in Originals :
    DisputesOf(o) # {} => status[o] = Aggregate({dispute[n] : n \in DisputesOf(o)})

=============================================================================
