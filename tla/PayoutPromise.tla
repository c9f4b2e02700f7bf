--------------------------- MODULE PayoutPromise ----------------------------
(***************************************************************************)
(* What a withdrawal promises its user: the money leaves the wallet once,  *)
(* and then either arrives at the bank or comes back, never both and never *)
(* twice.  How requests, retries, webhooks, polls and crashes share the    *)
(* work is the business of module Withdrawals, which implements this one.  *)
(***************************************************************************)
CONSTANT References

VARIABLE money

Place == {"wallet", "transit", "bank", "returned"}

Init == money = [r \in References |-> "wallet"]

Debit(r) == /\ money[r] = "wallet"
            /\ money' = [money EXCEPT ![r] = "transit"]

Arrive(r) == /\ money[r] = "transit"
             /\ money' = [money EXCEPT ![r] = "bank"]

Return(r) == /\ money[r] = "transit"
             /\ money' = [money EXCEPT ![r] = "returned"]

Next == \E r \in References : Debit(r) \/ Arrive(r) \/ Return(r)

Spec == Init /\ [][Next]_money
=============================================================================
