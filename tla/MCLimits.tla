------------------------------ MODULE MCLimits ------------------------------
(***************************************************************************)
(* Users 1 and 3 share a lock key, so that 1 -> 2 and 2 -> 3 contend for   *)
(* the same two keys; the pair of 1 and 3 has the key of user 2, so that   *)
(* 1 -> 3 and 1 -> 2 can deadlock.  User 3 is of a tier without a cap.     *)
(***************************************************************************)
EXTENDS Limits

Request(k, s, t, a) == [kind |-> k, from |-> s, to |-> t, amount |-> a]
MCRequests == {Request("fund", Nobody, 2, 1), Request("withdrawal", 2, Nobody, 1),
               Request("transfer", 1, 2, 1), Request("transfer", 1, 2, 2),
               Request("transfer", 2, 3, 1), Request("transfer", 1, 3, 1)}
MCHash == <<1, 2, 1>>
MCPairHash == <<<<0, 3, 2>>, <<0, 0, 4>>, <<0, 0, 0>>>>
MCCap == <<3, 3, Null>>
MCDailyLimit == <<2, 1, 0>>
MCStartBalance == <<2, 2, 0>>
=============================================================================
