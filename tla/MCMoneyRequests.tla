-------------------------- MODULE MCMoneyRequests ---------------------------
(***************************************************************************)
(* MoneyRequests on small instances.  Calls, requests and references are   *)
(* interchangeable.                                                        *)
(***************************************************************************)
EXTENDS MoneyRequests, TLC

CONSTANTS c1, c2, c3, c4, m1, m2, ref1, ref2

Symmetry ==
  Permutations(Calls) \cup Permutations(Requests) \cup Permutations(References)
=============================================================================
