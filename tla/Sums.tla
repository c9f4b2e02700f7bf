-------------------------------- MODULE Sums --------------------------------
(***************************************************************************)
(* The sum of a sequence of integers indexed 1..n, as SQL's                *)
(* COALESCE(SUM(...), 0) computes it: zero over no rows.  Written as a     *)
(* recursive function so that TLC evaluates it and TLAPS can reason about  *)
(* it (see SumTheorems).                                                   *)
(***************************************************************************)
EXTENDS Integers

SumUpTo(f, n) ==
  LET S[i \in 0..n] == IF i = 0 THEN 0 ELSE S[i - 1] + f[i]
  IN  S[n]
=============================================================================
