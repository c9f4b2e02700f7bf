----------------------------- MODULE MCDisputes -----------------------------
(***************************************************************************)
(* Disputes on small instances.  Calls, notices and fundings are           *)
(* interchangeable.                                                        *)
(***************************************************************************)
EXTENDS Disputes, TLC

CONSTANTS c1, c2, c3, c4, o1, o2, n1, n2, n3

Symmetry == Permutations(Calls) \cup Permutations(Originals) \cup Permutations(Notices)
=============================================================================
