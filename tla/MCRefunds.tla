----------------------------- MODULE MCRefunds ------------------------------
(***************************************************************************)
(* Refunds on small instances.                                             *)
(***************************************************************************)
EXTENDS Refunds

CONSTANTS k1, k2
=============================================================================
