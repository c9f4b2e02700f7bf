------------------------------ MODULE MCLedger ------------------------------
(***************************************************************************)
(* Ledger on small instances.  References are interchangeable, and so are  *)
(* wallets, so it is enough to follow the behaviours that use them in      *)
(* ascending order.                                                        *)
(***************************************************************************)
EXTENDS Ledger

\* Rows are created in the order of their references.
ReferencesInOrder ==
  \A r \in References : r > 1 /\ txns[r].type # "none" => txns[r - 1].type # "none"

\* The first row is a funding of wallet 1 (nothing else is possible on an
\* empty ledger but a funding of some wallet).
FirstWalletFirst == txns[1].recipient \in {Null, 1}

InOrder == ReferencesInOrder /\ FirstWalletFirst
=============================================================================
