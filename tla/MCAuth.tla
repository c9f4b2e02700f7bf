------------------------------- MODULE MCAuth -------------------------------
(***************************************************************************)
(* The operations of sessions and MFA together, and those that change an   *)
(* account together.  A phone is changed and verified by the definitions   *)
(* that change and verify an email.                                        *)
(***************************************************************************)
EXTENDS Auth, TLC

SessionOps == {"login", "verifyMfa", "refresh", "logout", "changePassword", "enrollTotp",
               "confirmTotp", "stepUp"}
AccountOps == {"changeEmail", "confirmEmail", "verifyEmail", "resendEmail",
               "requestReset", "completeReset", "setPin", "changePin", "resetPin", "verifyPin",
               "updateProfile", "saveBankAccount"}
WorkerSymmetry == Permutations(Workers)
MCOpSets == {SessionOps, AccountOps}

\* Session operations read no PIN, no address and few times; account
\* operations only whether TOTP is active.
Relevant ==
  IF offered = SessionOps
  THEN now <= 1 /\ \A u \in Users : credential[u].pin = 0
  ELSE \A u \in Users : totp[u].status = "none"
=============================================================================
