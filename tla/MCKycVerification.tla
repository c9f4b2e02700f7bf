------------------------- MODULE MCKycVerification --------------------------
(***************************************************************************)
(* Two BVNs of different people, a NIN that matches the first through an   *)
(* initial and without a date of birth, and a NIN nobody has.              *)
(***************************************************************************)
EXTENDS KycVerification

MCTypeOf == [n \in Numbers |-> IF n \in {"b1", "b2"} THEN "bvn" ELSE "nin"]
MCRegistry ==
  [n \in Numbers |->
     CASE n = "b1" -> [name |-> <<"ada", "i", "obi">>, dob |-> "d1"]
       [] n = "b2" -> [name |-> <<"ibe", "eze">>, dob |-> "d2"]
       [] n = "n1" -> [name |-> <<"ada", "obi", "ibe">>, dob |-> Unknown]
       [] OTHER    -> NotFound]
MCInitialOf ==
  [t \in {"ada", "obi", "ibe", "eze", "i"} |->
     CASE t = "ada" -> "a" [] t = "obi" -> "o" [] t = "eze" -> "e" [] OTHER -> "i"]
MCEarlierMisses == [type \in {"bvn", "nin"} |-> IF type = "nin" THEN 1 ELSE 0]

\* Users differ only in who edits the profile: the first call is taken to be
\* u1's, the editor's if there is one.
FirstCallByU1 == call[1].user \in {None, "u1"}
=============================================================================
