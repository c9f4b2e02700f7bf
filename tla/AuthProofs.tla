----------------------------- MODULE AuthProofs -----------------------------
(***************************************************************************)
(* The safety properties of Auth, for every number of users, requests and  *)
(* workers.  A request saves a row it read some steps earlier, so what the *)
(* tables owe to answered challenges and consumed codes is also said of    *)
(* the row every request carries: each column that a save leaves is either *)
(* the carried row's or the table's, whatever the save read in between.    *)
(***************************************************************************)
EXTENDS Auth, SequenceTheorems, TLAPS

-----------------------------------------------------------------------------
(* The inductive invariant: requests under way *)

ChallengeSteps == {"readChallenge", "saveChallenge"}
CodeSteps == {"readCode", "saveCode"}
ConfirmOps == {"confirmEmail", "confirmPhone"}
AnonymousOps == {"verifyMfa", "refresh", "logout", "verifyEmail", "verifyPhone", "completeReset"}

\* The steps each operation takes.
Routes ==
  ({"login"} \X {"readLogin", "savePassword", "findDevice", "createSession", "createChallenge"})
  \cup ({"stepUp"} \X {"createChallenge"})
  \cup ((StepUpOps \cup {"verifyMfa"}) \X ChallengeSteps)
  \cup ({"verifyMfa"} \X {"issueDevice"})
  \cup ({"changePassword"} \X {"readPassword", "changePassword", "revokeSessions"})
  \cup ({"enrollTotp"} \X {"readMethod", "saveMethod"})
  \cup ({"confirmTotp"} \X {"readTotp", "saveTotp"})
  \cup ({"setPin", "resetPin"} \X {"readCredential", "savePin"})
  \cup ({"changePin"} \X {"readPin", "checkPin", "savePin"})
  \cup ({"verifyPin"} \X {"readPin", "checkPin"})
  \cup ({"saveBankAccount"} \X {"saveBank"})
  \cup ({"refresh", "logout"} \X {"readSession", "rotate", "revoke"})
  \cup ({"changeEmail", "changePhone"} \X {"checkSends", "setPending", "issueCode"})
  \cup ({"requestReset", "resendEmail", "resendPhone"} \X {"checkSends", "issueCode"})
  \cup ((ConfirmOps \cup {"verifyEmail", "verifyPhone", "completeReset"}) \X CodeSteps)
  \cup ({"verifyEmail", "verifyPhone"} \X {"markVerified"})
  \cup ({"completeReset"} \X {"resetPassword", "revokeSessions"})
  \cup (ConfirmOps \X {"readProfile", "saveProfile", "revokeSessions"})
  \cup ({"updateProfile"} \X {"readProfile", "saveProfile"})

Profile == [Purposes -> Contact]
Row == {Idle} \cup Credential \cup MfaMethod \cup MfaChallenge \cup Session
         \cup VerificationCode \cup Profile
Steps == {r[2] : r \in Routes}
JobRecord == [op : {r[1] : r \in Routes}, user : 0..NumUsers, id : Nat \cup CodeValues,
              pc : Steps, row : Row, base : Row, at : Nat]

JobTyped(j) ==
  /\ j \in JobRecord
  /\ <<j.op, j.pc>> \in Routes
  /\ j.op \notin AnonymousOps \/ j.pc \in {"markVerified", "resetPassword", "revokeSessions"}
       => j.user \in Users

-----------------------------------------------------------------------------
(* What was answered or consumed for what stands in a row *)

PasswordProven(u, how) ==
  \/ how = Registered
  \/ how[1] = "challenge" /\ Own(u, how[2])
  \/ how[1] = "code" /\ how[2] \in DOMAIN codes /\ UsedCode(u, how[2], "password")

CredentialProven(u, row) ==
  PasswordProven(u, row.password) /\ (row.pin # 0 => Own(u, row.pin))

ContactProven(u, p, contact) ==
  /\ contact.live.to # u =>
       Own(u, contact.live.by) /\ \E k \in DOMAIN codes : UsedCode(u, k, p)
  /\ contact.pending # NoAddress => Own(u, contact.pending.by)

ProfileProven(u, row) == \A p \in Purposes : ContactProven(u, p, row[p])

\* The row a request carries is of the type its next step saves, and as proven
\* as the one it was read from.
CarriesCredential(j) ==
  j.pc \in {"savePassword", "changePassword", "savePin", "checkPin"} =>
    j.row \in Credential /\ CredentialProven(j.user, j.row)

CarriesTotp(j) ==
  j.pc = "saveTotp" => j.row \in MfaMethod

CarriesChallenge(j) ==
  /\ j.pc = "readChallenge" => j.id \in DOMAIN challenges
  /\ j.pc \in {"saveChallenge", "issueDevice"} =>
       /\ j.row \in MfaChallenge /\ j.id \in DOMAIN challenges
       /\ challenges[j.id].user = j.row.user

CarriesSession(j) ==
  j.pc \in {"rotate", "revoke"} =>
    /\ j.row \in Session /\ j.id \in DOMAIN sessions
    /\ sessions[j.id].user = j.row.user /\ sessions[j.id].device = j.row.device

\* A code is never unused again, so a save that read it again as used leaves it so.
CarriesCode(j) ==
  (j.pc = "readCode" => j.base = Idle) /\
  (j.pc = "saveCode" =>
    /\ j.row \in VerificationCode /\ j.id \in DOMAIN codes
    /\ codes[j.id].user = j.row.user
    /\ codes[j.id].purpose = PurposeOf(j.op) /\ j.row.purpose = PurposeOf(j.op)
    /\ j.base = Idle \/ (j.base \in VerificationCode /\ (j.base.used => codes[j.id].used)))

CarriesProfile(j) ==
  j.pc = "saveProfile" =>
    /\ j.row \in Profile /\ ProfileProven(j.user, j.row)
    /\ j.op \in ConfirmOps => j.row[PurposeOf(j.op)].pending # NoAddress

\* What a request has shown before it goes on.
JobProven(j) ==
  /\ j.op = "login" => j.id = 0 \/ j.id \in DOMAIN devices
  /\ j.pc = "createSession" => j.id \in DOMAIN devices /\ devices[j.id].user = j.user
  /\ j.pc = "issueDevice" => j.id \in passed
  /\ j.op \in StepUpOps /\ j.pc \notin ChallengeSteps => Own(j.user, j.id)
  /\ j.op \in ConfirmOps \cup {"completeReset"} /\ j.pc \notin CodeSteps =>
       j.id \in DOMAIN codes /\ UsedCode(j.user, j.id, PurposeOf(j.op))

JobTrue(j) ==
  \/ j = Idle
  \/ /\ JobTyped(j)
     /\ CarriesCredential(j) /\ CarriesTotp(j) /\ CarriesChallenge(j)
     /\ CarriesSession(j) /\ CarriesCode(j) /\ CarriesProfile(j)
     /\ JobProven(j)

JobsTrue ==
  job = [w \in Workers |-> job[w]] /\ \A w \in Workers : JobTrue(job[w])

-----------------------------------------------------------------------------
(* The tables *)

DevicesEarned ==
  \A d \in DOMAIN devices : Own(devices[d].user, devices[d].challenge)

AccountsProven ==
  /\ \A u \in Users : CredentialProven(u, credential[u]) /\ ProfileProven(u, profile[u])
  /\ \A account \in banks : Own(account.user, account.by)

Inv ==
  /\ TypeOK
  /\ JobsTrue
  /\ DevicesEarned
  /\ SessionsEarned
  /\ AccountsProven

-----------------------------------------------------------------------------
(* No step takes back what a request has seen *)

Grows ==
  /\ passed \subseteq passed'
  /\ \A c \in DOMAIN challenges :
       c \in DOMAIN challenges' /\ challenges'[c].user = challenges[c].user
  /\ \A d \in DOMAIN devices : d \in DOMAIN devices' /\ devices'[d] = devices[d]
  /\ \A s \in DOMAIN sessions :
       /\ s \in DOMAIN sessions'
       /\ sessions'[s].user = sessions[s].user /\ sessions'[s].device = sessions[s].device
  /\ \A k \in DOMAIN codes :
       /\ k \in DOMAIN codes'
       /\ codes'[k].user = codes[k].user /\ codes'[k].purpose = codes[k].purpose
       /\ codes[k].used => codes'[k].used

LEMMA OwnKept ==
  ASSUME TypeOK, Grows
  PROVE  \A u, c : Own(u, c) => c \in passed' /\ challenges'[c].user = u
BY DEF TypeOK, Grows, Own

LEMMA JobKept ==
  ASSUME TypeOK, Grows, NEW v \in Workers, JobTrue(job[v]), job'[v] = job[v]
  PROVE  JobTrue(job[v])'
<1> DEFINE j == job[v]
<1>1. CASE j = Idle
  BY <1>1 DEF JobTrue
<1>2. CASE j # Idle
  <2>1. /\ JobTyped(j) /\ CarriesCredential(j) /\ CarriesTotp(j) /\ CarriesChallenge(j)
        /\ CarriesSession(j) /\ CarriesCode(j) /\ CarriesProfile(j) /\ JobProven(j)
    BY <1>2 DEF JobTrue
  <2>2. JobTyped(job[v])'
    BY <2>1 DEF JobTyped
  <2>3. CarriesCredential(job[v])'
    BY <2>1, OwnKept DEF CarriesCredential, CredentialProven, PasswordProven, Own, UsedCode, Grows
  <2>4. CarriesTotp(job[v])' /\ CarriesChallenge(job[v])'
    BY <2>1 DEF CarriesTotp, CarriesChallenge, Grows
  <2>5. CarriesSession(job[v])' /\ CarriesCode(job[v])'
    BY <2>1 DEF CarriesSession, CarriesCode, Grows
  <2>6. CarriesProfile(job[v])'
    BY <2>1, OwnKept DEF CarriesProfile, ProfileProven, ContactProven, Own, UsedCode, Grows
  <2>7. JobProven(job[v])'
    BY <2>1, OwnKept DEF JobProven, Own, UsedCode, Grows
  <2> QED
    BY <2>2, <2>3, <2>4, <2>5, <2>6, <2>7 DEF JobTrue
<1> QED
  BY <1>1, <1>2

LEMMA OneWorker ==
  ASSUME TypeOK, JobsTrue, Grows, NEW w \in Workers,
         job' = [job EXCEPT ![w] = job'[w]], JobTrue(job[w])'
  PROVE  JobsTrue'
<1>1. job' = [v \in Workers |-> job'[v]] /\ \A v \in Workers \ {w} : job'[v] = job[v]
  BY DEF JobsTrue
<1>2. ASSUME NEW v \in Workers
      PROVE  JobTrue(job[v])'
  <2>1. CASE v = w
    BY <2>1
  <2>2. CASE v # w
    BY <1>1, <2>2, JobKept DEF JobsTrue
  <2> QED
    BY <2>1, <2>2
<1> QED
  BY <1>1, <1>2 DEF JobsTrue

-----------------------------------------------------------------------------
(* The steps of a request *)

LEMMA Working ==
  ASSUME JobsTrue, NEW w \in Workers, job[w].pc # "idle"
  PROVE  /\ job[w] \in JobRecord /\ <<Op(w), job[w].pc>> \in Routes
         /\ JobTyped(job[w]) /\ CarriesCredential(job[w]) /\ CarriesTotp(job[w])
         /\ CarriesChallenge(job[w]) /\ CarriesSession(job[w]) /\ CarriesCode(job[w])
         /\ CarriesProfile(job[w]) /\ JobProven(job[w])
         /\ job = [v \in Workers |-> job[v]]
<1>1. job[w] # Idle /\ JobTrue(job[w])
  BY DEF JobsTrue, Idle
<1> QED
  BY <1>1 DEF JobsTrue, JobTrue, JobTyped, Op

\* Which operations take a step.
LEMMA OpAt ==
  ASSUME NEW op, NEW pc, <<op, pc>> \in Routes
  PROVE  /\ pc \in {"readLogin", "savePassword", "findDevice", "createSession"} => op = "login"
         /\ pc = "createChallenge" => op \in {"login", "stepUp"}
         /\ pc \in ChallengeSteps => op \in StepUpOps \cup {"verifyMfa"}
         /\ pc = "issueDevice" => op = "verifyMfa"
         /\ pc \in {"readPassword", "changePassword"} => op = "changePassword"
         /\ pc \in {"readMethod", "saveMethod"} => op = "enrollTotp"
         /\ pc \in {"readTotp", "saveTotp"} => op = "confirmTotp"
         /\ pc = "readCredential" => op \in {"setPin", "resetPin"}
         /\ pc = "savePin" => op \in {"setPin", "resetPin", "changePin"}
         /\ pc \in {"readPin", "checkPin"} => op \in {"changePin", "verifyPin"}
         /\ pc = "saveBank" => op = "saveBankAccount"
         /\ pc \in {"readSession", "rotate", "revoke"} => op \in {"refresh", "logout"}
         /\ pc = "setPending" => op \in {"changeEmail", "changePhone"}
         /\ pc \in {"checkSends", "issueCode"} =>
              op \in {"changeEmail", "changePhone", "requestReset", "resendEmail", "resendPhone"}
         /\ pc \in CodeSteps =>
              op \in ConfirmOps \cup {"verifyEmail", "verifyPhone", "completeReset"}
         /\ pc = "markVerified" => op \in {"verifyEmail", "verifyPhone"}
         /\ pc = "resetPassword" => op = "completeReset"
         /\ pc \in {"readProfile", "saveProfile"} => op \in ConfirmOps \cup {"updateProfile"}
         /\ pc = "revokeSessions" => op \in ConfirmOps \cup {"changePassword", "completeReset"}
BY DEF Routes, ChallengeSteps, CodeSteps, ConfirmOps, StepUpOps

LEMMA Ended ==
  ASSUME JobsTrue, NEW w \in Workers, End(w)
  PROVE  job'[w] = Idle /\ job' = [job EXCEPT ![w] = job'[w]] /\ JobTrue(job[w])'
BY DEF JobsTrue, End, JobTrue

LEMMA Gone ==
  ASSUME JobsTrue, NEW w \in Workers, job[w].pc # "idle", NEW label \in Steps, Goto(w, label)
  PROVE  /\ job'[w] \in JobRecord /\ job' = [job EXCEPT ![w] = job'[w]]
         /\ job'[w].pc = label /\ job'[w].op = job[w].op /\ job'[w].user = job[w].user
         /\ job'[w].id = job[w].id /\ job'[w].row = job[w].row
<1>1. job[w] \in JobRecord /\ job = [v \in Workers |-> job[v]]
  BY Working
<1>2. job' = [job EXCEPT ![w] = [job[w] EXCEPT !.pc = label]]
  BY DEF Goto
<1>3. job'[w] = [job[w] EXCEPT !.pc = label] /\ job' = [job EXCEPT ![w] = job'[w]]
  BY <1>1, <1>2
<1> QED
  BY <1>1, <1>3 DEF JobRecord

LEMMA Carried ==
  ASSUME TypeOK, JobsTrue, NEW w \in Workers, job[w].pc # "idle", NEW label \in Steps,
         NEW row \in Row, Carry(w, label, row)
  PROVE  /\ job'[w] \in JobRecord /\ job' = [job EXCEPT ![w] = job'[w]]
         /\ job'[w].pc = label /\ job'[w].op = job[w].op /\ job'[w].user = job[w].user
         /\ job'[w].id = job[w].id /\ job'[w].row = row
<1>0. now \in Nat
  BY DEF TypeOK
<1>1. job[w] \in JobRecord /\ job = [v \in Workers |-> job[v]] /\ now \in Nat
  BY <1>0, Working
<1>2. job' = [job EXCEPT ![w] = [job[w] EXCEPT !.pc = label, !.row = row, !.base = Idle, !.at = now]]
  BY <1>1 DEF Carry, JobRecord
<1>3. /\ job'[w] = [job[w] EXCEPT !.pc = label, !.row = row, !.base = Idle, !.at = now]
      /\ job' = [job EXCEPT ![w] = job'[w]]
  BY <1>1, <1>2
<1>4. Idle \in Row
  BY DEF Row
<1> QED
  BY <1>1, <1>3, <1>4 DEF JobRecord

\* A request goes on with what it has shown; the steps that show something new
\* are left out.
LEMMA Advance ==
  ASSUME TypeOK, JobsTrue, Grows, NEW w \in Workers, job[w].pc # "idle",
         job[w].pc \notin ChallengeSteps \cup CodeSteps,
         job'[w] \in JobRecord, job'[w].op = job[w].op, job'[w].user = job[w].user,
         job'[w].id = job[w].id, <<job[w].op, job'[w].pc>> \in Routes,
         job'[w].pc \notin ChallengeSteps \cup
           {"createSession", "issueDevice", "rotate", "revoke", "readCode", "saveCode"},
         job'[w].pc \in {"markVerified", "resetPassword", "revokeSessions"} =>
           job[w].user \in Users,
         CarriesCredential(job[w])', CarriesTotp(job[w])', CarriesProfile(job[w])'
  PROVE  JobTrue(job[w])'
<1>1. JobTyped(job[w]) /\ JobProven(job[w])
  BY Working
<1>2. JobTyped(job[w])'
  BY <1>1 DEF JobTyped
<1>3. CarriesChallenge(job[w])' /\ CarriesSession(job[w])' /\ CarriesCode(job[w])'
  BY DEF CarriesChallenge, CarriesSession, CarriesCode, ChallengeSteps
<1>4. JobProven(job[w])'
  BY <1>1, OwnKept DEF JobProven, Own, UsedCode, Grows
<1> QED
  BY <1>2, <1>3, <1>4 DEF JobTrue

\* A step that changes no table, and what it owes.
LEMMA ReadsGrow ==
  ASSUME UNCHANGED <<rows, passed>>
  PROVE  Grows
BY DEF rows, Grows

LEMMA Tables ==
  ASSUME TypeOK
  PROVE  /\ \A u \in Users : credential[u] \in Credential /\ totp[u] \in MfaMethod
                             /\ profile[u] \in Profile
         /\ Len(challenges) \in Nat /\ DOMAIN challenges = 1..Len(challenges)
         /\ \A c \in DOMAIN challenges : challenges[c] \in MfaChallenge
         /\ Len(devices) \in Nat /\ DOMAIN devices = 1..Len(devices)
         /\ \A d \in DOMAIN devices : devices[d] \in TrustedDevice
         /\ Len(sessions) \in Nat /\ DOMAIN sessions = 1..Len(sessions)
         /\ \A s \in DOMAIN sessions : sessions[s] \in Session
         /\ Len(codes) \in Nat /\ DOMAIN codes = 1..Len(codes)
         /\ \A k \in DOMAIN codes : codes[k] \in VerificationCode
<1>1. /\ challenges \in Seq(MfaChallenge) /\ devices \in Seq(TrustedDevice)
      /\ sessions \in Seq(Session) /\ codes \in Seq(VerificationCode)
  BY DEF TypeOK
<1>2. Len(challenges) \in Nat /\ challenges \in [1..Len(challenges) -> MfaChallenge]
  BY <1>1, LenProperties
<1>3. Len(devices) \in Nat /\ devices \in [1..Len(devices) -> TrustedDevice]
  BY <1>1, LenProperties
<1>4. Len(sessions) \in Nat /\ sessions \in [1..Len(sessions) -> Session]
  BY <1>1, LenProperties
<1>5. Len(codes) \in Nat /\ codes \in [1..Len(codes) -> VerificationCode]
  BY <1>1, LenProperties
<1>6. \A u \in Users : credential[u] \in Credential /\ totp[u] \in MfaMethod
                       /\ profile[u] \in Profile
  BY DEF TypeOK, Profile
<1> QED
  BY <1>2, <1>3, <1>4, <1>5, <1>6

\* All but the steps of those who have not signed in yet are for a user.
LEMMA Signed ==
  ASSUME JobsTrue, NEW w \in Workers, job[w].pc # "idle",
         job[w].pc \notin ChallengeSteps \cup CodeSteps
           \cup {"issueDevice", "readSession", "rotate", "revoke"}
  PROVE  User(w) \in Users
<1>1. JobTyped(job[w]) /\ <<job[w].op, job[w].pc>> \in Routes
  BY Working DEF JobTyped
<1>2. job[w].op \in AnonymousOps => job[w].pc \in {"markVerified", "resetPassword", "revokeSessions"}
  BY <1>1 DEF Routes, AnonymousOps, ChallengeSteps, CodeSteps, ConfirmOps, StepUpOps
<1> QED
  BY <1>1, <1>2 DEF JobTyped, User

LEMMA OpNow ==
  ASSUME JobsTrue, NEW w \in Workers, job[w].pc # "idle"
  PROVE  <<Op(w), job[w].pc>> \in Routes
BY Working

LEMMA CarryProven ==
  ASSUME TypeOK, JobsTrue, Grows, NEW w \in Workers, job[w].pc # "idle",
         job[w].pc \notin ChallengeSteps \cup CodeSteps,
         NEW label \in {"savePassword", "changePassword", "savePin", "checkPin"},
         <<Op(w), label>> \in Routes,
         NEW row \in Credential, CredentialProven(User(w), row), Carry(w, label, row)
  PROVE  JobTrue(job[w])' /\ job' = [job EXCEPT ![w] = job'[w]] /\ job'[w].pc = label
<1>0. label \in Steps
  BY DEF Steps
<1>1. row \in Row
  BY DEF Row
<1>3. /\ job'[w] \in JobRecord /\ job' = [job EXCEPT ![w] = job'[w]]
      /\ job'[w].pc = label /\ job'[w].op = job[w].op /\ job'[w].user = job[w].user
      /\ job'[w].id = job[w].id /\ job'[w].row = row
  BY <1>0, <1>1, Carried
<1>5. CarriesCredential(job[w])'
  <2>1. PasswordProven(User(w), row.password) /\ (row.pin # 0 => Own(User(w), row.pin))
    BY DEF CredentialProven
  <2>2. PasswordProven(job[w].user, job[w].row.password)'
    <3> DEFINE how == row.password
    <3>1. job'[w].row.password = how /\ job'[w].user = User(w)
      BY <1>3 DEF User
    <3>2. CASE how = Registered
      BY <3>1, <3>2 DEF PasswordProven
    <3>3. CASE how[1] = "challenge" /\ Own(User(w), how[2])
      BY <3>1, <3>3, OwnKept DEF PasswordProven, Own
    <3>4. CASE how[1] = "code" /\ how[2] \in DOMAIN codes /\ UsedCode(User(w), how[2], "password")
      BY <3>1, <3>4 DEF PasswordProven, UsedCode, Grows
    <3> QED
      BY <2>1, <3>2, <3>3, <3>4 DEF PasswordProven
  <2>3. (job[w].row.pin # 0 => Own(job[w].user, job[w].row.pin))'
    BY <1>3, <2>1, OwnKept DEF Own, User
  <2> QED
    BY <1>3, <2>2, <2>3 DEF CarriesCredential, CredentialProven
<1>6. CarriesTotp(job[w])' /\ CarriesProfile(job[w])'
  BY <1>3 DEF CarriesTotp, CarriesProfile
<1> QED
  BY <1>3, <1>5, <1>6, Advance DEF ChallengeSteps, Op

\* A credential read from the table is as proven as the table's.
LEMMA CarryCredential ==
  ASSUME Inv, Grows, NEW w \in Workers, job[w].pc # "idle",
         job[w].pc \notin ChallengeSteps \cup CodeSteps, User(w) \in Users,
         NEW label \in {"savePassword", "changePassword", "savePin", "checkPin"},
         <<Op(w), label>> \in Routes,
         NEW row \in Credential, row.password = credential[User(w)].password,
         row.pin = credential[User(w)].pin, Carry(w, label, row)
  PROVE  JobTrue(job[w])' /\ job' = [job EXCEPT ![w] = job'[w]] /\ job'[w].pc = label
<1>1. CredentialProven(User(w), row)
  BY DEF Inv, AccountsProven, CredentialProven
<1> QED
  BY <1>1, CarryProven DEF Inv

\* A request that goes on and carries nothing it will save.
LEMMA GotoStep ==
  ASSUME TypeOK, JobsTrue, Grows, NEW w \in Workers, job[w].pc # "idle",
         job[w].pc \notin ChallengeSteps \cup CodeSteps,
         NEW label \in {"findDevice", "createChallenge", "revokeSessions", "issueCode", "setPending"},
         <<Op(w), label>> \in Routes, label = "revokeSessions" => User(w) \in Users,
         Goto(w, label)
  PROVE  JobTrue(job[w])' /\ job' = [job EXCEPT ![w] = job'[w]] /\ job'[w].pc = label
<1>0. label \in Steps
  BY DEF Steps
<1>1. /\ job'[w] \in JobRecord /\ job' = [job EXCEPT ![w] = job'[w]]
      /\ job'[w].pc = label /\ job'[w].op = job[w].op /\ job'[w].user = job[w].user
      /\ job'[w].id = job[w].id
  BY <1>0, Gone
<1>2. CarriesCredential(job[w])' /\ CarriesTotp(job[w])' /\ CarriesProfile(job[w])'
  BY <1>1 DEF CarriesCredential, CarriesTotp, CarriesProfile
<1> QED
  BY <1>1, <1>2, Advance DEF ChallengeSteps, Op, User

-----------------------------------------------------------------------------
(* The steps that only read *)

\* What a step of a request leaves of it.
Moves(w) == job' = [job EXCEPT ![w] = job'[w]] /\ JobTrue(job[w])'

LEMMA EndMoves ==
  ASSUME JobsTrue, NEW w \in Workers, End(w)
  PROVE  Moves(w)
BY Ended DEF Moves

\* save reads again the row it is about to write.
LEMMA StoredRow ==
  ASSUME TypeOK, JobsTrue, NEW w \in Workers, job[w].pc \in Saves
  PROVE  Stored(w) \in Row
<1>1. /\ job[w].pc # "idle" /\ CarriesChallenge(job[w]) /\ CarriesSession(job[w])
      /\ CarriesCode(job[w])
  BY Working DEF Saves, CredentialSaves, TotpSaves, SessionSaves
<1>2. CASE job[w].pc \in CredentialSaves \cup TotpSaves \cup {"saveProfile"}
  <2>1. User(w) \in Users
    BY <1>1, <1>2, Signed DEF CredentialSaves, TotpSaves, ChallengeSteps, CodeSteps
  <2>2. credential[User(w)] \in Credential /\ totp[User(w)] \in MfaMethod
        /\ profile[User(w)] \in Profile
    BY <2>1, Tables
  <2> QED
    BY <1>2, <2>2 DEF Stored, Row, CredentialSaves, TotpSaves, SessionSaves
<1>3. CASE job[w].pc \in SessionSaves
  <2>1. sessions[job[w].id] \in Session
    BY <1>1, <1>3, Tables DEF SessionSaves, CarriesSession
  <2> QED
    BY <1>3, <2>1 DEF Stored, Row, CredentialSaves, TotpSaves, SessionSaves
<1>4. CASE job[w].pc = "saveChallenge"
  <2>1. challenges[job[w].id] \in MfaChallenge
    BY <1>1, <1>4, Tables DEF CarriesChallenge
  <2> QED
    BY <1>4, <2>1 DEF Stored, Row, CredentialSaves, TotpSaves, SessionSaves
<1>5. CASE job[w].pc = "saveCode"
  <2>1. codes[job[w].id] \in VerificationCode
    BY <1>1, <1>5, Tables DEF CarriesCode
  <2> QED
    BY <1>5, <2>1 DEF Stored, Row, CredentialSaves, TotpSaves, SessionSaves
<1> QED
  BY <1>2, <1>3, <1>4, <1>5 DEF Saves

LEMMA ReloadStep ==
  ASSUME Inv, NEW w \in Workers, Reload(w)
  PROVE  Moves(w)
<1>1. /\ job[w].pc \in Saves /\ job' = [job EXCEPT ![w].base = Stored(w)]
      /\ UNCHANGED <<rows, history>>
  BY DEF Reload
<1>2. TypeOK /\ JobsTrue /\ job[w].pc # "idle" /\ Grows
  BY <1>1, ReadsGrow DEF Inv, Saves, CredentialSaves, TotpSaves, SessionSaves, history
<1>3. /\ job[w] \in JobRecord /\ job = [v \in Workers |-> job[v]]
      /\ JobTyped(job[w]) /\ CarriesCredential(job[w]) /\ CarriesTotp(job[w])
      /\ CarriesChallenge(job[w]) /\ CarriesSession(job[w]) /\ CarriesCode(job[w])
      /\ CarriesProfile(job[w]) /\ JobProven(job[w])
  BY <1>2, Working
<1>4. job'[w] = [job[w] EXCEPT !.base = Stored(w)] /\ job' = [job EXCEPT ![w] = job'[w]]
  BY <1>1, <1>3
<1>5. /\ job'[w] \in JobRecord /\ job'[w].pc = job[w].pc /\ job'[w].op = job[w].op
      /\ job'[w].user = job[w].user /\ job'[w].id = job[w].id /\ job'[w].row = job[w].row
  <2>1. Stored(w) \in Row
    BY <1>1, <1>2, StoredRow
  <2> QED
    BY <1>3, <1>4, <2>1 DEF JobRecord
<1>6. JobTyped(job[w])'
  BY <1>3, <1>5 DEF JobTyped
<1>7. CarriesCredential(job[w])'
  BY <1>2, <1>3, <1>5, OwnKept
     DEF CarriesCredential, CredentialProven, PasswordProven, Own, UsedCode, Grows
<1>8. CarriesTotp(job[w])' /\ CarriesChallenge(job[w])' /\ CarriesSession(job[w])'
  BY <1>2, <1>3, <1>5 DEF CarriesTotp, CarriesChallenge, CarriesSession, Grows
<1>9. CarriesCode(job[w])'
  <2>1. CASE job[w].pc = "saveCode"
    <3>1. job'[w].base = codes[job[w].id]
      BY <1>3, <1>4, <2>1 DEF JobRecord, Stored, CredentialSaves, TotpSaves, SessionSaves
    <3>2. codes[job[w].id] \in VerificationCode
      BY <1>2, <1>3, <2>1, Tables DEF CarriesCode
    <3> QED
      BY <1>1, <1>3, <1>5, <2>1, <3>1, <3>2 DEF CarriesCode, rows
  <2>2. CASE job[w].pc # "saveCode"
    BY <1>1, <1>5, <2>2 DEF CarriesCode, Saves, CredentialSaves, TotpSaves, SessionSaves
  <2> QED
    BY <2>1, <2>2
<1>10. CarriesProfile(job[w])'
  BY <1>2, <1>3, <1>5, OwnKept DEF CarriesProfile, ProfileProven, ContactProven, Own, UsedCode, Grows
<1>11. JobProven(job[w])'
  BY <1>2, <1>3, <1>5, OwnKept DEF JobProven, Own, UsedCode, Grows
<1> QED
  BY <1>4, <1>6, <1>7, <1>8, <1>9, <1>10, <1>11 DEF Moves, JobTrue

LEMMA ReadLoginStep ==
  ASSUME Inv, NEW w \in Workers, ReadLogin(w)
  PROVE  Moves(w)
<1> DEFINE row == credential[User(w)]
<1>1. /\ job[w].pc = "readLogin" /\ Grows
      /\ End(w) \/ Carry(w, "savePassword", Unlocked(row))
  BY ReadsGrow DEF ReadLogin, At, history
<1>2. TypeOK /\ JobsTrue
  BY DEF Inv
<1>3. Op(w) = "login" /\ User(w) \in Users
  <2>1. <<Op(w), job[w].pc>> \in Routes
    BY <1>1, <1>2, OpNow
  <2>2. Op(w) = "login"
    BY <1>1, <2>1, OpAt
  <2> QED
    BY <1>1, <1>2, <2>2, Signed DEF ChallengeSteps, CodeSteps
<1>4. row \in Credential
  BY <1>2, <1>3, Tables
<1>5. Unlocked(row) \in Credential /\ Unlocked(row).password = row.password
      /\ Unlocked(row).pin = row.pin
  BY <1>4 DEF Unlocked, Credential
<1>6. <<Op(w), "savePassword">> \in Routes
  BY <1>3 DEF Routes
<1>7. CASE Carry(w, "savePassword", Unlocked(row))
  BY <1>1, <1>3, <1>5, <1>6, <1>7, CarryCredential DEF Moves, ChallengeSteps, CodeSteps
<1> QED
  BY <1>1, <1>2, <1>7, EndMoves

LEMMA FindDeviceStep ==
  ASSUME Inv, NEW w \in Workers, FindDevice(w)
  PROVE  Moves(w)
<1>1. /\ job[w].pc = "findDevice" /\ Grows /\ UNCHANGED devices
      /\ \/ ValidTrustedDevice(User(w), job[w].id) /\ Goto(w, "createSession")
         \/ Goto(w, "createChallenge")
  BY ReadsGrow DEF FindDevice, At, history, rows
<1>2. TypeOK /\ JobsTrue
  BY DEF Inv
<1>3. Op(w) = "login" /\ User(w) \in Users /\ job[w].op = "login"
  <2>1. <<Op(w), job[w].pc>> \in Routes
    BY <1>1, <1>2, OpNow
  <2>2. Op(w) = "login"
    BY <1>1, <2>1, OpAt
  <2> QED
    BY <1>1, <1>2, <2>2, Signed DEF ChallengeSteps, CodeSteps, Op
<1>4. <<Op(w), "createChallenge">> \in Routes /\ <<Op(w), "createSession">> \in Routes
  BY <1>3 DEF Routes
<1>5. CASE Goto(w, "createChallenge")
  BY <1>1, <1>2, <1>4, <1>5, GotoStep DEF Moves, ChallengeSteps, CodeSteps
<1>6. CASE ValidTrustedDevice(User(w), job[w].id) /\ Goto(w, "createSession")
  <2>1. "createSession" \in Steps
    BY <1>4 DEF Steps
  <2>2. /\ job'[w] \in JobRecord /\ job' = [job EXCEPT ![w] = job'[w]]
        /\ job'[w].pc = "createSession" /\ job'[w].op = job[w].op
        /\ job'[w].user = job[w].user /\ job'[w].id = job[w].id
    BY <1>1, <1>2, <1>6, <2>1, Gone
  <2>3. JobProven(job[w]) /\ JobTyped(job[w])
    BY <1>1, <1>2, Working
  <2>4. job[w].id \in DOMAIN devices /\ devices[job[w].id].user = job[w].user
    BY <1>3, <1>6, <2>3 DEF JobProven, ValidTrustedDevice, User
  <2>5. JobTyped(job[w])'
    BY <1>3, <1>4, <2>2 DEF JobTyped, Op, User
  <2>6. JobProven(job[w])'
    BY <1>1, <1>3, <2>2, <2>4 DEF JobProven, StepUpOps, ConfirmOps
  <2>7. /\ CarriesCredential(job[w])' /\ CarriesTotp(job[w])' /\ CarriesChallenge(job[w])'
        /\ CarriesSession(job[w])' /\ CarriesCode(job[w])' /\ CarriesProfile(job[w])'
    BY <2>2 DEF CarriesCredential, CarriesTotp, CarriesChallenge, CarriesSession, CarriesCode,
                CarriesProfile
  <2> QED
    BY <2>2, <2>5, <2>6, <2>7 DEF Moves, JobTrue
<1> QED
  BY <1>1, <1>5, <1>6

LEMMA ReadChallengeStep ==
  ASSUME Inv, NEW w \in Workers, ReadChallenge(w)
  PROVE  Moves(w)
<1> DEFINE row == challenges[job[w].id]
<1>1. /\ job[w].pc = "readChallenge" /\ UNCHANGED <<rows, history>>
      /\ End(w) \/ Carry(w, "saveChallenge", row)
  BY DEF ReadChallenge, At
<1>2. TypeOK /\ JobsTrue
  BY DEF Inv
<1>3. Op(w) \in StepUpOps \cup {"verifyMfa"} /\ JobTyped(job[w]) /\ CarriesChallenge(job[w])
  BY <1>1, <1>2, Working, OpAt DEF ChallengeSteps
<1>4. job[w].id \in DOMAIN challenges /\ row \in MfaChallenge
  BY <1>1, <1>2, <1>3, Tables DEF CarriesChallenge
<1>5. CASE Carry(w, "saveChallenge", row)
  <2>1. <<Op(w), "saveChallenge">> \in Routes /\ row \in Row
    BY <1>3, <1>4 DEF Routes, ChallengeSteps, Row
  <2>2. "saveChallenge" \in Steps
    BY <2>1 DEF Steps
  <2>3. /\ job'[w] \in JobRecord /\ job' = [job EXCEPT ![w] = job'[w]]
        /\ job'[w].pc = "saveChallenge" /\ job'[w].op = job[w].op
        /\ job'[w].user = job[w].user /\ job'[w].id = job[w].id /\ job'[w].row = row
    BY <1>1, <1>2, <1>5, <2>1, <2>2, Carried
  <2>4. JobTyped(job[w])'
    BY <1>3, <2>1, <2>3 DEF JobTyped, Op
  <2>5. CarriesChallenge(job[w])'
    BY <1>1, <1>4, <2>3 DEF CarriesChallenge, rows
  <2>6. JobProven(job[w])'
    BY <1>3, <2>3 DEF JobProven, StepUpOps, ConfirmOps, ChallengeSteps, Op
  <2>7. /\ CarriesCredential(job[w])' /\ CarriesTotp(job[w])' /\ CarriesSession(job[w])'
        /\ CarriesCode(job[w])' /\ CarriesProfile(job[w])'
    BY <2>3 DEF CarriesCredential, CarriesTotp, CarriesSession, CarriesCode, CarriesProfile
  <2> QED
    BY <2>3, <2>4, <2>5, <2>6, <2>7 DEF Moves, JobTrue
<1> QED
  BY <1>1, <1>2, <1>5, EndMoves

LEMMA ReadPasswordStep ==
  ASSUME Inv, NEW w \in Workers, ReadPassword(w)
  PROVE  Moves(w)
<1>1. /\ job[w].pc = "readPassword" /\ Grows
      /\ Carry(w, "changePassword", credential[User(w)])
  BY ReadsGrow DEF ReadPassword, At, history
<1>2. TypeOK /\ JobsTrue
  BY DEF Inv
<1>3. Op(w) = "changePassword" /\ User(w) \in Users
  <2>1. <<Op(w), job[w].pc>> \in Routes
    BY <1>1, <1>2, OpNow
  <2>2. Op(w) = "changePassword"
    BY <1>1, <2>1, OpAt
  <2> QED
    BY <1>1, <1>2, <2>2, Signed DEF ChallengeSteps, CodeSteps
<1>4. credential[User(w)] \in Credential /\ <<Op(w), "changePassword">> \in Routes
  BY <1>2, <1>3, Tables DEF Routes
<1> QED
  BY <1>1, <1>3, <1>4, CarryCredential DEF Moves, ChallengeSteps, CodeSteps

LEMMA ReadCredentialStep ==
  ASSUME Inv, NEW w \in Workers, ReadCredential(w)
  PROVE  Moves(w)
<1>1. /\ job[w].pc = "readCredential" /\ Grows
      /\ End(w) \/ Carry(w, "savePin", credential[User(w)])
  BY ReadsGrow DEF ReadCredential, At, history
<1>2. TypeOK /\ JobsTrue
  BY DEF Inv
<1>3. Op(w) \in {"setPin", "resetPin"} /\ User(w) \in Users
  <2>1. <<Op(w), job[w].pc>> \in Routes
    BY <1>1, <1>2, OpNow
  <2>2. Op(w) \in {"setPin", "resetPin"}
    BY <1>1, <2>1, OpAt
  <2> QED
    BY <1>1, <1>2, <2>2, Signed DEF ChallengeSteps, CodeSteps
<1>4. credential[User(w)] \in Credential /\ <<Op(w), "savePin">> \in Routes
  BY <1>2, <1>3, Tables DEF Routes
<1>5. CASE Carry(w, "savePin", credential[User(w)])
  BY <1>1, <1>3, <1>4, <1>5, CarryCredential DEF Moves, ChallengeSteps, CodeSteps
<1> QED
  BY <1>1, <1>2, <1>5, EndMoves

LEMMA ReadPinStep ==
  ASSUME Inv, NEW w \in Workers, ReadPin(w)
  PROVE  Moves(w)
<1> DEFINE row == credential[User(w)]
<1>1. /\ job[w].pc = "readPin" /\ Grows
      /\ End(w) \/ Carry(w, "checkPin", PinUnlocked(row))
  BY ReadsGrow DEF ReadPin, At, history
<1>2. TypeOK /\ JobsTrue
  BY DEF Inv
<1>3. Op(w) \in {"changePin", "verifyPin"} /\ User(w) \in Users
  <2>1. <<Op(w), job[w].pc>> \in Routes
    BY <1>1, <1>2, OpNow
  <2>2. Op(w) \in {"changePin", "verifyPin"}
    BY <1>1, <2>1, OpAt
  <2> QED
    BY <1>1, <1>2, <2>2, Signed DEF ChallengeSteps, CodeSteps
<1>4. row \in Credential /\ <<Op(w), "checkPin">> \in Routes
  BY <1>2, <1>3, Tables DEF Routes
<1>5. PinUnlocked(row) \in Credential /\ PinUnlocked(row).password = row.password
      /\ PinUnlocked(row).pin = row.pin
  BY <1>4 DEF PinUnlocked, Credential
<1>6. CASE Carry(w, "checkPin", PinUnlocked(row))
  BY <1>1, <1>3, <1>4, <1>5, <1>6, CarryCredential DEF Moves, ChallengeSteps, CodeSteps
<1> QED
  BY <1>1, <1>2, <1>6, EndMoves

LEMMA ReadMethodStep ==
  ASSUME Inv, NEW w \in Workers, ReadMethod(w)
  PROVE  Moves(w)
<1> DEFINE row == totp[User(w)]
<1>1. /\ job[w].pc = "readMethod" /\ Grows
      /\ End(w) \/ Carry(w, "saveMethod", row)
  BY ReadsGrow DEF ReadMethod, At, history
<1>2. TypeOK /\ JobsTrue
  BY DEF Inv
<1>3. Op(w) = "enrollTotp" /\ User(w) \in Users
  <2>1. <<Op(w), job[w].pc>> \in Routes
    BY <1>1, <1>2, OpNow
  <2>2. Op(w) = "enrollTotp"
    BY <1>1, <2>1, OpAt
  <2> QED
    BY <1>1, <1>2, <2>2, Signed DEF ChallengeSteps, CodeSteps
<1>4. row \in Row /\ <<Op(w), "saveMethod">> \in Routes
  BY <1>2, <1>3, Tables DEF Routes, Row
<1>5. CASE Carry(w, "saveMethod", row)
  <2>1. "saveMethod" \in Steps
    BY <1>4 DEF Steps
  <2>2. /\ job'[w] \in JobRecord /\ job' = [job EXCEPT ![w] = job'[w]]
        /\ job'[w].pc = "saveMethod" /\ job'[w].op = job[w].op
        /\ job'[w].user = job[w].user /\ job'[w].id = job[w].id /\ job'[w].row = row
    BY <1>1, <1>2, <1>4, <1>5, <2>1, Carried
  <2>3. CarriesCredential(job[w])' /\ CarriesTotp(job[w])' /\ CarriesProfile(job[w])'
    BY <2>2 DEF CarriesCredential, CarriesTotp, CarriesProfile
  <2>4. JobTrue(job[w])'
    BY <1>1, <1>2, <1>4, <2>2, <2>3, Advance DEF ChallengeSteps, CodeSteps, Op
  <2> QED
    BY <2>2, <2>4 DEF Moves
<1> QED
  BY <1>1, <1>2, <1>5, EndMoves

LEMMA ReadTotpStep ==
  ASSUME Inv, NEW w \in Workers, ReadTotp(w)
  PROVE  Moves(w)
<1> DEFINE row == totp[User(w)]
<1>1. /\ job[w].pc = "readTotp" /\ UNCHANGED <<rows, passed>>
      /\ End(w) \/ Carry(w, "saveTotp", row)
  BY DEF ReadTotp, At
<1>2. TypeOK /\ JobsTrue /\ Grows
  BY <1>1, ReadsGrow DEF Inv
<1>3. Op(w) = "confirmTotp" /\ User(w) \in Users
  <2>1. <<Op(w), job[w].pc>> \in Routes
    BY <1>1, <1>2, OpNow
  <2>2. Op(w) = "confirmTotp"
    BY <1>1, <2>1, OpAt
  <2> QED
    BY <1>1, <1>2, <2>2, Signed DEF ChallengeSteps, CodeSteps
<1>4. row \in MfaMethod /\ row \in Row /\ <<Op(w), "saveTotp">> \in Routes
  BY <1>2, <1>3, Tables DEF Routes, Row
<1>5. CASE Carry(w, "saveTotp", row)
  <2>1. "saveTotp" \in Steps
    BY <1>4 DEF Steps
  <2>2. /\ job'[w] \in JobRecord /\ job' = [job EXCEPT ![w] = job'[w]]
        /\ job'[w].pc = "saveTotp" /\ job'[w].op = job[w].op
        /\ job'[w].user = job[w].user /\ job'[w].id = job[w].id /\ job'[w].row = row
    BY <1>1, <1>2, <1>4, <1>5, <2>1, Carried
  <2>3. CarriesCredential(job[w])' /\ CarriesTotp(job[w])' /\ CarriesProfile(job[w])'
    BY <1>4, <2>2 DEF CarriesCredential, CarriesTotp, CarriesProfile
  <2>4. JobTrue(job[w])'
    BY <1>1, <1>2, <1>4, <2>2, <2>3, Advance DEF ChallengeSteps, CodeSteps, Op
  <2> QED
    BY <1>2, <2>2, <2>4 DEF Moves
<1> QED
  BY <1>1, <1>2, <1>5, EndMoves

LEMMA CheckSendsStep ==
  ASSUME Inv, NEW w \in Workers, CheckSends(w)
  PROVE  Moves(w)
<1>1. /\ job[w].pc = "checkSends" /\ Grows
      /\ \/ End(w)
         \/ Op(w) \in {"changeEmail", "changePhone"} /\ Goto(w, "setPending")
         \/ Op(w) \notin {"changeEmail", "changePhone"} /\ Goto(w, "issueCode")
  BY ReadsGrow DEF CheckSends, At, history
<1>2. TypeOK /\ JobsTrue
  BY DEF Inv
<1>3. Op(w) \in {"changeEmail", "changePhone", "requestReset", "resendEmail", "resendPhone"}
  <2>1. <<Op(w), job[w].pc>> \in Routes
    BY <1>1, <1>2, OpNow
  <2> QED
    BY <1>1, <2>1, OpAt
<1>4. CASE Op(w) \in {"changeEmail", "changePhone"} /\ Goto(w, "setPending")
  <2>1. <<Op(w), "setPending">> \in Routes
    BY <1>4 DEF Routes
  <2> QED
    BY <1>1, <1>2, <1>4, <2>1, GotoStep DEF Moves, ChallengeSteps, CodeSteps
<1>5. CASE Goto(w, "issueCode")
  <2>1. <<Op(w), "issueCode">> \in Routes
    BY <1>3 DEF Routes
  <2> QED
    BY <1>1, <1>2, <1>5, <2>1, GotoStep DEF Moves, ChallengeSteps, CodeSteps
<1> QED
  BY <1>1, <1>2, <1>4, <1>5, EndMoves

LEMMA ReadProfileStep ==
  ASSUME Inv, NEW w \in Workers, ReadProfile(w)
  PROVE  Moves(w)
<1> DEFINE row == profile[User(w)]
<1>1. /\ job[w].pc = "readProfile" /\ Grows
      /\ \/ End(w)
         \/ /\ Op(w) # "updateProfile" => row[Purpose(w)].pending # NoAddress
            /\ Carry(w, "saveProfile", row)
  BY ReadsGrow DEF ReadProfile, At, history
<1>2. TypeOK /\ JobsTrue
  BY DEF Inv
<1>3. Op(w) \in ConfirmOps \cup {"updateProfile"} /\ User(w) \in Users
  <2>1. <<Op(w), job[w].pc>> \in Routes
    BY <1>1, <1>2, OpNow
  <2>2. Op(w) \in ConfirmOps \cup {"updateProfile"}
    BY <1>1, <2>1, OpAt
  <2> QED
    BY <1>1, <1>2, <2>2, Signed DEF ChallengeSteps, CodeSteps
<1>4. row \in Profile /\ row \in Row /\ <<Op(w), "saveProfile">> \in Routes
  BY <1>2, <1>3, Tables DEF Routes, Row
<1>5. CASE /\ Op(w) # "updateProfile" => row[Purpose(w)].pending # NoAddress
           /\ Carry(w, "saveProfile", row)
  <2>1. "saveProfile" \in Steps
    BY <1>4 DEF Steps
  <2>2. /\ job'[w] \in JobRecord /\ job' = [job EXCEPT ![w] = job'[w]]
        /\ job'[w].pc = "saveProfile" /\ job'[w].op = job[w].op
        /\ job'[w].user = job[w].user /\ job'[w].id = job[w].id /\ job'[w].row = row
    BY <1>1, <1>2, <1>4, <1>5, <2>1, Carried
  <2>3. ProfileProven(User(w), row)
    BY <1>3 DEF Inv, AccountsProven
  <2>4. ProfileProven(job[w].user, job[w].row)'
    <3>1. ASSUME NEW p \in Purposes
          PROVE  ContactProven(job[w].user, p, job[w].row[p])'
      <4>1. ContactProven(User(w), p, row[p])
        BY <2>3 DEF ProfileProven
      <4>2. job'[w].user = User(w) /\ job'[w].row[p] = row[p]
        BY <2>2 DEF User
      <4> QED
        BY <1>1, <1>2, <4>1, <4>2, OwnKept DEF ContactProven, Own, UsedCode, Grows
    <3> QED
      BY <3>1 DEF ProfileProven
  <2>5. CarriesProfile(job[w])'
    BY <1>4, <1>5, <2>2, <2>4 DEF CarriesProfile, ConfirmOps, Purpose, Op
  <2>6. CarriesCredential(job[w])' /\ CarriesTotp(job[w])'
    BY <2>2 DEF CarriesCredential, CarriesTotp
  <2>7. JobTrue(job[w])'
    BY <1>1, <1>2, <1>4, <2>2, <2>5, <2>6, Advance DEF ChallengeSteps, CodeSteps, Op
  <2> QED
    BY <2>2, <2>7 DEF Moves
<1> QED
  BY <1>1, <1>2, <1>5, EndMoves

\* The request found the row by what it was given, and goes on with its id.
Finds(w, label, row, id) ==
  job' = [job EXCEPT ![w].pc = label, ![w].row = row, ![w].id = id]

LEMMA Found ==
  ASSUME JobsTrue, NEW w \in Workers, job[w].pc # "idle", NEW label \in Steps,
         NEW row \in Row, NEW id \in Nat, Finds(w, label, row, id)
  PROVE  /\ job'[w] \in JobRecord /\ job' = [job EXCEPT ![w] = job'[w]]
         /\ job'[w].pc = label /\ job'[w].op = job[w].op /\ job'[w].user = job[w].user
         /\ job'[w].id = id /\ job'[w].row = row /\ job'[w].base = job[w].base
<1>1. job[w] \in JobRecord /\ job = [v \in Workers |-> job[v]]
  BY Working
<1>2. job' = [job EXCEPT ![w] = [job[w] EXCEPT !.pc = label, !.row = row, !.id = id]]
  BY <1>1 DEF JobRecord, Finds
<1>3. /\ job'[w] = [job[w] EXCEPT !.pc = label, !.row = row, !.id = id]
      /\ job' = [job EXCEPT ![w] = job'[w]]
  BY <1>1, <1>2
<1> QED
  BY <1>1, <1>3 DEF JobRecord

LEMMA ReadCodeStep ==
  ASSUME Inv, NEW w \in Workers, ReadCode(w)
  PROVE  Moves(w)
<1>1. /\ job[w].pc = "readCode" /\ UNCHANGED <<rows, history>>
      /\ \/ End(w)
         \/ \E k \in DOMAIN codes :
              /\ codes[k].purpose = Purpose(w)
              /\ Finds(w, "saveCode", codes[k], k)
  BY DEF ReadCode, At, Finds
<1>2. TypeOK /\ JobsTrue
  BY DEF Inv
<1>3. Op(w) \in ConfirmOps \cup {"verifyEmail", "verifyPhone", "completeReset"}
  <2>1. <<Op(w), job[w].pc>> \in Routes
    BY <1>1, <1>2, OpNow
  <2> QED
    BY <1>1, <2>1, OpAt DEF CodeSteps
<1>4. ASSUME NEW k \in DOMAIN codes, codes[k].purpose = Purpose(w),
             Finds(w, "saveCode", codes[k], k)
      PROVE  Moves(w)
  <2>1. codes[k] \in VerificationCode /\ codes[k] \in Row /\ k \in Nat
    BY <1>2, Tables DEF Row
  <2>2. <<Op(w), "saveCode">> \in Routes
    BY <1>3 DEF Routes, CodeSteps
  <2>3. "saveCode" \in Steps
    BY <2>2 DEF Steps
  <2>4. /\ job'[w] \in JobRecord /\ job' = [job EXCEPT ![w] = job'[w]]
        /\ job'[w].pc = "saveCode" /\ job'[w].op = job[w].op
        /\ job'[w].user = job[w].user /\ job'[w].id = k /\ job'[w].row = codes[k]
        /\ job'[w].base = Idle
    <3>1. job[w].base = Idle
      BY <1>1, <1>2, Working DEF CarriesCode
    <3> QED
      BY <1>1, <1>2, <1>4, <2>1, <2>3, <3>1, Found
  <2>5. JobTyped(job[w])'
    <3>1. JobTyped(job[w])
      BY <1>1, <1>2, Working
    <3> QED
      BY <2>2, <2>4, <3>1 DEF JobTyped, Op
  <2>6. CarriesCode(job[w])'
    BY <1>1, <1>4, <2>1, <2>4 DEF CarriesCode, Purpose, Op, rows
  <2>7. JobProven(job[w])'
    BY <1>3, <2>4 DEF JobProven, StepUpOps, ConfirmOps, CodeSteps, Op
  <2>8. /\ CarriesCredential(job[w])' /\ CarriesTotp(job[w])' /\ CarriesSession(job[w])'
        /\ CarriesChallenge(job[w])' /\ CarriesProfile(job[w])'
    BY <2>4 DEF CarriesCredential, CarriesTotp, CarriesSession, CarriesChallenge, CarriesProfile
  <2> QED
    BY <2>4, <2>5, <2>6, <2>7, <2>8 DEF Moves, JobTrue
<1> QED
  BY <1>1, <1>2, <1>4, EndMoves

LEMMA ReadSessionStep ==
  ASSUME Inv, NEW w \in Workers, ReadSession(w)
  PROVE  Moves(w)
<1>1. /\ job[w].pc = "readSession" /\ UNCHANGED <<rows, history>>
      /\ \/ End(w)
         \/ \E s \in DOMAIN sessions, label \in {"rotate", "revoke"} :
              Finds(w, label, sessions[s], s)
  BY DEF ReadSession, At, WithCurrent, WithPrevious, Finds
<1>2. TypeOK /\ JobsTrue
  BY DEF Inv
<1>3. Op(w) \in {"refresh", "logout"}
  <2>1. <<Op(w), job[w].pc>> \in Routes
    BY <1>1, <1>2, OpNow
  <2> QED
    BY <1>1, <2>1, OpAt
<1>4. ASSUME NEW s \in DOMAIN sessions, NEW label \in {"rotate", "revoke"},
             Finds(w, label, sessions[s], s)
      PROVE  Moves(w)
  <2>1. sessions[s] \in Session /\ sessions[s] \in Row /\ s \in Nat
    BY <1>2, Tables DEF Row
  <2>2. <<Op(w), label>> \in Routes
    BY <1>3 DEF Routes
  <2>3. label \in Steps
    BY <2>2 DEF Steps
  <2>4. /\ job'[w] \in JobRecord /\ job' = [job EXCEPT ![w] = job'[w]]
        /\ job'[w].pc = label /\ job'[w].op = job[w].op
        /\ job'[w].user = job[w].user /\ job'[w].id = s /\ job'[w].row = sessions[s]
    BY <1>1, <1>2, <1>4, <2>1, <2>3, Found
  <2>5. JobTyped(job[w])'
    BY <1>3, <2>2, <2>4 DEF JobTyped, Op, AnonymousOps
  <2>6. CarriesSession(job[w])'
    BY <1>1, <2>1, <2>4 DEF CarriesSession, rows
  <2>7. JobProven(job[w])'
    BY <1>3, <2>4 DEF JobProven, StepUpOps, ConfirmOps, Op
  <2>8. /\ CarriesCredential(job[w])' /\ CarriesTotp(job[w])' /\ CarriesCode(job[w])'
        /\ CarriesChallenge(job[w])' /\ CarriesProfile(job[w])'
    BY <2>4 DEF CarriesCredential, CarriesTotp, CarriesCode, CarriesChallenge, CarriesProfile
  <2> QED
    BY <2>4, <2>5, <2>6, <2>7, <2>8 DEF Moves, JobTrue
<1> QED
  BY <1>1, <1>2, <1>4, EndMoves

LEMMA BeginStep ==
  ASSUME Inv, NEW w \in Workers, Begin(w)
  PROVE  Moves(w)
<1>1. PICK r \in Requests : job' = [job EXCEPT ![w] = r]
  BY DEF Begin
<1>2. TypeOK /\ JobsTrue /\ UNCHANGED <<rows, history>>
  BY DEF Inv, Begin
<1>3. job'[w] = r /\ job' = [job EXCEPT ![w] = job'[w]]
  BY <1>1, <1>2 DEF JobsTrue
<1>4. PICK op, user, id :
        /\ r = Request(op, user, id)
        /\ \/ op = "login" /\ user \in Callers /\ id \in 0..Len(devices)
           \/ op = "verifyMfa" /\ user = 0 /\ id \in DOMAIN challenges
           \/ op \in {"refresh", "logout"} /\ user = 0 /\ id \in RefreshTokens
           \/ op \in {"verifyEmail", "verifyPhone", "completeReset"} /\ user = 0 /\ id \in CodeValues
           \/ op = "requestReset" /\ user \in Callers /\ id = 0
           \/ op \in StepUpOps /\ user \in Callers /\ id \in DOMAIN challenges
           \/ /\ op \in {"stepUp", "confirmTotp", "verifyPin", "resendEmail", "resendPhone",
                         "updateProfile"}
              /\ user \in Callers /\ id = 0
           \/ op \in ConfirmOps /\ user \in Callers /\ id \in CodeValues
  BY DEF Requests, ConfirmOps
<1>5. user \in 0..NumUsers /\ (op \notin AnonymousOps => user \in Users)
  <2>1. \A u \in Callers : u \in Users
    BY AuthAssumption
  <2>2. Users \subseteq 0..NumUsers /\ 0 \in 0..NumUsers
    BY AuthAssumption DEF Users
  <2> QED
    BY <1>4, <2>1, <2>2 DEF AnonymousOps
<1>6. /\ id \in Nat \cup CodeValues
      /\ op = "login" => id = 0 \/ id \in DOMAIN devices
      /\ op \in StepUpOps \cup {"verifyMfa"} => id \in DOMAIN challenges
  <2>1. RefreshTokens \subseteq Nat
    <3>1. \A s \in DOMAIN sessions : sessions[s].current \in Nat
      BY <1>2, Tables DEF Session
    <3>2. replaced \subseteq Nat
      BY <1>2 DEF TypeOK
    <3> QED
      BY <3>1, <3>2 DEF RefreshTokens
  <2>2. \A i \in 0..Len(devices) : i \in Nat /\ (i = 0 \/ i \in DOMAIN devices)
    BY <1>2, Tables
  <2>3. DOMAIN challenges \subseteq Nat
    BY <1>2, Tables
  <2> QED
    <3>1. CASE op = "login"
      BY <1>4, <2>2, <3>1 DEF StepUpOps, ConfirmOps
    <3>2. CASE op \in StepUpOps \cup {"verifyMfa"}
      BY <1>4, <2>3, <3>2 DEF StepUpOps, ConfirmOps
    <3>3. CASE op \notin StepUpOps \cup {"verifyMfa", "login"}
      <4>1. id \in RefreshTokens \/ id \in CodeValues \/ id = 0
        BY <1>4, <3>3
      <4>2. id \in Nat \cup CodeValues
        <5>1. CASE id \in RefreshTokens
          BY <2>1, <5>1
        <5>2. CASE id \in CodeValues
          BY <5>2
        <5>3. CASE id = 0
          BY <5>3
        <5> QED
          BY <4>1, <5>1, <5>2, <5>3
      <4> QED
        BY <3>3, <4>2
    <3> QED
      BY <3>1, <3>2, <3>3
<1>7. <<op, FirstStep(op)>> \in Routes
  <2>1. CASE op \in {"login", "requestReset", "stepUp", "confirmTotp", "verifyPin", "resendEmail",
                     "resendPhone", "updateProfile"}
    BY <2>1 DEF FirstStep, StepUpOps, Routes
  <2>2. CASE op \in StepUpOps \cup {"verifyMfa"}
    <3>1. FirstStep(op) = "readChallenge"
      BY <2>2 DEF FirstStep, StepUpOps
    <3> QED
      BY <2>2, <3>1 DEF Routes, ChallengeSteps
  <2>3. CASE op \in {"refresh", "logout"}
    BY <2>3 DEF FirstStep, StepUpOps, Routes
  <2>4. CASE op \in ConfirmOps \cup {"verifyEmail", "verifyPhone", "completeReset"}
    <3>1. FirstStep(op) = "readCode"
      BY <2>4 DEF FirstStep, StepUpOps, ConfirmOps
    <3> QED
      BY <2>4, <3>1 DEF Routes, CodeSteps
  <2> QED
    BY <1>4, <2>1, <2>2, <2>3, <2>4
<1>8. /\ r \in JobRecord /\ r.op = op /\ r.user = user /\ r.id = id /\ r.pc = FirstStep(op)
      /\ r.base = Idle
  <2>1. op \in {q[1] : q \in Routes} /\ FirstStep(op) \in Steps /\ Idle \in Row
    BY <1>7 DEF Steps, Row
  <2>2. r = [op |-> op, user |-> user, id |-> id, pc |-> FirstStep(op), row |-> Idle,
             base |-> Idle, at |-> 0]
    BY <1>4 DEF Request
  <2> QED
    BY <1>5, <1>6, <2>1, <2>2 DEF JobRecord
<1>9. FirstStep(op) \in {"readLogin", "readChallenge", "readSession", "readCode", "checkSends",
                         "createChallenge", "readTotp", "readPin", "readProfile"}
  BY <1>4 DEF FirstStep, StepUpOps, ConfirmOps
<1>10. JobTyped(job[w])'
  BY <1>3, <1>5, <1>7, <1>8, <1>9 DEF JobTyped
<1>11. /\ op \in StepUpOps => FirstStep(op) = "readChallenge"
       /\ op \in ConfirmOps \cup {"completeReset"} => FirstStep(op) = "readCode"
       /\ FirstStep(op) = "readChallenge" => op \in StepUpOps \cup {"verifyMfa"}
  BY <1>4 DEF FirstStep, StepUpOps, ConfirmOps
<1>12. JobProven(job[w])'
  BY <1>2, <1>3, <1>6, <1>8, <1>9, <1>11 DEF JobProven, rows, ChallengeSteps, CodeSteps
<1>13. CarriesChallenge(job[w])'
  BY <1>2, <1>3, <1>6, <1>8, <1>9, <1>11 DEF CarriesChallenge, rows
<1>14. /\ CarriesCredential(job[w])' /\ CarriesTotp(job[w])' /\ CarriesCode(job[w])'
       /\ CarriesSession(job[w])' /\ CarriesProfile(job[w])'
  BY <1>3, <1>8, <1>9 DEF CarriesCredential, CarriesTotp, CarriesCode, CarriesSession,
                          CarriesProfile
<1> QED
  BY <1>3, <1>8, <1>9, <1>10, <1>12, <1>13, <1>14 DEF Moves, JobTrue

-----------------------------------------------------------------------------
(* What a step leaves of the tables *)

LEMMA EarnedKept ==
  ASSUME TypeOK, Grows, DevicesEarned, SessionsEarned, UNCHANGED <<devices, sessions>>
  PROVE  DevicesEarned' /\ SessionsEarned'
<1>1. DevicesEarned'
  BY OwnKept DEF DevicesEarned, Own
<1>2. SessionsEarned'
  <2>1. passed \subseteq DOMAIN challenges
    BY DEF TypeOK
  <2> QED
    BY <2>1 DEF SessionsEarned, Grows
<1> QED
  BY <1>1, <1>2

LEMMA AccountsKept ==
  ASSUME TypeOK, Grows, AccountsProven, UNCHANGED <<credential, profile, banks>>
  PROVE  AccountsProven'
<1>1. ASSUME NEW u \in Users
      PROVE  CredentialProven(u, credential[u])'
  <2>1. CredentialProven(u, credential[u])
    BY DEF AccountsProven
  <2> QED
    BY <2>1, OwnKept DEF CredentialProven, PasswordProven, Own, UsedCode, Grows
<1>2. ASSUME NEW u \in Users
      PROVE  ProfileProven(u, profile[u])'
  <2>1. ProfileProven(u, profile[u])
    BY DEF AccountsProven
  <2> QED
    BY <2>1, OwnKept DEF ProfileProven, ContactProven, Own, UsedCode, Grows
<1>3. \A account \in banks : Own(account.user, account.by)'
  BY OwnKept DEF AccountsProven, Own
<1> QED
  BY <1>1, <1>2, <1>3 DEF AccountsProven

\* A step that writes no session.
LEMMA NoSession ==
  ASSUME Inv, Grows, NEW w \in Workers, Moves(w), TypeOK', UNCHANGED <<sessions, devices>>,
         AccountsProven'
  PROVE  Inv'
<1>1. JobsTrue'
  BY OneWorker DEF Moves, Inv
<1>2. DevicesEarned' /\ SessionsEarned'
  BY EarnedKept DEF Inv
<1> QED
  BY <1>1, <1>2 DEF Inv

LEMMA ReadStep ==
  ASSUME Inv, Grows, NEW w \in Workers, Moves(w), UNCHANGED <<rows, passed, replaced, now>>,
         calls' \in 0..MaxCalls
  PROVE  Inv'
<1>1. TypeOK'
  BY DEF Inv, TypeOK, rows
<1>2. AccountsProven'
  BY AccountsKept DEF Inv, rows
<1> QED
  BY <1>1, <1>2, NoSession DEF rows

\* A step that writes one credential, which was shown for.
LEMMA CredentialStep ==
  ASSUME Inv, NEW w \in Workers, Moves(w), UNCHANGED <<now, calls, offered>>,
         UNCHANGED <<banks, totp, challenges, devices, sessions, codes, profile, minted, history>>,
         NEW u \in Users, NEW row \in Credential, CredentialProven(u, row),
         credential' = [credential EXCEPT ![u] = row]
  PROVE  Inv'
<1>1. Grows
  BY DEF Grows, history
<1>2. credential \in [Users -> Credential]
  BY DEF Inv, TypeOK
<1>3. credential' \in [Users -> Credential] /\ credential'[u] = row
      /\ \A v \in Users \ {u} : credential'[v] = credential[v]
  BY <1>2
<1>4. TypeOK'
  BY <1>3 DEF Inv, TypeOK, history
<1>6. ASSUME NEW v \in Users
      PROVE  CredentialProven(v, credential[v])'
  <2>1. CredentialProven(v, credential'[v])
    BY <1>3 DEF Inv, AccountsProven
  <2> QED
    BY <2>1 DEF CredentialProven, PasswordProven, Own, UsedCode, history
<1>7. AccountsProven'
  <2>1. \A v \in Users : ProfileProven(v, profile[v])'
    BY DEF Inv, AccountsProven, ProfileProven, ContactProven, Own, UsedCode, history
  <2>2. \A account \in banks' : Own(account.user, account.by)'
    BY DEF Inv, AccountsProven, Own, history
  <2> QED
    BY <1>6, <2>1, <2>2 DEF AccountsProven
<1> QED
  BY <1>1, <1>4, <1>7, NoSession

-----------------------------------------------------------------------------
(* Credentials *)

LEMMA Numbers == Lockout \in Nat /\ Lifetime \in Nat /\ MaxFailedLogins \in Nat /\ MaxFailedPins \in Nat
BY AuthAssumption

LEMMA CarriedCredential ==
  ASSUME Inv, NEW w \in Workers,
         job[w].pc \in {"savePassword", "changePassword", "savePin", "checkPin"}
  PROVE  /\ TypeOK /\ JobsTrue /\ User(w) \in Users
         /\ job[w].row \in Credential /\ CredentialProven(User(w), job[w].row)
         /\ job[w].at \in Nat /\ <<Op(w), job[w].pc>> \in Routes
<1>1. TypeOK /\ JobsTrue /\ job[w].pc # "idle"
  BY DEF Inv
<1>2. User(w) \in Users
  BY <1>1, Signed DEF ChallengeSteps, CodeSteps
<1>3. CarriesCredential(job[w]) /\ job[w] \in JobRecord /\ <<Op(w), job[w].pc>> \in Routes
  BY <1>1, Working
<1> QED
  BY <1>1, <1>2, <1>3 DEF CarriesCredential, JobRecord, User

\* Each column a save leaves is the entity's or the row's.
LEMMA SavedCredential ==
  ASSUME Inv, NEW w \in Workers,
         job[w].pc \in {"savePassword", "changePassword", "savePin", "checkPin"},
         NEW entity \in Credential, CredentialProven(User(w), entity)
  PROVE  Save(w, entity) \in Credential /\ CredentialProven(User(w), Save(w, entity))
<1> DEFINE row == credential[User(w)]
           base == job[w].base
           new == Save(w, entity)
<1>1. TypeOK /\ User(w) \in Users
  BY CarriedCredential
<1>2. row \in Credential /\ CredentialProven(User(w), row)
  BY <1>1, Tables DEF Inv, AccountsProven
<1>3. Stored(w) = row
  BY DEF Stored, CredentialSaves, TotpSaves, SessionSaves
<1> HIDE DEF row, base
<1>4. DOMAIN row = {"password", "pin", "failed", "lockedUntil", "failedPins", "pinLockedUntil"}
  BY <1>2 DEF Credential
<1>5. new = [password |-> new.password, pin |-> new.pin, failed |-> new.failed,
             lockedUntil |-> new.lockedUntil, failedPins |-> new.failedPins,
             pinLockedUntil |-> new.pinLockedUntil]
  BY <1>3, <1>4 DEF Save, Merge
<1>6. /\ new.password \in {entity.password, row.password} /\ new.pin \in {entity.pin, row.pin}
      /\ new.failed \in {entity.failed, row.failed}
      /\ new.lockedUntil \in {entity.lockedUntil, row.lockedUntil}
      /\ new.failedPins \in {entity.failedPins, row.failedPins}
      /\ new.pinLockedUntil \in {entity.pinLockedUntil, row.pinLockedUntil}
  BY <1>3, <1>4 DEF Save, Merge
<1> HIDE DEF new
<1>7. new \in Credential
  BY <1>2, <1>5, <1>6 DEF Credential
<1>8. CredentialProven(User(w), new)
  BY <1>2, <1>6 DEF CredentialProven
<1> QED
  BY <1>7, <1>8 DEF new

LEMMA SaveLoginStep ==
  ASSUME Inv, NEW w \in Workers, SaveLogin(w)
  PROVE  Inv'
<1> DEFINE row == job[w].row
           wrong == WrongPassword(row, job[w].at)
           right == [row EXCEPT !.failed = 0, !.lockedUntil = 0]
<1>1. /\ job[w].pc = "savePassword"
      /\ \/ credential' = [credential EXCEPT ![User(w)] = Save(w, wrong)] /\ End(w)
         \/ credential' = [credential EXCEPT ![User(w)] = Save(w, right)] /\ Goto(w, "findDevice")
      /\ UNCHANGED <<now, calls, offered>>
      /\ UNCHANGED <<banks, totp, challenges, devices, sessions, codes, profile, minted, history>>
  BY DEF SaveLogin, Saving, At
<1>2. /\ TypeOK /\ JobsTrue /\ User(w) \in Users
      /\ row \in Credential /\ CredentialProven(User(w), row)
      /\ job[w].at \in Nat /\ <<Op(w), job[w].pc>> \in Routes
  BY <1>1, CarriedCredential
<1>3. Grows
  BY <1>1 DEF Grows, history
<1> HIDE DEF row
<1>4. wrong \in Credential /\ wrong.password = row.password /\ wrong.pin = row.pin
  <2> DEFINE n == row.failed + 1
             m == IF row.failed + 1 >= MaxFailedLogins THEN job[w].at + Lockout ELSE row.lockedUntil
  <2>1. row.failed \in Nat /\ row.lockedUntil \in Nat
    BY <1>2 DEF Credential
  <2>2. n \in Nat /\ m \in Nat
    BY <1>2, <2>1, Numbers
  <2>3. wrong = [row EXCEPT !.failed = n, !.lockedUntil = m]
    BY DEF WrongPassword
  <2> HIDE DEF n, m, wrong
  <2> QED
    BY <1>2, <2>2, <2>3 DEF Credential
<1>5. right \in Credential /\ right.password = row.password /\ right.pin = row.pin
  BY <1>2 DEF Credential
<1> HIDE DEF wrong, right
<1>6. CredentialProven(User(w), wrong) /\ CredentialProven(User(w), right)
  BY <1>2, <1>4, <1>5 DEF CredentialProven
<1>9. /\ Save(w, wrong) \in Credential /\ CredentialProven(User(w), Save(w, wrong))
      /\ Save(w, right) \in Credential /\ CredentialProven(User(w), Save(w, right))
  BY <1>1, <1>4, <1>5, <1>6, SavedCredential
<1>7. CASE credential' = [credential EXCEPT ![User(w)] = Save(w, wrong)] /\ End(w)
  BY <1>1, <1>2, <1>7, <1>9, EndMoves, CredentialStep
<1>8. CASE credential' = [credential EXCEPT ![User(w)] = Save(w, right)] /\ Goto(w, "findDevice")
  <2>1. <<Op(w), "findDevice">> \in Routes
    <3>1. Op(w) = "login"
      BY <1>1, <1>2, OpAt
    <3> QED
      BY <3>1 DEF Routes
  <2>2. Moves(w)
    BY <1>1, <1>2, <1>3, <1>8, <2>1, GotoStep DEF Moves, ChallengeSteps, CodeSteps
  <2> QED
    BY <1>1, <1>2, <1>8, <1>9, <2>2, CredentialStep
<1> QED
  BY <1>1, <1>7, <1>8

LEMMA RevokeNext ==
  ASSUME TypeOK, JobsTrue, Grows, NEW w \in Workers, job[w].pc # "idle",
         job[w].pc \notin ChallengeSteps \cup CodeSteps, User(w) \in Users,
         Op(w) \in ConfirmOps \cup {"changePassword", "completeReset"}, EndOrRevokeSessions(w)
  PROVE  Moves(w)
<1>1. <<Op(w), "revokeSessions">> \in Routes
  BY DEF Routes
<1>2. CASE Goto(w, "revokeSessions")
  BY <1>1, <1>2, GotoStep DEF Moves
<1> QED
  BY <1>2, EndMoves DEF EndOrRevokeSessions

LEMMA ChangePasswordStep ==
  ASSUME Inv, NEW w \in Workers, ChangePassword(w)
  PROVE  Inv'
<1> DEFINE row == [job[w].row EXCEPT !.password = <<"challenge", job[w].id>>]
<1>1. /\ job[w].pc = "changePassword"
      /\ \/ End(w) /\ UNCHANGED credential
         \/ credential' = [credential EXCEPT ![User(w)] = Save(w, row)] /\ EndOrRevokeSessions(w)
      /\ UNCHANGED <<now, calls, offered>>
      /\ UNCHANGED <<banks, totp, challenges, devices, sessions, codes, profile, minted, history>>
  BY DEF ChangePassword, Saving, At
<1>2. /\ TypeOK /\ JobsTrue /\ User(w) \in Users
      /\ job[w].row \in Credential /\ CredentialProven(User(w), job[w].row)
      /\ <<Op(w), job[w].pc>> \in Routes
  BY <1>1, CarriedCredential
<1>3. Op(w) = "changePassword"
  BY <1>1, <1>2, OpAt
<1>4. Own(User(w), job[w].id)
  <2>1. JobProven(job[w])
    BY <1>1, <1>2, Working
  <2> QED
    BY <1>1, <1>3, <2>1 DEF JobProven, StepUpOps, ChallengeSteps, Op, User
<1>5. Grows
  BY <1>1 DEF Grows, history
<1>6. CASE End(w) /\ UNCHANGED credential
  <2>1. UNCHANGED <<rows, passed, replaced, now>> /\ calls' \in 0..MaxCalls
    BY <1>1, <1>2, <1>6 DEF rows, history, TypeOK
  <2> QED
    BY <1>2, <1>5, <1>6, <2>1, EndMoves, ReadStep
<1>7. CASE credential' = [credential EXCEPT ![User(w)] = Save(w, row)] /\ EndOrRevokeSessions(w)
  <2>1. job[w].id \in Nat
    <3>1. DOMAIN challenges \subseteq Nat /\ passed \subseteq DOMAIN challenges
      BY <1>2, Tables DEF TypeOK
    <3> QED
      BY <1>4, <3>1 DEF Own
  <2>2. row \in Credential /\ row.password = <<"challenge", job[w].id>> /\ row.pin = job[w].row.pin
    <3>1. <<"challenge", job[w].id>> \in {"challenge", "code"} \X Nat
      BY <2>1
    <3> QED
      BY <1>2, <3>1 DEF Credential
  <2> HIDE DEF row
  <2>3. CredentialProven(User(w), row)
    <3>1. PasswordProven(User(w), <<"challenge", job[w].id>>)
      BY <1>4 DEF PasswordProven
    <3> QED
      BY <1>2, <2>2, <3>1 DEF CredentialProven
  <2>4. Moves(w)
    BY <1>1, <1>2, <1>3, <1>5, <1>7, RevokeNext DEF ChallengeSteps, CodeSteps
  <2>5. Save(w, row) \in Credential /\ CredentialProven(User(w), Save(w, row))
    BY <1>1, <2>2, <2>3, SavedCredential
  <2> QED
    BY <1>1, <1>2, <1>7, <2>4, <2>5, CredentialStep
<1> QED
  BY <1>1, <1>6, <1>7

LEMMA SavePinStep ==
  ASSUME Inv, NEW w \in Workers, SavePin(w)
  PROVE  Inv'
<1> DEFINE set == [job[w].row EXCEPT !.pin = job[w].id]
           row == IF Op(w) = "resetPin" THEN [set EXCEPT !.failedPins = 0, !.pinLockedUntil = 0]
                                        ELSE set
<1>1. /\ job[w].pc = "savePin" /\ credential' = [credential EXCEPT ![User(w)] = Save(w, row)] /\ End(w)
      /\ UNCHANGED <<now, calls, offered>>
      /\ UNCHANGED <<banks, totp, challenges, devices, sessions, codes, profile, minted, history>>
  BY DEF SavePin, Saving, At
<1>2. /\ TypeOK /\ JobsTrue /\ User(w) \in Users
      /\ job[w].row \in Credential /\ CredentialProven(User(w), job[w].row)
      /\ <<Op(w), job[w].pc>> \in Routes
  BY <1>1, CarriedCredential
<1>3. Op(w) \in {"setPin", "resetPin", "changePin"}
  BY <1>1, <1>2, OpAt
<1>4. Own(User(w), job[w].id)
  <2>1. JobProven(job[w])
    BY <1>1, <1>2, Working
  <2> QED
    BY <1>1, <1>3, <2>1 DEF JobProven, StepUpOps, ChallengeSteps, Op, User
<1>5. job[w].id \in Nat
  <2>1. DOMAIN challenges \subseteq Nat /\ passed \subseteq DOMAIN challenges
    BY <1>2, Tables DEF TypeOK
  <2> QED
    BY <1>4, <2>1 DEF Own
<1>6. set \in Credential /\ set.password = job[w].row.password /\ set.pin = job[w].id
  BY <1>2, <1>5 DEF Credential
<1> HIDE DEF set
<1>7. row \in Credential /\ row.password = job[w].row.password /\ row.pin = job[w].id
  BY <1>6 DEF Credential
<1> HIDE DEF row
<1>8. CredentialProven(User(w), row)
  BY <1>2, <1>4, <1>7 DEF CredentialProven
<1>9. Save(w, row) \in Credential /\ CredentialProven(User(w), Save(w, row))
  BY <1>1, <1>7, <1>8, SavedCredential
<1> QED
  BY <1>1, <1>2, <1>9, EndMoves, CredentialStep

LEMMA CheckPinStep ==
  ASSUME Inv, NEW w \in Workers, CheckPin(w)
  PROVE  Inv'
<1> DEFINE row == job[w].row
           wrong == WrongPin(row, job[w].at)
           right == [row EXCEPT !.failedPins = 0, !.pinLockedUntil = 0]
<1>1. /\ job[w].pc = "checkPin"
      /\ \/ credential' = [credential EXCEPT ![User(w)] = Save(w, wrong)] /\ End(w)
         \/ /\ credential' = [credential EXCEPT ![User(w)] = Save(w, right)]
            /\ IF Op(w) = "changePin" THEN Carry(w, "savePin", right) ELSE End(w)
      /\ UNCHANGED <<now, calls, offered>>
      /\ UNCHANGED <<banks, totp, challenges, devices, sessions, codes, profile, minted, history>>
  BY DEF CheckPin, Saving, At
<1>2. /\ TypeOK /\ JobsTrue /\ User(w) \in Users
      /\ row \in Credential /\ CredentialProven(User(w), row)
      /\ job[w].at \in Nat
  BY <1>1, CarriedCredential
<1>3. Grows
  BY <1>1 DEF Grows, history
<1> HIDE DEF row
<1>4. wrong \in Credential /\ wrong.password = row.password /\ wrong.pin = row.pin
  <2> DEFINE n == row.failedPins + 1
             m == IF row.failedPins + 1 >= MaxFailedPins THEN job[w].at + Lockout ELSE row.pinLockedUntil
  <2>1. row.failedPins \in Nat /\ row.pinLockedUntil \in Nat
    BY <1>2 DEF Credential
  <2>2. n \in Nat /\ m \in Nat
    BY <1>2, <2>1, Numbers
  <2>3. wrong = [row EXCEPT !.failedPins = n, !.pinLockedUntil = m]
    BY DEF WrongPin
  <2> HIDE DEF n, m, wrong
  <2> QED
    BY <1>2, <2>2, <2>3 DEF Credential
<1>5. right \in Credential /\ right.password = row.password /\ right.pin = row.pin
  BY <1>2 DEF Credential
<1> HIDE DEF wrong, right
<1>6. CredentialProven(User(w), wrong) /\ CredentialProven(User(w), right)
  BY <1>2, <1>4, <1>5 DEF CredentialProven
<1>9. /\ Save(w, wrong) \in Credential /\ CredentialProven(User(w), Save(w, wrong))
      /\ Save(w, right) \in Credential /\ CredentialProven(User(w), Save(w, right))
  BY <1>1, <1>4, <1>5, <1>6, SavedCredential
<1>7. CASE credential' = [credential EXCEPT ![User(w)] = Save(w, wrong)] /\ End(w)
  BY <1>1, <1>2, <1>7, <1>9, EndMoves, CredentialStep
<1>8. CASE /\ credential' = [credential EXCEPT ![User(w)] = Save(w, right)]
           /\ IF Op(w) = "changePin" THEN Carry(w, "savePin", right) ELSE End(w)
  <2>1. CASE End(w)
    BY <1>1, <1>2, <1>8, <1>9, <2>1, EndMoves, CredentialStep
  <2>2. CASE Op(w) = "changePin" /\ Carry(w, "savePin", right)
    <3>1. <<Op(w), "savePin">> \in Routes
      BY <2>2 DEF Routes
    <3>2. Moves(w)
      BY <1>1, <1>2, <1>3, <1>5, <1>6, <2>2, <3>1, CarryProven DEF Moves, ChallengeSteps, CodeSteps
    <3> QED
      BY <1>1, <1>2, <1>8, <1>9, <3>2, CredentialStep
  <2> QED
    BY <1>8, <2>1, <2>2
<1> QED
  BY <1>1, <1>7, <1>8

LEMMA ResetPasswordStep ==
  ASSUME Inv, NEW w \in Workers, ResetPassword(w)
  PROVE  Inv'
<1> DEFINE row == [credential[User(w)] EXCEPT !.password = <<"code", job[w].id>>]
<1>1. /\ job[w].pc = "resetPassword" /\ EndOrRevokeSessions(w)
      /\ credential' = [credential EXCEPT ![User(w)] = row]
      /\ UNCHANGED <<now, calls, offered>>
      /\ UNCHANGED <<banks, totp, challenges, devices, sessions, codes, profile, minted, history>>
  BY DEF ResetPassword, At
<1>2. TypeOK /\ JobsTrue /\ Grows
  BY <1>1 DEF Inv, Grows, history
<1>3. Op(w) = "completeReset" /\ User(w) \in Users
  <2>1. <<Op(w), job[w].pc>> \in Routes
    BY <1>1, <1>2, OpNow
  <2>2. Op(w) = "completeReset"
    BY <1>1, <2>1, OpAt
  <2> QED
    BY <1>1, <1>2, <2>2, Signed DEF ChallengeSteps, CodeSteps
<1>4. job[w].id \in DOMAIN codes /\ UsedCode(User(w), job[w].id, "password")
  <2>1. JobProven(job[w])
    BY <1>1, <1>2, Working
  <2>2. PurposeOf("completeReset") = "password"
    BY DEF PurposeOf
  <2> QED
    BY <1>1, <1>3, <2>1, <2>2 DEF JobProven, CodeSteps, Op, User
<1>5. credential[User(w)] \in Credential /\ job[w].id \in Nat
  BY <1>2, <1>3, <1>4, Tables
<1>6. row \in Credential /\ row.password = <<"code", job[w].id>> /\ row.pin = credential[User(w)].pin
  <2>1. <<"code", job[w].id>> \in {"challenge", "code"} \X Nat
    BY <1>5
  <2> QED
    BY <1>5, <2>1 DEF Credential
<1> HIDE DEF row
<1>7. CredentialProven(User(w), row)
  <2>1. PasswordProven(User(w), <<"code", job[w].id>>)
    BY <1>4 DEF PasswordProven
  <2>2. CredentialProven(User(w), credential[User(w)])
    BY <1>3 DEF Inv, AccountsProven
  <2> QED
    BY <1>6, <2>1, <2>2 DEF CredentialProven
<1>8. Moves(w)
  BY <1>1, <1>2, <1>3, RevokeNext DEF ChallengeSteps, CodeSteps
<1> QED
  BY <1>1, <1>3, <1>6, <1>7, <1>8, CredentialStep

-----------------------------------------------------------------------------
(* Challenges *)

LEMMA RowAdded ==
  ASSUME NEW S, NEW s \in Seq(S), NEW x \in S, NEW t, t = Append(s, x)
  PROVE  /\ t \in Seq(S) /\ Len(t) = Len(s) + 1 /\ DOMAIN t = 1..(Len(s) + 1)
         /\ \A i \in DOMAIN s : i \in DOMAIN t /\ t[i] = s[i]
         /\ t[Len(s) + 1] = x
<1>1. t \in Seq(S) /\ Len(t) = Len(s) + 1 /\ Len(s) \in Nat /\ DOMAIN s = 1..Len(s)
  BY AppendProperties, LenProperties
<1>2. DOMAIN t = 1..(Len(s) + 1)
  BY <1>1, LenProperties
<1>3. \A i \in 1..Len(s) : t[i] = s[i]
  BY AppendProperties
<1>4. t[Len(s) + 1] = x
  BY AppendProperties
<1> QED
  BY <1>1, <1>2, <1>3, <1>4

LEMMA RowSaved ==
  ASSUME NEW S, NEW s \in Seq(S), NEW k \in DOMAIN s, NEW x \in S, NEW t,
         t = [s EXCEPT ![k] = x]
  PROVE  /\ t \in Seq(S) /\ DOMAIN t = DOMAIN s /\ Len(t) = Len(s) /\ t[k] = x
         /\ \A i \in DOMAIN s \ {k} : t[i] = s[i]
<1>1. Len(s) \in Nat /\ s \in [1..Len(s) -> S] /\ DOMAIN s = 1..Len(s)
  BY LenProperties
<1>2. t \in [1..Len(s) -> S] /\ t[k] = x /\ \A i \in DOMAIN s \ {k} : t[i] = s[i]
  BY <1>1
<1>3. t \in Seq(S) /\ Len(t) = Len(s)
  BY <1>1, ExceptSeq
<1> QED
  BY <1>1, <1>2, <1>3

\* A step that writes the challenges or the codes.
LEMMA ProofsGrown ==
  ASSUME Inv, Grows, NEW w \in Workers, Moves(w), TypeOK',
         UNCHANGED <<banks, credential, devices, sessions, profile>>
  PROVE  Inv'
<1>1. AccountsProven'
  BY AccountsKept DEF Inv
<1> QED
  BY <1>1, NoSession

LEMMA CreateChallengeStep ==
  ASSUME Inv, NEW w \in Workers, CreateChallenge(w)
  PROVE  Inv'
<1> DEFINE row == [user |-> User(w), method |-> PickChallengeMethod(User(w)),
                   status |-> "pending", attempts |-> 0, expiresAt |-> now + Lifetime]
<1>1. /\ job[w].pc = "createChallenge" /\ End(w) /\ challenges' = Append(challenges, row)
      /\ UNCHANGED <<now, calls, offered>>
      /\ UNCHANGED <<banks, credential, totp, devices, sessions, codes, profile, minted, history>>
  BY DEF CreateChallenge, At
<1>2. TypeOK /\ JobsTrue /\ challenges \in Seq(MfaChallenge)
  BY DEF Inv, TypeOK
<1>3. row \in MfaChallenge
  <2>1. User(w) \in Users
    BY <1>1, <1>2, Signed DEF ChallengeSteps, CodeSteps
  <2>2. now + Lifetime \in Nat
    BY <1>2, Numbers DEF TypeOK
  <2>3. PickChallengeMethod(User(w)) \in {"email", "totp"}
    BY DEF PickChallengeMethod
  <2> QED
    BY <2>1, <2>2, <2>3 DEF MfaChallenge
<1> HIDE DEF row
<1>4. /\ challenges' \in Seq(MfaChallenge)
      /\ \A i \in DOMAIN challenges : i \in DOMAIN challenges' /\ challenges'[i] = challenges[i]
  BY <1>1, <1>2, <1>3, RowAdded
<1>5. Grows
  BY <1>1, <1>4 DEF Grows, history
<1>6. TypeOK'
  BY <1>1, <1>2, <1>4 DEF TypeOK, history
<1> QED
  BY <1>1, <1>2, <1>5, <1>6, EndMoves, ProofsGrown DEF history

\* A right answer is the caller's own, or a step-up ends here.
LEMMA StepUpNext ==
  ASSUME NEW w, Op(w) \in StepUpOps, AfterChallenge(w) # "idle"
  PROVE  /\ OwnChallenge(w) /\ Op(w) # "verifyMfa"
         /\ AfterChallenge(w) \in {"readPassword", "readMethod", "checkSends", "readCredential",
                                   "readPin", "saveBank"}
         /\ <<Op(w), AfterChallenge(w)>> \in Routes
<1>0. Op(w) # "verifyMfa"
  BY DEF StepUpOps
<1>1. OwnChallenge(w)
  BY <1>0 DEF AfterChallenge
<1>2. CASE Op(w) = "changePassword"
  <2>1. AfterChallenge(w) = "readPassword"
    BY <1>1, <1>2 DEF AfterChallenge
  <2> QED
    BY <1>0, <1>1, <1>2, <2>1 DEF Routes
<1>3. CASE Op(w) = "enrollTotp"
  <2>1. AfterChallenge(w) = "readMethod"
    BY <1>1, <1>3 DEF AfterChallenge
  <2> QED
    BY <1>0, <1>1, <1>3, <2>1 DEF Routes
<1>4. CASE Op(w) \in {"changeEmail", "changePhone"}
  <2>1. AfterChallenge(w) = "checkSends"
    BY <1>1, <1>4 DEF AfterChallenge
  <2> QED
    BY <1>0, <1>1, <1>4, <2>1 DEF Routes
<1>5. CASE Op(w) \in {"setPin", "resetPin"}
  <2>1. AfterChallenge(w) = "readCredential"
    BY <1>1, <1>5 DEF AfterChallenge
  <2> QED
    BY <1>0, <1>1, <1>5, <2>1 DEF Routes
<1>6. CASE Op(w) = "changePin"
  <2>1. AfterChallenge(w) = "readPin"
    BY <1>1, <1>6 DEF AfterChallenge
  <2> QED
    BY <1>0, <1>1, <1>6, <2>1 DEF Routes
<1>7. CASE Op(w) = "saveBankAccount"
  <2>1. AfterChallenge(w) = "saveBank"
    BY <1>1, <1>7 DEF AfterChallenge
  <2> QED
    BY <1>0, <1>1, <1>7, <2>1 DEF Routes
<1> QED
  BY <1>2, <1>3, <1>4, <1>5, <1>6, <1>7 DEF StepUpOps

LEMMA SaveChallengeStep ==
  ASSUME Inv, NEW w \in Workers, SaveChallenge(w)
  PROVE  Inv'
<1> DEFINE row == job[w].row
           id == job[w].id
           wrong == WrongAnswer(row)
           right == [row EXCEPT !.status = "verified"]
<1>1. /\ job[w].pc = "saveChallenge"
      /\ \/ challenges' = [challenges EXCEPT ![id] = Save(w, wrong)] /\ End(w) /\ UNCHANGED passed
         \/ /\ challenges' = [challenges EXCEPT ![id] = Save(w, right)] /\ passed' = passed \cup {id}
            /\ IF AfterChallenge(w) = "idle" THEN End(w) ELSE Goto(w, AfterChallenge(w))
      /\ UNCHANGED <<now, calls, offered>>
      /\ UNCHANGED <<banks, credential, totp, devices, sessions, codes, profile, minted,
                     confirmed, replaced>>
  BY DEF SaveChallenge, Saving, At
<1>2. TypeOK /\ JobsTrue /\ challenges \in Seq(MfaChallenge) /\ passed \subseteq DOMAIN challenges
  BY DEF Inv, TypeOK
<1>3. /\ row \in MfaChallenge /\ id \in DOMAIN challenges /\ challenges[id].user = row.user
      /\ JobTyped(job[w]) /\ <<Op(w), job[w].pc>> \in Routes
  BY <1>1, <1>2, Working DEF CarriesChallenge
<1>4. Op(w) \in StepUpOps \cup {"verifyMfa"}
  BY <1>1, <1>3, OpAt DEF ChallengeSteps
<1>5. wrong \in MfaChallenge /\ wrong.user = row.user
  <2> HIDE DEF row
  <2>1. row.attempts + 1 \in Nat /\ row.status \in {"pending", "verified", "failed"}
    BY <1>3 DEF MfaChallenge
  <2> DEFINE n == row.attempts + 1
             s == IF row.attempts + 1 >= MaxChallengeAttempts THEN "failed" ELSE row.status
  <2>2. n \in Nat /\ s \in {"pending", "verified", "failed"}
    BY <2>1
  <2>3. wrong = [row EXCEPT !.attempts = n, !.status = s]
    BY DEF WrongAnswer
  <2> HIDE DEF n, s, wrong
  <2> QED
    BY <1>3, <2>2, <2>3 DEF MfaChallenge
<1>6. right \in MfaChallenge /\ right.user = row.user
  BY <1>3 DEF MfaChallenge
<1> HIDE DEF wrong, right
<1>13. ASSUME NEW entity \in MfaChallenge, entity.user = row.user
       PROVE  Save(w, entity) \in MfaChallenge /\ Save(w, entity).user = row.user
  <2> DEFINE old == challenges[id]
             new == Save(w, entity)
  <2>1. old \in MfaChallenge /\ old.user = row.user
    BY <1>2, <1>3, Tables
  <2>2. Stored(w) = old
    BY <1>1 DEF Stored, CredentialSaves, TotpSaves, SessionSaves
  <2> HIDE DEF old
  <2>3. DOMAIN old = {"user", "method", "status", "attempts", "expiresAt"}
    BY <2>1 DEF MfaChallenge
  <2>4. new = [user |-> new.user, method |-> new.method, status |-> new.status,
               attempts |-> new.attempts, expiresAt |-> new.expiresAt]
    BY <2>2, <2>3 DEF Save, Merge
  <2>5. /\ new.user \in {entity.user, old.user} /\ new.method \in {entity.method, old.method}
        /\ new.status \in {entity.status, old.status}
        /\ new.attempts \in {entity.attempts, old.attempts}
        /\ new.expiresAt \in {entity.expiresAt, old.expiresAt}
    BY <2>2, <2>3 DEF Save, Merge
  <2> HIDE DEF new
  <2>6. new \in MfaChallenge /\ new.user = row.user
    BY <1>13, <2>1, <2>4, <2>5 DEF MfaChallenge
  <2> QED
    BY <2>6 DEF new
<1>7. PICK new \in MfaChallenge : new.user = row.user /\ challenges' = [challenges EXCEPT ![id] = new]
  BY <1>1, <1>5, <1>6, <1>13
<1>8. /\ challenges' \in Seq(MfaChallenge) /\ DOMAIN challenges' = DOMAIN challenges
      /\ \A c \in DOMAIN challenges : challenges'[c].user = challenges[c].user
  <2>1. /\ challenges' \in Seq(MfaChallenge) /\ DOMAIN challenges' = DOMAIN challenges
        /\ challenges'[id] = new /\ \A c \in DOMAIN challenges \ {id} : challenges'[c] = challenges[c]
    BY <1>2, <1>3, <1>7, RowSaved
  <2> QED
    BY <1>3, <1>7, <2>1
<1>9. passed \subseteq passed' /\ passed' \subseteq DOMAIN challenges
  BY <1>1, <1>2, <1>3
<1>10. Grows
  BY <1>1, <1>8, <1>9 DEF Grows
<1>11. TypeOK'
  BY <1>1, <1>2, <1>8, <1>9 DEF TypeOK
<1>12. Moves(w)
  <2>1. CASE End(w)
    BY <1>2, <2>1, EndMoves
  <2>2. CASE id \in passed' /\ AfterChallenge(w) # "idle" /\ Goto(w, AfterChallenge(w))
    <3> DEFINE label == AfterChallenge(w)
    <3>1. /\ Op(w) # "verifyMfa" => row.user = User(w)
          /\ label \in {"issueDevice", "readPassword", "readMethod", "checkSends",
                        "readCredential", "readPin", "saveBank"}
          /\ label = "issueDevice" <=> Op(w) = "verifyMfa"
          /\ <<Op(w), label>> \in Routes
      <4>1. CASE Op(w) = "verifyMfa"
        <5>1. label = "issueDevice"
          BY <4>1 DEF AfterChallenge
        <5> QED
          BY <4>1, <5>1 DEF Routes
      <4>2. CASE Op(w) \in StepUpOps
        BY <2>2, <4>2, StepUpNext DEF OwnChallenge
      <4> QED
        BY <1>4, <4>1, <4>2
    <3> HIDE DEF label
    <3>2. label \in Steps
      BY <3>1 DEF Steps
    <3>3. /\ job'[w] \in JobRecord /\ job' = [job EXCEPT ![w] = job'[w]]
          /\ job'[w].pc = label /\ job'[w].op = job[w].op /\ job'[w].user = job[w].user
          /\ job'[w].id = job[w].id /\ job'[w].row = job[w].row
      BY <1>1, <1>2, <2>2, <3>2, Gone DEF label
    <3>4. JobTyped(job[w])'
      BY <1>3, <3>1, <3>3 DEF JobTyped, Op
    <3>5. CarriesChallenge(job[w])'
      BY <1>3, <1>8, <3>1, <3>3 DEF CarriesChallenge
    <3>6. JobProven(job[w])'
      <4>1. Op(w) # "verifyMfa" => Own(job[w].user, job[w].id)'
        BY <1>3, <1>8, <2>2, <3>1, <3>3 DEF Own, User
      <4> QED
        BY <1>4, <2>2, <3>1, <3>3, <4>1 DEF JobProven, Op, StepUpOps, ConfirmOps
    <3>7. /\ CarriesCredential(job[w])' /\ CarriesTotp(job[w])' /\ CarriesCode(job[w])'
          /\ CarriesSession(job[w])' /\ CarriesProfile(job[w])'
      BY <3>1, <3>3 DEF CarriesCredential, CarriesTotp, CarriesCode, CarriesSession, CarriesProfile
    <3> QED
      BY <3>1, <3>3, <3>4, <3>5, <3>6, <3>7 DEF Moves, JobTrue
  <2> QED
    BY <1>1, <2>1, <2>2
<1> QED
  BY <1>1, <1>10, <1>11, <1>12, ProofsGrown

-----------------------------------------------------------------------------
(* TOTP *)

LEMMA TotpStep ==
  ASSUME Inv, NEW w \in Workers, Moves(w), UNCHANGED <<now, calls, offered>>,
         UNCHANGED <<banks, credential, challenges, devices, sessions, codes, profile, history>>,
         minted' \in Nat, NEW u \in Users, NEW row \in MfaMethod,
         totp' = [totp EXCEPT ![u] = row]
  PROVE  Inv'
<1>1. Grows
  BY DEF Grows, history
<1>2. totp \in [Users -> MfaMethod]
  BY DEF Inv, TypeOK
<1>3. totp' \in [Users -> MfaMethod]
  BY <1>2
<1>4. TypeOK'
  BY <1>3 DEF Inv, TypeOK, history
<1>5. AccountsProven'
  BY <1>1, AccountsKept DEF Inv
<1> QED
  BY <1>1, <1>4, <1>5, NoSession

LEMMA SavedMethod ==
  ASSUME TypeOK, NEW w \in Workers, job[w].pc \in {"saveMethod", "saveTotp"},
         User(w) \in Users, NEW entity \in MfaMethod
  PROVE  Save(w, entity) \in MfaMethod
<1> DEFINE row == totp[User(w)]
           new == Save(w, entity)
<1>1. row \in MfaMethod
  BY Tables
<1>2. Stored(w) = row
  BY DEF Stored, CredentialSaves, TotpSaves, SessionSaves
<1> HIDE DEF row
<1>3. DOMAIN row = {"status", "secret"}
  BY <1>1 DEF MfaMethod
<1>4. new = [status |-> new.status, secret |-> new.secret]
  BY <1>2, <1>3 DEF Save, Merge
<1>5. new.status \in {entity.status, row.status} /\ new.secret \in {entity.secret, row.secret}
  BY <1>2, <1>3 DEF Save, Merge
<1> HIDE DEF new
<1>6. new \in MfaMethod
  BY <1>1, <1>4, <1>5 DEF MfaMethod
<1> QED
  BY <1>6 DEF new

LEMMA SaveMethodStep ==
  ASSUME Inv, NEW w \in Workers, SaveMethod(w)
  PROVE  Inv'
<1>1. /\ job[w].pc = "saveMethod" /\ End(w) /\ UNCHANGED <<now, calls, offered>>
      /\ UNCHANGED <<banks, credential, challenges, devices, sessions, codes, profile, history>>
      /\ \/ UNCHANGED <<totp, minted>>
         \/ /\ \E row \in {NewMethod, Save(w, NewMethod)} : totp' = [totp EXCEPT ![User(w)] = row]
            /\ minted' = minted + 1
  BY DEF SaveMethod, At
<1>2. TypeOK /\ JobsTrue
  BY DEF Inv
<1>3. CASE UNCHANGED <<totp, minted>>
  <2>1. UNCHANGED <<rows, passed, replaced, now>> /\ calls' \in 0..MaxCalls
    BY <1>1, <1>2, <1>3 DEF rows, history, TypeOK
  <2> QED
    BY <1>1, <1>2, <2>1, ReadsGrow, EndMoves, ReadStep
<1>4. ASSUME NEW row \in {NewMethod, Save(w, NewMethod)}, totp' = [totp EXCEPT ![User(w)] = row],
             minted' = minted + 1
      PROVE  Inv'
  <2>1. minted \in Nat
    BY <1>2 DEF TypeOK
  <2>2. minted' \in Nat
    BY <1>4, <2>1
  <2>3. NewMethod \in MfaMethod
    BY <2>1 DEF MfaMethod, NewMethod
  <2>4. User(w) \in Users
    BY <1>1, <1>2, Signed DEF ChallengeSteps, CodeSteps
  <2>5. row \in MfaMethod
    BY <1>1, <1>2, <1>4, <2>3, <2>4, SavedMethod
  <2> QED
    BY <1>1, <1>2, <1>4, <2>2, <2>4, <2>5, EndMoves, TotpStep
<1> QED
  BY <1>1, <1>3, <1>4

LEMMA SaveTotpStep ==
  ASSUME Inv, NEW w \in Workers, SaveTotp(w)
  PROVE  Inv'
<1> DEFINE entity == [job[w].row EXCEPT !.status = "active"]
<1>1. /\ job[w].pc = "saveTotp" /\ End(w) /\ UNCHANGED <<now, calls, offered>>
      /\ totp' = [totp EXCEPT ![User(w)] = Save(w, entity)]
      /\ UNCHANGED <<banks, credential, challenges, devices, sessions, codes, profile, minted, history>>
  BY DEF SaveTotp, Saving, At
<1>2. TypeOK /\ JobsTrue
  BY DEF Inv
<1>3. User(w) \in Users
  BY <1>1, <1>2, Signed DEF ChallengeSteps, CodeSteps
<1>4. job[w].row \in MfaMethod
  BY <1>1, <1>2, Working DEF CarriesTotp
<1>5. entity \in MfaMethod
  BY <1>4 DEF MfaMethod
<1> HIDE DEF entity
<1>6. Save(w, entity) \in MfaMethod /\ minted' \in Nat
  BY <1>1, <1>2, <1>3, <1>5, SavedMethod DEF TypeOK
<1> QED
  BY <1>1, <1>2, <1>3, <1>6, EndMoves, TotpStep

-----------------------------------------------------------------------------
(* Codes *)

LEMMA IssueCodeStep ==
  ASSUME Inv, NEW w \in Workers, IssueCode(w)
  PROVE  Inv'
<1>1. PICK v \in CodeValues :
        codes' = Append(codes, [user |-> User(w), purpose |-> Purpose(w), value |-> v,
                                expiresAt |-> now + Lifetime, createdAt |-> now,
                                used |-> FALSE])
  BY DEF IssueCode
<1> DEFINE row == [user |-> User(w), purpose |-> Purpose(w), value |-> v,
                   expiresAt |-> now + Lifetime, createdAt |-> now,
                   used |-> FALSE]
<1>2. /\ job[w].pc = "issueCode" /\ End(w) /\ UNCHANGED <<now, calls, offered>>
      /\ UNCHANGED <<banks, credential, totp, challenges, devices, sessions, profile, minted, history>>
  BY DEF IssueCode, At
<1>3. TypeOK /\ JobsTrue /\ codes \in Seq(VerificationCode)
  BY DEF Inv, TypeOK
<1>4. row \in VerificationCode
  <2>1. User(w) \in Users
    BY <1>2, <1>3, Signed DEF ChallengeSteps, CodeSteps
  <2>2. now \in Nat
    BY <1>3 DEF TypeOK
  <2>3. now + Lifetime \in Nat
    BY <2>2, Numbers
  <2>4. Purpose(w) \in Purposes \cup {"password"}
    <3>1. <<Op(w), job[w].pc>> \in Routes
      BY <1>2, <1>3, OpNow
    <3>2. Op(w) \in {"changeEmail", "changePhone", "requestReset", "resendEmail", "resendPhone"}
      BY <1>2, <3>1, OpAt
    <3> QED
      BY <3>2 DEF Purpose, PurposeOf, Purposes
  <2> QED
    BY <2>1, <2>2, <2>3, <2>4 DEF VerificationCode
<1>5. codes' = Append(codes, row)
  BY <1>1
<1> HIDE DEF row
<1>6. /\ codes' \in Seq(VerificationCode)
      /\ \A k \in DOMAIN codes : k \in DOMAIN codes' /\ codes'[k] = codes[k]
  BY <1>3, <1>4, <1>5, RowAdded
<1>7. Grows
  BY <1>2, <1>6 DEF Grows, history
<1>8. TypeOK'
  BY <1>2, <1>3, <1>6 DEF TypeOK, history
<1> QED
  BY <1>2, <1>3, <1>7, <1>8, EndMoves, ProofsGrown DEF history

\* The request goes on for the user whose code it consumed.
ActsFor(w, label, user) == job' = [job EXCEPT ![w].pc = label, ![w].user = user]

LEMMA Acting ==
  ASSUME JobsTrue, NEW w \in Workers, job[w].pc # "idle", NEW label \in Steps,
         NEW user \in Users, ActsFor(w, label, user)
  PROVE  /\ job'[w] \in JobRecord /\ job' = [job EXCEPT ![w] = job'[w]]
         /\ job'[w].pc = label /\ job'[w].op = job[w].op /\ job'[w].user = user
         /\ job'[w].id = job[w].id /\ job'[w].row = job[w].row
<1>1. job[w] \in JobRecord /\ job = [v \in Workers |-> job[v]]
  BY Working
<1>2. job' = [job EXCEPT ![w] = [job[w] EXCEPT !.pc = label, !.user = user]]
  BY <1>1 DEF JobRecord, ActsFor
<1>3. /\ job'[w] = [job[w] EXCEPT !.pc = label, !.user = user]
      /\ job' = [job EXCEPT ![w] = job'[w]]
  BY <1>1, <1>2
<1>4. user \in 0..NumUsers
  BY AuthAssumption DEF Users
<1> QED
  BY <1>1, <1>3, <1>4 DEF JobRecord

LEMMA SaveCodeStep ==
  ASSUME Inv, NEW w \in Workers, SaveCode(w)
  PROVE  Inv'
<1> DEFINE row == job[w].row
           id == job[w].id
           entity == [row EXCEPT !.used = TRUE]
           new == Save(w, entity)
<1>1. /\ job[w].pc = "saveCode" /\ codes' = [codes EXCEPT ![id] = new] /\ job[w].base # Idle
      /\ UNCHANGED <<now, calls, offered>>
      /\ UNCHANGED <<banks, credential, totp, challenges, devices, sessions, profile, minted, history>>
  BY DEF SaveCode, Saving, At
<1>2. TypeOK /\ JobsTrue /\ codes \in Seq(VerificationCode)
  BY DEF Inv, TypeOK
<1>3. /\ row \in VerificationCode /\ id \in DOMAIN codes /\ codes[id].user = row.user
      /\ codes[id].purpose = PurposeOf(Op(w)) /\ row.purpose = PurposeOf(Op(w))
      /\ JobTyped(job[w]) /\ <<Op(w), job[w].pc>> \in Routes
  BY <1>1, <1>2, Working DEF CarriesCode, Op
<1>4. Op(w) \in ConfirmOps \cup {"verifyEmail", "verifyPhone", "completeReset"}
  BY <1>1, <1>3, OpAt DEF CodeSteps
<1>5. /\ new \in VerificationCode /\ new.user = row.user /\ new.purpose = row.purpose
      /\ new.used
  <2> DEFINE old == codes[id]
  <2>1. old \in VerificationCode /\ old.user = row.user /\ old.purpose = row.purpose
    BY <1>2, <1>3, Tables
  <2>2. Stored(w) = old
    BY <1>1 DEF Stored, CredentialSaves, TotpSaves, SessionSaves
  <2>3. /\ entity \in VerificationCode /\ entity.user = row.user
        /\ entity.purpose = row.purpose /\ entity.used
    BY <1>3 DEF VerificationCode
  <2> HIDE DEF old, entity
  <2>4. DOMAIN old = {"user", "purpose", "value", "expiresAt", "createdAt", "used"}
    BY <2>1 DEF VerificationCode
  <2>5. new = [user |-> new.user, purpose |-> new.purpose, value |-> new.value,
               expiresAt |-> new.expiresAt, createdAt |-> new.createdAt, used |-> new.used]
    BY <2>2, <2>4 DEF Save, Merge
  <2>6. /\ new.user \in {entity.user, old.user} /\ new.purpose \in {entity.purpose, old.purpose}
        /\ new.value \in {entity.value, old.value}
        /\ new.expiresAt \in {entity.expiresAt, old.expiresAt}
        /\ new.createdAt \in {entity.createdAt, old.createdAt}
    BY <2>2, <2>4 DEF Save, Merge
  <2>7. new.used = IF entity.used # job[w].base.used THEN entity.used ELSE old.used
    BY <2>2, <2>4 DEF Save, Merge
  <2>8. job[w].base \in VerificationCode /\ (job[w].base.used => old.used)
    BY <1>1, <1>2, Working DEF CarriesCode, old
  <2>9. entity.used \in BOOLEAN /\ job[w].base.used \in BOOLEAN /\ old.used \in BOOLEAN
    BY <2>1, <2>3, <2>8 DEF VerificationCode
  <2> HIDE DEF new
  <2>10. new.used /\ new.used \in BOOLEAN
    BY <2>3, <2>7, <2>8, <2>9
  <2> QED
    BY <2>1, <2>3, <2>5, <2>6, <2>10 DEF VerificationCode
<1> HIDE DEF new
<1>6. /\ codes' \in Seq(VerificationCode) /\ DOMAIN codes' = DOMAIN codes
      /\ codes'[id] = new /\ \A k \in DOMAIN codes \ {id} : codes'[k] = codes[k]
  BY <1>1, <1>2, <1>3, <1>5, RowSaved
<1>7. Grows
  BY <1>1, <1>3, <1>5, <1>6 DEF Grows, history
<1>8. TypeOK'
  BY <1>1, <1>2, <1>6 DEF TypeOK, history
<1>9. id \in DOMAIN codes' /\ codes'[id].used /\ codes'[id].user = row.user
      /\ codes'[id].purpose = PurposeOf(Op(w)) /\ row.user \in Users
  BY <1>3, <1>5, <1>6 DEF VerificationCode
<1> HIDE DEF row, id
<1>10. \/ End(w)
       \/ Op(w) \in ConfirmOps /\ row.user = User(w) /\ Goto(w, "readProfile")
       \/ Op(w) \in {"verifyEmail", "verifyPhone"} /\ ActsFor(w, "markVerified", row.user)
       \/ Op(w) = "completeReset" /\ ActsFor(w, "resetPassword", row.user)
  <2>1. CASE Op(w) \in ConfirmOps
    BY <2>1 DEF SaveCode, ConfirmOps, OwnCode, row
  <2>2. CASE Op(w) \in {"verifyEmail", "verifyPhone"}
    BY <2>2 DEF SaveCode, ActsFor, row
  <2>3. CASE Op(w) = "completeReset"
    BY <2>3 DEF SaveCode, ActsFor, row
  <2> QED
    BY <1>4, <2>1, <2>2, <2>3
<1>11. ASSUME NEW label \in {"readProfile", "markVerified", "resetPassword"},
              <<Op(w), label>> \in Routes,
              job' = [job EXCEPT ![w] = job'[w]], job'[w] \in JobRecord, job'[w].pc = label,
              job'[w].op = job[w].op, job'[w].user = row.user, job'[w].id = job[w].id
       PROVE  Moves(w)
  <2>1. JobTyped(job[w])'
    BY <1>9, <1>11 DEF JobTyped, Op
  <2>2. UsedCode(job[w].user, job[w].id, PurposeOf(job[w].op))' /\ job'[w].id \in DOMAIN codes'
    BY <1>9, <1>11 DEF UsedCode, Op, id
  <2>3. JobProven(job[w])'
    BY <1>4, <1>11, <2>2 DEF JobProven, Op, StepUpOps, ConfirmOps
  <2>4. /\ CarriesCredential(job[w])' /\ CarriesTotp(job[w])' /\ CarriesChallenge(job[w])'
        /\ CarriesSession(job[w])' /\ CarriesCode(job[w])' /\ CarriesProfile(job[w])'
    BY <1>11 DEF CarriesCredential, CarriesTotp, CarriesChallenge, CarriesSession, CarriesCode,
                 CarriesProfile
  <2> QED
    BY <1>11, <2>1, <2>3, <2>4 DEF Moves, JobTrue
<1>12. ASSUME Op(w) \in ConfirmOps /\ row.user = User(w) /\ Goto(w, "readProfile")
       PROVE  Moves(w)
  <2>1. <<Op(w), "readProfile">> \in Routes
    BY <1>12 DEF Routes
  <2>2. "readProfile" \in Steps
    BY <2>1 DEF Steps
  <2>3. /\ job'[w] \in JobRecord /\ job' = [job EXCEPT ![w] = job'[w]]
        /\ job'[w].pc = "readProfile" /\ job'[w].op = job[w].op /\ job'[w].user = job[w].user
        /\ job'[w].id = job[w].id
    BY <1>1, <1>2, <1>12, <2>2, Gone
  <2> QED
    BY <1>11, <1>12, <2>1, <2>3 DEF User
<1>13. ASSUME Op(w) \in {"verifyEmail", "verifyPhone"} /\ ActsFor(w, "markVerified", row.user)
       PROVE  Moves(w)
  <2>1. <<Op(w), "markVerified">> \in Routes
    BY <1>13 DEF Routes
  <2>2. "markVerified" \in Steps
    BY <2>1 DEF Steps
  <2>3. /\ job'[w] \in JobRecord /\ job' = [job EXCEPT ![w] = job'[w]]
        /\ job'[w].pc = "markVerified" /\ job'[w].op = job[w].op /\ job'[w].user = row.user
        /\ job'[w].id = job[w].id
    BY <1>1, <1>2, <1>9, <1>13, <2>2, Acting
  <2> QED
    BY <1>11, <2>1, <2>3
<1>14. ASSUME Op(w) = "completeReset" /\ ActsFor(w, "resetPassword", row.user)
       PROVE  Moves(w)
  <2>1. <<Op(w), "resetPassword">> \in Routes
    BY <1>14 DEF Routes
  <2>2. "resetPassword" \in Steps
    BY <2>1 DEF Steps
  <2>3. /\ job'[w] \in JobRecord /\ job' = [job EXCEPT ![w] = job'[w]]
        /\ job'[w].pc = "resetPassword" /\ job'[w].op = job[w].op /\ job'[w].user = row.user
        /\ job'[w].id = job[w].id
    BY <1>1, <1>2, <1>9, <1>14, <2>2, Acting
  <2> QED
    BY <1>11, <2>1, <2>3
<1>15. Moves(w)
  BY <1>2, <1>10, <1>12, <1>13, <1>14, EndMoves
<1> QED
  BY <1>1, <1>7, <1>8, <1>15, ProofsGrown DEF history

-----------------------------------------------------------------------------
(* Users and bank accounts *)

\* A step that writes one user's addresses, which were shown for.
LEMMA ProfileStep ==
  ASSUME Inv, NEW w \in Workers, Moves(w), UNCHANGED <<now, calls, offered>>,
         UNCHANGED <<banks, credential, totp, challenges, devices, sessions, codes, minted, history>>,
         NEW u \in Users, NEW row \in Profile, ProfileProven(u, row),
         profile' = [profile EXCEPT ![u] = row]
  PROVE  Inv'
<1>1. Grows
  BY DEF Grows, history
<1>2. profile \in [Users -> Profile]
  BY DEF Inv, TypeOK, Profile
<1>3. profile' \in [Users -> Profile] /\ profile'[u] = row
      /\ \A v \in Users \ {u} : profile'[v] = profile[v]
  BY <1>2
<1>4. TypeOK'
  BY <1>3 DEF Inv, TypeOK, history, Profile
<1>6. ASSUME NEW v \in Users
      PROVE  ProfileProven(v, profile[v])'
  <2>1. ProfileProven(v, profile'[v])
    BY <1>3 DEF Inv, AccountsProven
  <2> QED
    BY <2>1 DEF ProfileProven, ContactProven, Own, UsedCode, history
<1>7. AccountsProven'
  <2>1. \A v \in Users : CredentialProven(v, credential[v])'
    BY DEF Inv, AccountsProven, CredentialProven, PasswordProven, Own, UsedCode, history
  <2>2. \A account \in banks' : Own(account.user, account.by)'
    BY DEF Inv, AccountsProven, Own, history
  <2> QED
    BY <1>6, <2>1, <2>2 DEF AccountsProven
<1> QED
  BY <1>1, <1>4, <1>7, NoSession

\* One address of a user changes.
LEMMA ContactStep ==
  ASSUME Inv, NEW u \in Users, NEW p \in Purposes, NEW contact \in Contact,
         ContactProven(u, p, contact),
         NEW old \in Profile, ProfileProven(u, old)
  PROVE  /\ [old EXCEPT ![p] = contact] \in Profile
         /\ ProfileProven(u, [old EXCEPT ![p] = contact])
<1> DEFINE row == [old EXCEPT ![p] = contact]
<1>1. row \in Profile /\ row[p] = contact /\ \A q \in Purposes \ {p} : row[q] = old[q]
  BY DEF Profile
<1> HIDE DEF row
<1>2. ProfileProven(u, row)
  BY <1>1 DEF ProfileProven
<1> QED
  BY <1>1, <1>2 DEF row

LEMMA SetPendingStep ==
  ASSUME Inv, NEW w \in Workers, SetPending(w)
  PROVE  Inv'
<1> DEFINE u == User(w)
           p == Purpose(w)
<1>1. /\ job[w].pc = "setPending" /\ Goto(w, "issueCode") /\ UNCHANGED <<now, calls, offered>>
      /\ UNCHANGED <<banks, credential, totp, challenges, devices, sessions, codes, minted, history>>
  BY DEF SetPending, At
<1>2. PICK a \in Addresses : profile' = [profile EXCEPT ![u][p].pending = [to |-> a, by |-> job[w].id]]
  BY DEF SetPending
<1>3. TypeOK /\ JobsTrue /\ Grows
  BY <1>1 DEF Inv, Grows, history
<1>4. Op(w) \in {"changeEmail", "changePhone"} /\ u \in Users
  <2>1. <<Op(w), job[w].pc>> \in Routes
    BY <1>1, <1>3, OpNow
  <2>2. Op(w) \in {"changeEmail", "changePhone"}
    BY <1>1, <2>1, OpAt
  <2> QED
    BY <1>1, <1>3, <2>2, Signed DEF ChallengeSteps, CodeSteps
<1>5. p \in Purposes
  BY <1>4 DEF Purpose, PurposeOf, Purposes
<1>6. Own(u, job[w].id)
  <2>1. JobProven(job[w])
    BY <1>1, <1>3, Working
  <2> QED
    BY <1>1, <1>4, <2>1 DEF JobProven, StepUpOps, ChallengeSteps, Op, User
<1>7. job[w].id \in Nat
  <2>1. DOMAIN challenges \subseteq Nat /\ passed \subseteq DOMAIN challenges
    BY <1>3, Tables DEF TypeOK
  <2> QED
    BY <1>6, <2>1 DEF Own
<1> DEFINE old == profile[u]
           address == [to |-> a, by |-> job[w].id]
           contact == [old[p] EXCEPT !.pending = address]
<1>8. old \in Profile /\ ProfileProven(u, old)
  BY <1>3, <1>4, Tables DEF Inv, AccountsProven
<1>9. address \in Address /\ address.by = job[w].id
  BY <1>7, AuthAssumption DEF Address
<1>10. profile' = [profile EXCEPT ![u] = [old EXCEPT ![p] = contact]]
  BY <1>2
<1> HIDE DEF address, old
<1>11. contact \in Contact /\ contact.live = old[p].live /\ contact.pending = address
  <2>1. old[p] \in Contact
    BY <1>5, <1>8 DEF Profile
  <2> QED
    BY <1>9, <2>1 DEF Contact
<1> HIDE DEF contact
<1>12. ContactProven(u, p, contact)
  BY <1>5, <1>6, <1>8, <1>9, <1>11 DEF ProfileProven, ContactProven
<1>13. [old EXCEPT ![p] = contact] \in Profile /\ ProfileProven(u, [old EXCEPT ![p] = contact])
  BY <1>4, <1>5, <1>8, <1>11, <1>12, ContactStep
<1>14. Moves(w)
  <2>1. <<Op(w), "issueCode">> \in Routes
    BY <1>4 DEF Routes
  <2> QED
    BY <1>1, <1>3, <2>1, GotoStep DEF Moves, ChallengeSteps, CodeSteps
<1> QED
  BY <1>1, <1>4, <1>10, <1>13, <1>14, ProfileStep

LEMMA MarkVerifiedStep ==
  ASSUME Inv, NEW w \in Workers, MarkVerified(w)
  PROVE  Inv'
<1> DEFINE u == User(w)
           p == Purpose(w)
           old == profile[u]
           contact == [old[p] EXCEPT !.verified = TRUE]
<1>1. /\ job[w].pc = "markVerified" /\ End(w) /\ UNCHANGED <<now, calls, offered>>
      /\ profile' = [profile EXCEPT ![u] = [old EXCEPT ![p] = contact]]
      /\ UNCHANGED <<banks, credential, totp, challenges, devices, sessions, codes, minted, history>>
  BY DEF MarkVerified, At
<1>2. TypeOK /\ JobsTrue
  BY DEF Inv
<1>3. Op(w) \in {"verifyEmail", "verifyPhone"} /\ u \in Users
  <2>1. <<Op(w), job[w].pc>> \in Routes
    BY <1>1, <1>2, OpNow
  <2>2. Op(w) \in {"verifyEmail", "verifyPhone"}
    BY <1>1, <2>1, OpAt
  <2> QED
    BY <1>1, <1>2, <2>2, Signed DEF ChallengeSteps, CodeSteps
<1>4. p \in Purposes
  BY <1>3 DEF Purpose, PurposeOf, Purposes
<1>5. old \in Profile /\ ProfileProven(u, old)
  BY <1>2, <1>3, Tables DEF Inv, AccountsProven
<1> HIDE DEF old
<1>6. contact \in Contact /\ contact.live = old[p].live /\ contact.pending = old[p].pending
  <2>1. old[p] \in Contact
    BY <1>4, <1>5 DEF Profile
  <2> QED
    BY <2>1 DEF Contact
<1> HIDE DEF contact
<1>7. ContactProven(u, p, contact)
  BY <1>4, <1>5, <1>6 DEF ProfileProven, ContactProven
<1>8. [old EXCEPT ![p] = contact] \in Profile /\ ProfileProven(u, [old EXCEPT ![p] = contact])
  BY <1>3, <1>4, <1>5, <1>6, <1>7, ContactStep
<1> QED
  BY <1>1, <1>2, <1>3, <1>8, EndMoves, ProfileStep

LEMMA MergedProfile ==
  ASSUME NEW u \in Users, NEW base,
         NEW entity \in Profile, ProfileProven(u, entity), NEW row \in Profile, ProfileProven(u, row),
         NEW new, new = [p \in Purposes |-> Merge(entity[p], base[p], row[p])]
  PROVE  new \in Profile /\ ProfileProven(u, new)
<1>1. ASSUME NEW p \in Purposes
      PROVE  new[p] \in Contact /\ ContactProven(u, p, new[p])
  <2> DEFINE e == entity[p]
             r == row[p]
             b == base[p]
             n == new[p]
  <2>1. e \in Contact /\ ContactProven(u, p, e) /\ r \in Contact /\ ContactProven(u, p, r)
    BY DEF Profile, ProfileProven
  <2>2. n = Merge(e, b, r)
    OBVIOUS
  <2> HIDE DEF e, r, b, n
  <2>3. DOMAIN r = {"live", "pending", "verified"}
    BY <2>1 DEF Contact
  <2>4. n = [live |-> n.live, pending |-> n.pending, verified |-> n.verified]
    BY <2>2, <2>3 DEF Merge
  <2>5. n.live \in {e.live, r.live} /\ n.pending \in {e.pending, r.pending}
        /\ n.verified \in {e.verified, r.verified}
    BY <2>2, <2>3 DEF Merge
  <2>6. n \in Contact
    BY <2>1, <2>4, <2>5 DEF Contact
  <2>7. ContactProven(u, p, n)
    BY <2>1, <2>5 DEF ContactProven
  <2> QED
    BY <2>6, <2>7 DEF n
<1> QED
  BY <1>1 DEF Profile, ProfileProven

LEMMA SaveProfileStep ==
  ASSUME Inv, NEW w \in Workers, SaveProfile(w)
  PROVE  Inv'
<1> DEFINE u == User(w)
           p == Purpose(w)
           old == job[w].row
           saved(entity) == [q \in Purposes |-> Merge(entity[q], job[w].base[q], profile[u][q])]
           contact == [live |-> old[p].pending, pending |-> NoAddress, verified |-> TRUE]
<1>1. /\ job[w].pc = "saveProfile" /\ UNCHANGED <<now, calls, offered>>
      /\ UNCHANGED <<banks, credential, totp, challenges, devices, sessions, codes, minted, history>>
      /\ \/ End(w) /\ UNCHANGED profile
         \/ Op(w) = "updateProfile" /\ profile' = [profile EXCEPT ![u] = saved(old)] /\ End(w)
         \/ /\ Op(w) # "updateProfile" /\ profile' = [profile EXCEPT ![u] = saved(Confirmed(old, p))]
            /\ EndOrRevokeSessions(w)
  BY DEF SaveProfile, Saving, At
<1>2. TypeOK /\ JobsTrue /\ Grows
  BY <1>1 DEF Inv, Grows, history
<1>3. Op(w) \in ConfirmOps \cup {"updateProfile"} /\ u \in Users
  <2>1. <<Op(w), job[w].pc>> \in Routes
    BY <1>1, <1>2, OpNow
  <2>2. Op(w) \in ConfirmOps \cup {"updateProfile"}
    BY <1>1, <2>1, OpAt
  <2> QED
    BY <1>1, <1>2, <2>2, Signed DEF ChallengeSteps, CodeSteps
<1>4. /\ old \in Profile /\ ProfileProven(u, old) /\ JobProven(job[w])
      /\ Op(w) \in ConfirmOps => old[p].pending # NoAddress
  BY <1>1, <1>2, Working DEF CarriesProfile, User, Op, Purpose
<1>5. CASE End(w) /\ UNCHANGED profile
  <2>1. UNCHANGED <<rows, passed, replaced, now>> /\ calls' \in 0..MaxCalls
    BY <1>1, <1>2, <1>5 DEF rows, history, TypeOK
  <2> QED
    BY <1>2, <1>5, <2>1, EndMoves, ReadStep
<1>8. ASSUME NEW entity \in Profile, ProfileProven(u, entity)
      PROVE  saved(entity) \in Profile /\ ProfileProven(u, saved(entity))
  <2>1. profile[u] \in Profile /\ ProfileProven(u, profile[u])
    BY <1>2, <1>3, Tables DEF Inv, AccountsProven
  <2> QED
    BY <1>3, <1>8, <2>1, MergedProfile
<1> HIDE DEF saved
<1>6. CASE profile' = [profile EXCEPT ![u] = saved(old)] /\ End(w)
  BY <1>1, <1>2, <1>3, <1>4, <1>6, <1>8, EndMoves, ProfileStep
<1>7. CASE /\ Op(w) # "updateProfile" /\ profile' = [profile EXCEPT ![u] = saved(Confirmed(old, p))]
           /\ EndOrRevokeSessions(w)
  <2>1. Op(w) \in ConfirmOps /\ p \in Purposes
    BY <1>3, <1>7 DEF ConfirmOps, Purpose, PurposeOf, Purposes
  <2>2. job[w].id \in DOMAIN codes /\ UsedCode(u, job[w].id, p)
    BY <1>1, <1>4, <2>1 DEF JobProven, CodeSteps, Op, User, Purpose
  <2>3. Own(u, old[p].pending.by) /\ old[p] \in Contact
    BY <1>4, <2>1 DEF ProfileProven, ContactProven, Profile
  <2>4. Confirmed(old, p) = [old EXCEPT ![p] = contact]
    BY DEF Confirmed
  <2> HIDE DEF old
  <2>5. contact \in Contact /\ contact.live = old[p].pending /\ contact.pending = NoAddress
    <3>1. NoAddress \in Address
      BY DEF NoAddress, Address
    <3>2. old[p].pending \in Address
      BY <2>3, <3>1 DEF Contact
    <3> QED
      BY <3>1, <3>2 DEF Contact
  <2> HIDE DEF contact
  <2>6. ContactProven(u, p, contact)
    BY <2>2, <2>3, <2>5 DEF ContactProven
  <2>7. Confirmed(old, p) \in Profile /\ ProfileProven(u, Confirmed(old, p))
    <3>1. [old EXCEPT ![p] = contact] \in Profile /\ ProfileProven(u, [old EXCEPT ![p] = contact])
      BY <1>3, <1>4, <2>1, <2>5, <2>6, ContactStep
    <3> QED
      BY <2>4, <3>1
  <2>8. Moves(w)
    BY <1>1, <1>2, <1>3, <1>7, <2>1, RevokeNext DEF ChallengeSteps, CodeSteps
  <2> QED
    BY <1>1, <1>3, <1>7, <1>8, <2>7, <2>8, ProfileStep
<1> QED
  BY <1>1, <1>5, <1>6, <1>7

LEMMA SaveBankAccountStep ==
  ASSUME Inv, NEW w \in Workers, SaveBankAccount(w)
  PROVE  Inv'
<1>1. /\ job[w].pc = "saveBank" /\ End(w) /\ UNCHANGED <<now, calls, offered>>
      /\ UNCHANGED <<credential, totp, challenges, devices, sessions, codes, profile, minted, history>>
      /\ \/ UNCHANGED banks
         \/ \E n \in BankNumbers : banks' = banks \cup {[user |-> User(w), number |-> n, by |-> job[w].id]}
  BY DEF SaveBankAccount, At
<1>2. TypeOK /\ JobsTrue /\ Grows
  BY <1>1 DEF Inv, Grows, history
<1>3. Op(w) = "saveBankAccount" /\ User(w) \in Users
  <2>1. <<Op(w), job[w].pc>> \in Routes
    BY <1>1, <1>2, OpNow
  <2>2. Op(w) = "saveBankAccount"
    BY <1>1, <2>1, OpAt
  <2> QED
    BY <1>1, <1>2, <2>2, Signed DEF ChallengeSteps, CodeSteps
<1>4. Own(User(w), job[w].id)
  <2>1. JobProven(job[w])
    BY <1>1, <1>2, Working
  <2> QED
    BY <1>1, <1>3, <2>1 DEF JobProven, StepUpOps, ChallengeSteps, Op, User
<1>5. job[w].id \in Nat
  <2>1. DOMAIN challenges \subseteq Nat /\ passed \subseteq DOMAIN challenges
    BY <1>2, Tables DEF TypeOK
  <2> QED
    BY <1>4, <2>1 DEF Own
<1>6. banks' \subseteq BankAccount /\ \A account \in banks' : Own(account.user, account.by)
  <2>1. banks \subseteq BankAccount /\ \A account \in banks : Own(account.user, account.by)
    BY DEF Inv, TypeOK, AccountsProven
  <2>2. ASSUME NEW n \in BankNumbers
        PROVE  [user |-> User(w), number |-> n, by |-> job[w].id] \in BankAccount
    BY <1>3, <1>5 DEF BankAccount
  <2> QED
    BY <1>1, <1>4, <2>1, <2>2
<1>7. TypeOK'
  BY <1>1, <1>2, <1>6 DEF TypeOK, history
<1>9. AccountsProven'
  <2>1. \A v \in Users : CredentialProven(v, credential[v])'
    BY <1>1 DEF Inv, AccountsProven, CredentialProven, PasswordProven, Own, UsedCode, history
  <2>2. \A v \in Users : ProfileProven(v, profile[v])'
    BY <1>1 DEF Inv, AccountsProven, ProfileProven, ContactProven, Own, UsedCode, history
  <2>3. \A account \in banks' : Own(account.user, account.by)'
    BY <1>1, <1>6 DEF Own, history
  <2> QED
    BY <2>1, <2>2, <2>3 DEF AccountsProven
<1> QED
  BY <1>1, <1>2, <1>7, <1>9, EndMoves, NoSession

-----------------------------------------------------------------------------
(* Sessions *)

\* A session of an earned device.
Earned(session) ==
  /\ session.device \in DOMAIN devices /\ devices[session.device].user = session.user
  /\ devices[session.device].challenge \in passed
  /\ challenges[devices[session.device].challenge].user = session.user

LEMMA EarnedStays ==
  ASSUME TypeOK, Grows, SessionsEarned, NEW s \in DOMAIN sessions
  PROVE  Earned(sessions[s])'
<1> DEFINE x == sessions[s]
           y == sessions'[s]
           c == devices[x.device].challenge
<1>1. Earned(x) /\ y.user = x.user /\ y.device = x.device
  BY DEF SessionsEarned, Earned, Grows
<1>2. x.device \in DOMAIN devices' /\ devices'[x.device] = devices[x.device]
  BY <1>1 DEF Earned, Grows
<1>3. c \in passed' /\ challenges'[c].user = x.user
  BY <1>1 DEF Earned, Grows, TypeOK
<1> QED
  BY <1>1, <1>2, <1>3 DEF Earned

\* A step that writes sessions.
LEMMA SessionStep ==
  ASSUME Inv, Grows, NEW w \in Workers, Moves(w), TypeOK',
         UNCHANGED <<banks, credential, profile>>, DevicesEarned',
         \A s \in DOMAIN sessions' \ DOMAIN sessions : Earned(sessions[s])'
  PROVE  Inv'
<1>1. TypeOK /\ JobsTrue
  BY DEF Inv
<1>2. JobsTrue'
  BY <1>1, OneWorker DEF Moves
<1>3. SessionsEarned'
  <2>1. \A s \in DOMAIN sessions' : Earned(sessions[s])'
    BY EarnedStays DEF Inv
  <2> QED
    BY <2>1 DEF SessionsEarned, Earned
<1>4. AccountsProven'
  BY AccountsKept DEF Inv
<1> QED
  BY <1>2, <1>3, <1>4 DEF Inv

LEMMA NewSessionStep ==
  ASSUME Inv, NEW w \in Workers, End(w), NEW u \in Users, NEW d \in Nat, NewSession(u, d),
         UNCHANGED <<now, calls, offered>>,
         UNCHANGED <<banks, credential, totp, challenges, codes, profile, history>>,
         devices' \in Seq(TrustedDevice), DevicesEarned',
         \A e \in DOMAIN devices : e \in DOMAIN devices' /\ devices'[e] = devices[e],
         d \in DOMAIN devices', devices'[d].user = u
  PROVE  Inv'
<1> DEFINE new == [user |-> u, device |-> d, current |-> minted + 1, previous |-> 0,
                   status |-> "active"]
           n == Len(sessions) + 1
<1>1. TypeOK /\ JobsTrue /\ sessions \in Seq(Session) /\ minted \in Nat
  BY DEF Inv, TypeOK
<1>2. new \in Session /\ new.user = u /\ new.device = d /\ new.current = minted + 1
  BY <1>1 DEF Session
<1>3. sessions' = Append(sessions, new) /\ minted' = minted + 1
  BY DEF NewSession
<1> HIDE DEF new
<1>4. /\ sessions' \in Seq(Session) /\ DOMAIN sessions' = 1..n
      /\ \A s \in DOMAIN sessions : s \in DOMAIN sessions' /\ sessions'[s] = sessions[s]
      /\ sessions'[n] = new /\ DOMAIN sessions = 1..Len(sessions) /\ Len(sessions) \in Nat
  BY <1>1, <1>2, <1>3, RowAdded, LenProperties
<1>5. \A s \in DOMAIN sessions' : s \in DOMAIN sessions \/ s = n
  BY <1>4
<1>6. Grows
  BY <1>4 DEF Grows, history
<1>7. Moves(w)
  BY <1>1, EndMoves
<1>8. TypeOK'
  BY <1>1, <1>3, <1>4 DEF TypeOK, history
<1> HIDE DEF n
<1>11. ASSUME NEW s \in DOMAIN sessions' \ DOMAIN sessions
       PROVE  Earned(sessions[s])'
  <2>1. sessions'[s].user = u /\ sessions'[s].device = d
    BY <1>2, <1>4, <1>5
  <2> QED
    BY <2>1 DEF Earned, DevicesEarned, Own
<1> QED
  BY <1>6, <1>7, <1>8, <1>11, SessionStep

LEMMA CreateSessionStep ==
  ASSUME Inv, NEW w \in Workers, CreateSession(w)
  PROVE  Inv'
<1>1. /\ job[w].pc = "createSession" /\ End(w) /\ NewSession(User(w), job[w].id)
      /\ UNCHANGED <<now, calls, offered>>
      /\ UNCHANGED <<banks, credential, totp, challenges, devices, codes, profile, history>>
  BY DEF CreateSession, At
<1>2. TypeOK /\ JobsTrue /\ devices \in Seq(TrustedDevice)
  BY DEF Inv, TypeOK
<1>3. User(w) \in Users
  BY <1>1, <1>2, Signed DEF ChallengeSteps, CodeSteps
<1>4. job[w].id \in DOMAIN devices /\ devices[job[w].id].user = User(w)
  BY <1>1, <1>2, Working DEF JobProven, User
<1>5. job[w].id \in Nat
  BY <1>2, <1>4, Tables
<1>6. DevicesEarned'
  BY <1>1 DEF Inv, DevicesEarned, Own, history
<1> QED
  BY <1>1, <1>2, <1>3, <1>4, <1>5, <1>6, NewSessionStep

LEMMA IssueDeviceStep ==
  ASSUME Inv, NEW w \in Workers, IssueDevice(w)
  PROVE  Inv'
<1> DEFINE u == job[w].row.user
           new == [user |-> u, challenge |-> job[w].id]
           d == Len(devices) + 1
<1>1. /\ job[w].pc = "issueDevice" /\ End(w) /\ NewSession(u, d)
      /\ devices' = Append(devices, new)
      /\ UNCHANGED <<now, calls, offered>>
      /\ UNCHANGED <<banks, credential, totp, challenges, codes, profile, history>>
  BY DEF IssueDevice, At
<1>2. TypeOK /\ JobsTrue /\ devices \in Seq(TrustedDevice) /\ Len(devices) \in Nat
  BY Tables DEF Inv, TypeOK
<1>3. job[w].row \in MfaChallenge /\ Own(u, job[w].id) /\ job[w].id \in DOMAIN challenges
  BY <1>1, <1>2, Working DEF CarriesChallenge, JobProven, Own
<1>4. u \in Users /\ job[w].id \in Nat
  BY <1>2, <1>3, Tables DEF MfaChallenge
<1>5. new \in TrustedDevice /\ new.user = u /\ new.challenge = job[w].id
  BY <1>4 DEF TrustedDevice
<1> HIDE DEF u, new
<1>6. /\ devices' \in Seq(TrustedDevice) /\ DOMAIN devices' = 1..d /\ devices'[d] = new
      /\ \A e \in DOMAIN devices : e \in DOMAIN devices' /\ devices'[e] = devices[e]
  BY <1>1, <1>2, <1>5, RowAdded
<1>7. d \in Nat /\ d \in DOMAIN devices' /\ \A e \in DOMAIN devices' : e \in DOMAIN devices \/ e = d
  BY <1>2, <1>6, Tables
<1> HIDE DEF d
<1>8. DevicesEarned'
  BY <1>1, <1>3, <1>5, <1>6, <1>7 DEF Inv, DevicesEarned, Own, history
<1> QED
  BY <1>1, <1>4, <1>5, <1>6, <1>7, <1>8, NewSessionStep

\* A save changes neither the user nor the device of a session.
LEMMA SavedSession ==
  ASSUME Inv, NEW w \in Workers, job[w].pc \in {"rotate", "revoke"},
         NEW entity \in Session, entity.user = job[w].row.user, entity.device = job[w].row.device
  PROVE  /\ job[w].id \in DOMAIN sessions /\ Save(w, entity) \in Session
         /\ Save(w, entity).user = sessions[job[w].id].user
         /\ Save(w, entity).device = sessions[job[w].id].device
<1> DEFINE old == sessions[job[w].id]
           new == Save(w, entity)
<1>1. TypeOK /\ JobsTrue
  BY DEF Inv
<1>2. job[w].id \in DOMAIN sessions /\ old.user = entity.user /\ old.device = entity.device
  BY <1>1, Working DEF CarriesSession
<1>3. old \in Session
  BY <1>1, <1>2, Tables
<1>4. Stored(w) = old
  BY DEF Stored, CredentialSaves, TotpSaves, SessionSaves
<1> HIDE DEF old
<1>5. DOMAIN old = {"user", "device", "current", "previous", "status"}
  BY <1>3 DEF Session
<1>6. new = [user |-> new.user, device |-> new.device, current |-> new.current,
             previous |-> new.previous, status |-> new.status]
  BY <1>4, <1>5 DEF Save, Merge
<1>7. /\ new.user \in {entity.user, old.user} /\ new.device \in {entity.device, old.device}
      /\ new.current \in {entity.current, old.current}
      /\ new.previous \in {entity.previous, old.previous}
      /\ new.status \in {entity.status, old.status}
  BY <1>4, <1>5 DEF Save, Merge
<1> HIDE DEF new
<1>8. new \in Session /\ new.user = old.user /\ new.device = old.device
  BY <1>2, <1>3, <1>6, <1>7 DEF Session
<1> QED
  BY <1>2, <1>8 DEF new, old

\* A request saves the session it read, with other tokens or another status.
LEMMA SaveSessionStep ==
  ASSUME Inv, NEW w \in Workers, job[w].pc \in {"rotate", "revoke"}, End(w),
         NEW entity \in Session, entity.user = job[w].row.user, entity.device = job[w].row.device,
         sessions' = [sessions EXCEPT ![job[w].id] = Save(w, entity)],
         minted' \in Nat, replaced' \subseteq Nat, UNCHANGED <<now, calls, offered>>,
         UNCHANGED <<banks, credential, totp, challenges, devices, codes, profile, passed>>
  PROVE  Inv'
<1> DEFINE id == job[w].id
           new == Save(w, entity)
<1>1. TypeOK /\ JobsTrue /\ sessions \in Seq(Session)
  BY DEF Inv, TypeOK
<1>2. /\ id \in DOMAIN sessions /\ new \in Session
      /\ new.user = sessions[id].user /\ new.device = sessions[id].device
  BY SavedSession
<1> HIDE DEF id, new
<1>3. /\ sessions' \in Seq(Session) /\ DOMAIN sessions' = DOMAIN sessions
      /\ sessions'[id] = new /\ \A s \in DOMAIN sessions \ {id} : sessions'[s] = sessions[s]
  BY <1>1, <1>2, RowSaved DEF id, new
<1>4. Grows
  BY <1>2, <1>3 DEF Grows
<1>5. Moves(w)
  BY <1>1, EndMoves
<1>6. TypeOK'
  BY <1>1, <1>3 DEF TypeOK
<1>7. DevicesEarned'
  BY DEF Inv, DevicesEarned, Own
<1> QED
  BY <1>3, <1>4, <1>5, <1>6, <1>7, SessionStep

LEMMA RotateStep ==
  ASSUME Inv, NEW w \in Workers, Rotate(w)
  PROVE  Inv'
<1> DEFINE row == job[w].row
           new == Rotated(row)
<1>1. /\ job[w].pc = "rotate" /\ End(w) /\ sessions' = [sessions EXCEPT ![job[w].id] = Save(w, new)]
      /\ minted' = minted + 1 /\ replaced' = replaced \cup {row.current}
      /\ UNCHANGED <<now, calls, offered>>
      /\ UNCHANGED <<banks, credential, totp, challenges, devices, codes, profile, passed>>
  BY DEF Rotate, Saving, At
<1>2. TypeOK /\ JobsTrue
  BY DEF Inv
<1>3. row \in Session /\ minted \in Nat /\ replaced \subseteq Nat
  BY <1>1, <1>2, Working DEF CarriesSession, TypeOK
<1> HIDE DEF row
<1>4. new \in Session /\ new.user = row.user /\ new.device = row.device
  <2> DEFINE m == minted + 1
             c == row.current
  <2>1. m \in Nat /\ c \in Nat
    BY <1>3 DEF Session
  <2>2. new = [row EXCEPT !.previous = c, !.current = m]
    BY DEF Rotated
  <2> HIDE DEF m, c, new
  <2> QED
    BY <1>3, <2>1, <2>2 DEF Session
<1>5. minted' \in Nat /\ replaced' \subseteq Nat
  BY <1>1, <1>3 DEF Session
<1> HIDE DEF new
<1> QED
  BY <1>1, <1>4, <1>5, SaveSessionStep DEF row

LEMMA RevokeStep ==
  ASSUME Inv, NEW w \in Workers, Revoke(w)
  PROVE  Inv'
<1> DEFINE row == job[w].row
           new == [row EXCEPT !.status = "revoked"]
<1>1. /\ job[w].pc = "revoke" /\ End(w) /\ sessions' = [sessions EXCEPT ![job[w].id] = Save(w, new)]
      /\ UNCHANGED <<now, calls, offered>>
      /\ UNCHANGED <<banks, credential, totp, challenges, devices, codes, profile, minted, history>>
  BY DEF Revoke, Saving, At
<1>2. TypeOK /\ JobsTrue
  BY DEF Inv
<1>3. row \in Session /\ minted' \in Nat /\ replaced' \subseteq Nat
  BY <1>1, <1>2, Working DEF CarriesSession, TypeOK, history
<1> HIDE DEF row
<1>4. new \in Session /\ new.user = row.user /\ new.device = row.device
  BY <1>3 DEF Session
<1> HIDE DEF new
<1> QED
  BY <1>1, <1>3, <1>4, SaveSessionStep DEF row, history

LEMMA SequenceOf ==
  ASSUME NEW S, NEW n \in Nat, NEW f \in [1..n -> S]
  PROVE  f \in Seq(S)
BY SeqDef

LEMMA RevokeSessionsStep ==
  ASSUME Inv, NEW w \in Workers, RevokeSessions(w)
  PROVE  Inv'
<1>1. /\ job[w].pc = "revokeSessions" /\ End(w) /\ UNCHANGED <<now, calls, offered>>
      /\ UNCHANGED <<banks, credential, totp, challenges, devices, codes, profile, minted, history>>
  BY DEF RevokeSessions, At
<1>2. PICK gone : sessions' = [s \in DOMAIN sessions |->
                    IF s \in gone THEN [sessions[s] EXCEPT !.status = "revoked"] ELSE sessions[s]]
  BY DEF RevokeSessions
<1>3. TypeOK /\ JobsTrue
  BY DEF Inv, TypeOK
<1>4. ASSUME NEW s \in DOMAIN sessions
      PROVE  /\ sessions'[s] \in Session /\ sessions'[s].user = sessions[s].user
             /\ sessions'[s].device = sessions[s].device
  <2>1. sessions[s] \in Session
    BY <1>3, Tables
  <2>2. CASE s \in gone
    <3>1. sessions'[s] = [sessions[s] EXCEPT !.status = "revoked"]
      BY <1>2, <2>2
    <3> QED
      BY <2>1, <3>1 DEF Session
  <2>3. CASE s \notin gone
    BY <1>2, <2>1, <2>3
  <2> QED
    BY <2>2, <2>3
<1>5. DOMAIN sessions' = DOMAIN sessions /\ sessions' \in Seq(Session)
  <2>1. DOMAIN sessions' = DOMAIN sessions /\ sessions' = [s \in DOMAIN sessions |-> sessions'[s]]
    BY <1>2
  <2>2. Len(sessions) \in Nat /\ DOMAIN sessions = 1..Len(sessions)
    BY <1>3, Tables
  <2>3. sessions' \in [1..Len(sessions) -> Session]
    BY <1>4, <2>1, <2>2
  <2> QED
    BY <2>1, <2>2, <2>3, SequenceOf
<1>6. Grows
  BY <1>1, <1>4, <1>5 DEF Grows, history
<1>7. Moves(w)
  BY <1>1, <1>3, EndMoves
<1>8. TypeOK'
  BY <1>1, <1>3, <1>5 DEF TypeOK, history
<1>11. DevicesEarned'
  BY <1>1 DEF Inv, DevicesEarned, Own, history
<1> QED
  BY <1>1, <1>5, <1>6, <1>7, <1>8, <1>11, SessionStep DEF history

-----------------------------------------------------------------------------
(* The invariant *)

\* The steps of a request that write no row.
Reads(w) ==
  \/ Begin(w) \/ Reload(w) \/ ReadSession(w) \/ ReadLogin(w) \/ FindDevice(w) \/ ReadChallenge(w) \/ ReadPassword(w)
  \/ ReadMethod(w) \/ ReadTotp(w) \/ ReadCredential(w) \/ ReadPin(w) \/ CheckSends(w)
  \/ ReadCode(w) \/ ReadProfile(w)

LEMMA ReadsInv ==
  ASSUME Inv, NEW w \in Workers, Reads(w)
  PROVE  Inv'
<1>1. UNCHANGED <<rows, passed, replaced, now>>
  BY DEF Reads, Begin, Reload, ReadSession, ReadLogin, FindDevice, ReadChallenge, ReadPassword, ReadMethod, ReadTotp,
         ReadCredential, ReadPin, CheckSends, ReadCode, ReadProfile, At, history
<1>2. calls' \in 0..MaxCalls
  <2>1. calls \in 0..MaxCalls
    BY DEF Inv, TypeOK
  <2>2. (calls < MaxCalls /\ calls' = calls + 1) \/ UNCHANGED calls
    BY DEF Reads, Begin, Reload, ReadSession, ReadLogin, FindDevice, ReadChallenge, ReadPassword, ReadMethod, ReadTotp,
           ReadCredential, ReadPin, CheckSends, ReadCode, ReadProfile, At
  <2> QED
    BY <2>1, <2>2, AuthAssumption
<1>3. Grows
  BY <1>1, ReadsGrow
<1>4. Moves(w)
  BY BeginStep, ReloadStep, ReadSessionStep, ReadLoginStep, FindDeviceStep, ReadChallengeStep, ReadPasswordStep, ReadMethodStep,
     ReadTotpStep, ReadCredentialStep, ReadPinStep, CheckSendsStep, ReadCodeStep, ReadProfileStep
     DEF Reads
<1> QED
  BY <1>1, <1>2, <1>3, <1>4, ReadStep

\* Time passes, or nothing happens.
LEMMA IdleStep ==
  ASSUME Inv, UNCHANGED <<rows, job, calls, history>>, now' \in 0..MaxTime
  PROVE  Inv'
<1>1. TypeOK /\ JobsTrue /\ Grows
  BY ReadsGrow DEF Inv, history
<1>2. TypeOK'
  BY <1>1 DEF TypeOK, rows, history
<1>3. JobsTrue'
  BY <1>1, JobKept DEF JobsTrue
<1>4. DevicesEarned' /\ SessionsEarned'
  BY <1>1, EarnedKept DEF Inv, rows
<1>7. AccountsProven'
  BY <1>1, AccountsKept DEF Inv, rows
<1> QED
  BY <1>2, <1>3, <1>4, <1>7 DEF Inv

LEMMA InvNext ==
  ASSUME Inv, [Next]_vars
  PROVE  Inv'
<1>1. ASSUME NEW w \in Workers, Reads(w)
      PROVE  Inv'
  BY <1>1, ReadsInv
<1>2. ASSUME NEW w \in Workers,
             SaveLogin(w) \/ CreateSession(w) \/ CreateChallenge(w) \/ SaveChallenge(w)
               \/ IssueDevice(w) \/ Rotate(w) \/ Revoke(w) \/ RevokeSessions(w)
      PROVE  Inv'
  BY <1>2, SaveLoginStep, CreateSessionStep, CreateChallengeStep, SaveChallengeStep,
     IssueDeviceStep, RotateStep, RevokeStep, RevokeSessionsStep
<1>3. ASSUME NEW w \in Workers,
             ChangePassword(w) \/ SaveMethod(w) \/ SaveTotp(w) \/ SavePin(w) \/ CheckPin(w)
               \/ SaveBankAccount(w)
      PROVE  Inv'
  BY <1>3, ChangePasswordStep, SaveMethodStep, SaveTotpStep, SavePinStep, CheckPinStep,
     SaveBankAccountStep
<1>4. ASSUME NEW w \in Workers,
             SetPending(w) \/ IssueCode(w) \/ SaveCode(w) \/ MarkVerified(w) \/ ResetPassword(w)
               \/ SaveProfile(w)
      PROVE  Inv'
  BY <1>4, SetPendingStep, IssueCodeStep, SaveCodeStep, MarkVerifiedStep, ResetPasswordStep,
     SaveProfileStep
<1>5. CASE Tick
  <2>1. now \in 0..MaxTime
    BY DEF Inv, TypeOK
  <2>2. now' \in 0..MaxTime
    BY <1>5, <2>1, AuthAssumption DEF Tick
  <2> QED
    BY <1>5, <2>2, IdleStep DEF Tick
<1>6. CASE UNCHANGED vars
  <2>1. UNCHANGED <<rows, job, calls, history, now>>
    BY <1>6 DEF vars, rows, history
  <2>2. now' \in 0..MaxTime
    BY <2>1 DEF Inv, TypeOK
  <2> QED
    BY <2>1, <2>2, IdleStep
<1> QED
  BY <1>1, <1>2, <1>3, <1>4, <1>5, <1>6 DEF Next, Reads

LEMMA InvInit ==
  ASSUME Init
  PROVE  Inv
<1>0. NumUsers \in Nat /\ Users = 1..NumUsers /\ Lifetime \in Nat /\ MaxTime \in Nat /\ MaxCalls \in Nat
  BY AuthAssumption, Numbers DEF Users
<1>1. \A u \in Users : /\ credential[u] \in Credential /\ credential[u].password = Registered
                       /\ credential[u].pin \in {0, u}
  <2>1. PICK set \in BOOLEAN :
          credential = [u \in Users |-> [password |-> Registered, pin |-> IF set THEN u ELSE 0,
                        failed |-> 0, lockedUntil |-> 0, failedPins |-> 0, pinLockedUntil |-> 0]]
    BY DEF Init
  <2>2. SUFFICES ASSUME NEW u \in Users
                 PROVE  /\ credential[u] \in Credential /\ credential[u].password = Registered
                        /\ credential[u].pin \in {0, u}
    OBVIOUS
  <2> DEFINE n == IF set THEN u ELSE 0
  <2>3. n \in Nat /\ n \in {0, u}
    BY <1>0
  <2>4. credential[u] = [password |-> Registered, pin |-> n, failed |-> 0, lockedUntil |-> 0,
                         failedPins |-> 0, pinLockedUntil |-> 0]
    BY <2>1
  <2> HIDE DEF n
  <2> QED
    BY <2>3, <2>4 DEF Credential
<1>2. totp \in [Users -> MfaMethod] /\ \A u \in Users : totp[u].status # "active"
  <2>1. PICK u \in Users, method \in {[status |-> "none", secret |-> 0],
                                      [status |-> "pending", secret |-> 1]} :
          totp = [v \in Users |-> IF v = u THEN method ELSE [status |-> "none", secret |-> 0]]
    BY DEF Init
  <2>2. method \in MfaMethod /\ method.status # "active"
    BY DEF MfaMethod
  <2>3. [status |-> "none", secret |-> 0] \in MfaMethod
    BY DEF MfaMethod
  <2> QED
    BY <2>1, <2>2, <2>3
<1>3. /\ challenges \in Seq(MfaChallenge)
      /\ \A u \in Users : u \in DOMAIN challenges /\ challenges[u].user = u
  <2>1. challenges = [i \in 1..(2 * NumUsers) |->
          IF i <= NumUsers
          THEN [user |-> i, method |-> "email", status |-> "verified", attempts |-> 0,
                expiresAt |-> Lifetime]
          ELSE [user |-> i - NumUsers, method |-> "email", status |-> "pending", attempts |-> 0,
                expiresAt |-> Lifetime]]
    BY DEF Init
  <2>2. ASSUME NEW i \in 1..(2 * NumUsers)
        PROVE  challenges[i] \in MfaChallenge /\ (i \in Users => challenges[i].user = i)
    <3>1. CASE i <= NumUsers
      <4>1. challenges[i] = [user |-> i, method |-> "email", status |-> "verified",
                             attempts |-> 0, expiresAt |-> Lifetime]
        BY <2>1, <3>1
      <4>2. i \in Users
        BY <1>0, <3>1
      <4> QED
        BY <1>0, <4>1, <4>2 DEF MfaChallenge
    <3>2. CASE ~(i <= NumUsers)
      <4> DEFINE u == i - NumUsers
      <4>1. challenges[i] = [user |-> u, method |-> "email", status |-> "pending",
                             attempts |-> 0, expiresAt |-> Lifetime]
        BY <2>1, <3>2
      <4>2. u \in Users /\ i \notin Users
        BY <1>0, <3>2
      <4> HIDE DEF u
      <4> QED
        BY <1>0, <4>1, <4>2 DEF MfaChallenge
    <3> QED
      BY <3>1, <3>2
  <2>3. challenges \in [1..(2 * NumUsers) -> MfaChallenge]
    BY <2>1, <2>2
  <2>4. 2 * NumUsers \in Nat /\ \A u \in Users : u \in 1..(2 * NumUsers)
    BY <1>0
  <2>5. challenges \in Seq(MfaChallenge)
    BY <2>3, <2>4, SequenceOf
  <2> QED
    BY <2>1, <2>2, <2>4, <2>5
<1>4. /\ devices \in Seq(TrustedDevice) /\ DOMAIN devices = Users
      /\ \A d \in Users : devices[d].user = d /\ devices[d].challenge = d
  <2>1. devices = [u \in Users |-> [user |-> u, challenge |-> u]]
    BY DEF Init
  <2>2. devices \in [1..NumUsers -> TrustedDevice]
    BY <1>0, <2>1 DEF TrustedDevice
  <2> QED
    BY <1>0, <2>1, <2>2, SequenceOf
<1>5. /\ sessions \in Seq(Session) /\ DOMAIN sessions = Users
      /\ \A s \in Users : sessions[s].user = s /\ sessions[s].device = s
                          /\ sessions[s].current = s + 1
  <2>1. sessions = [u \in Users |-> [user |-> u, device |-> u, current |-> u + 1,
                                     previous |-> 0, status |-> "active"]]
    BY DEF Init
  <2>2. \A u \in Users : u \in Nat /\ u + 1 \in Nat
    BY <1>0
  <2>3. sessions \in [1..NumUsers -> Session]
    BY <1>0, <2>1, <2>2 DEF Session
  <2> QED
    BY <1>0, <2>1, <2>3, SequenceOf
<1>6. codes \in Seq(VerificationCode)
  <2>1. codes \in [Users -> [user : Users, purpose : {"email"}, value : CodeValues,
                             expiresAt : {Lifetime}, createdAt : {0}, used : {FALSE}]]
    BY DEF Init
  <2>2. ASSUME NEW u \in Users
        PROVE  codes[u] \in VerificationCode
    <3>1. {"email"} \subseteq Purposes \cup {"password"} /\ {Lifetime} \subseteq Nat
          /\ {0} \subseteq Nat /\ {FALSE} \subseteq BOOLEAN /\ Users \subseteq Nat
      BY <1>0 DEF Purposes
    <3>2. codes[u] \in [user : Users, purpose : {"email"}, value : CodeValues,
                        expiresAt : {Lifetime}, createdAt : {0}, used : {FALSE}]
      BY <2>1
    <3> QED
      BY <3>1, <3>2 DEF VerificationCode
  <2>3. codes \in [1..NumUsers -> VerificationCode]
    BY <1>0, <2>1, <2>2
  <2> QED
    BY <1>0, <2>3, SequenceOf
<1>7. /\ profile \in [Users -> Profile]
      /\ \A u \in Users, p \in Purposes :
           profile[u][p].live.to = u /\ profile[u][p].pending = NoAddress
  <2>1. profile = [u \in Users |-> [p \in Purposes |->
                    [live |-> [to |-> u, by |-> 0], pending |-> NoAddress, verified |-> FALSE]]]
    BY DEF Init
  <2>2. ASSUME NEW u \in Users
        PROVE  [live |-> [to |-> u, by |-> 0], pending |-> NoAddress, verified |-> FALSE] \in Contact
    <3>1. [to |-> u, by |-> 0] \in Address
      BY <1>0 DEF Address
    <3> QED
      BY <3>1 DEF Contact
  <2> QED
    BY <2>1, <2>2 DEF Profile
<1>8. /\ now = 0 /\ calls = 0 /\ passed = Users /\ minted = NumUsers + 1 /\ banks = {}
      /\ confirmed = {} /\ replaced = {} /\ job = [w \in Workers |-> Idle]
      /\ credential = [u \in Users |-> credential[u]]
  BY DEF Init
<1>9. TypeOK
  <2>1. credential \in [Users -> Credential]
    BY <1>1, <1>8
  <2>2. now \in 0..MaxTime /\ calls \in 0..MaxCalls /\ minted \in Nat /\ replaced \subseteq Nat
    BY <1>0, <1>8
  <2> QED
    BY <1>2, <1>3, <1>4, <1>5, <1>6, <1>7, <1>8, <2>1, <2>2 DEF TypeOK, Profile
<1>10. JobsTrue
  BY <1>8 DEF JobsTrue, JobTrue
<1>11. DevicesEarned /\ SessionsEarned
  BY <1>3, <1>4, <1>5, <1>8 DEF DevicesEarned, SessionsEarned, Own
<1>14. AccountsProven
  <2>1. \A u \in Users : CredentialProven(u, credential[u])
    BY <1>1, <1>3, <1>8 DEF CredentialProven, PasswordProven, Own
  <2>2. \A u \in Users : ProfileProven(u, profile[u])
    BY <1>7 DEF ProfileProven, ContactProven
  <2> QED
    BY <1>8, <2>1, <2>2 DEF AccountsProven
<1> QED
  BY <1>9, <1>10, <1>11, <1>14 DEF Inv

\* What the tables and the requests under way owe each other holds in every
\* reachable state, for every number of users, workers and requests.
THEOREM InvHolds == Spec => []Inv
<1>1. Init => Inv
  BY InvInit
<1>2. Inv /\ [Next]_vars => Inv'
  BY InvNext
<1> QED
  BY <1>1, <1>2, PTL DEF Spec

\* No session exists but on a device that its user earned by answering a
\* challenge: SessionService.login and MfaService.verifyMfaChallenge.
THEOREM SessionsAreEarned == Spec => []SessionsEarned
<1>1. Inv => SessionsEarned
  BY DEF Inv
<1> QED
  BY <1>1, InvHolds, PTL

LEMMA ProvenNow ==
  ASSUME Inv
  PROVE  ChangesProven
<1> SUFFICES ASSUME NEW u \in Users
             PROVE  /\ LET how == credential[u].password IN
                         CASE how[1] = "registered" -> TRUE
                           [] how[1] = "challenge" -> Own(u, how[2])
                           [] how[1] = "code" -> UsedCode(u, how[2], "password")
                    /\ credential[u].pin # 0 => Own(u, credential[u].pin)
                    /\ \A account \in banks : account.user = u => Own(u, account.by)
                    /\ \A p \in Purposes :
                         profile[u][p].live.to # u =>
                           Own(u, profile[u][p].live.by) /\ \E k \in DOMAIN codes : UsedCode(u, k, p)
  BY DEF ChangesProven
<1> DEFINE how == credential[u].password
<1>1. CredentialProven(u, credential[u]) /\ ProfileProven(u, profile[u])
      /\ \A account \in banks : Own(account.user, account.by)
  BY DEF Inv, AccountsProven
<1>2. PasswordProven(u, how) /\ (credential[u].pin # 0 => Own(u, credential[u].pin))
  BY <1>1 DEF CredentialProven
<1> HIDE DEF how
<1>3. (CASE how[1] = "registered" -> TRUE
         [] how[1] = "challenge" -> Own(u, how[2])
         [] how[1] = "code" -> UsedCode(u, how[2], "password"))
  <2>1. CASE how = Registered
    <3>1. how[1] = "registered"
      BY <2>1 DEF Registered
    <3> QED
      BY <3>1
  <2>2. CASE how[1] = "challenge" /\ Own(u, how[2])
    BY <2>2
  <2>3. CASE how[1] = "code" /\ UsedCode(u, how[2], "password")
    BY <2>3
  <2> QED
    BY <1>2, <2>1, <2>2, <2>3 DEF PasswordProven
<1>4. \A p \in Purposes : profile[u][p].live.to # u =>
        Own(u, profile[u][p].live.by) /\ \E k \in DOMAIN codes : UsedCode(u, k, p)
  BY <1>1 DEF ProfileProven, ContactProven
<1> QED
  BY <1>1, <1>2, <1>3, <1>4 DEF how

\* Every password, PIN, email, phone and bank account that a request put in
\* place was put there by the same user's answered challenge or consumed code.
THEOREM ChangesAreProven == Spec => []ChangesProven
<1>1. Inv => ChangesProven
  BY ProvenNow
<1> QED
  BY <1>1, InvHolds, PTL

-----------------------------------------------------------------------------
(* Refresh tokens and TOTP secrets.  What a request carries to a save of a
   session or of a TOTP method comes from the row it read. *)

Taking == SessionSaves \cup {"saveTotp"}

\* The step leaves its request with neither.
Leaves(w) ==
  /\ \A v \in Workers \ {w} : job'[v] = job[v]
  /\ job'[w].pc \notin Taking

LEMMA EndLeaves ==
  ASSUME JobsTrue, NEW w \in Workers, End(w)
  PROVE  Leaves(w) /\ job'[w] = Idle
BY DEF JobsTrue, End, Leaves, Idle, Taking, SessionSaves

LEMMA GotoLeaves ==
  ASSUME JobsTrue, NEW w \in Workers, job[w].pc # "idle", NEW label, label \notin Taking,
         Goto(w, label)
  PROVE  Leaves(w)
<1>1. job[w] \in JobRecord /\ job = [v \in Workers |-> job[v]]
  BY Working
<1>2. job' = [job EXCEPT ![w] = [job[w] EXCEPT !.pc = label]]
  BY DEF Goto
<1> QED
  BY <1>1, <1>2 DEF Leaves, JobRecord

LEMMA CarryLeaves ==
  ASSUME JobsTrue, NEW w \in Workers, job[w].pc # "idle", NEW label, label \notin Taking,
         NEW row, Carry(w, label, row)
  PROVE  Leaves(w)
<1>1. job[w] \in JobRecord /\ job = [v \in Workers |-> job[v]]
  BY Working
<1>2. job' = [job EXCEPT ![w] = [job[w] EXCEPT !.pc = label, !.row = row, !.base = Idle, !.at = now]]
  BY <1>1 DEF Carry, JobRecord
<1> QED
  BY <1>1, <1>2 DEF Leaves, JobRecord

LEMMA ActLeaves ==
  ASSUME JobsTrue, NEW w \in Workers, job[w].pc # "idle", NEW label, label \notin Taking,
         NEW user, ActsFor(w, label, user)
  PROVE  Leaves(w)
<1>1. job[w] \in JobRecord /\ job = [v \in Workers |-> job[v]]
  BY Working
<1>2. job' = [job EXCEPT ![w] = [job[w] EXCEPT !.pc = label, !.user = user]]
  BY <1>1 DEF JobRecord, ActsFor
<1> QED
  BY <1>1, <1>2 DEF Leaves, JobRecord

LEMMA FindLeaves ==
  ASSUME JobsTrue, NEW w \in Workers, job[w].pc # "idle", NEW label, label \notin Taking,
         NEW row, NEW id, Finds(w, label, row, id)
  PROVE  Leaves(w)
<1>1. job[w] \in JobRecord /\ job = [v \in Workers |-> job[v]]
  BY Working
<1>2. job' = [job EXCEPT ![w] = [job[w] EXCEPT !.pc = label, !.row = row, !.id = id]]
  BY <1>1 DEF JobRecord, Finds
<1> QED
  BY <1>1, <1>2 DEF Leaves, JobRecord

\* The steps that leave sessions, TOTP methods and tokens alone.
Aside(w) ==
  \/ Begin(w) \/ ReadLogin(w) \/ SaveLogin(w) \/ FindDevice(w) \/ CreateChallenge(w)
  \/ ReadChallenge(w) \/ SaveChallenge(w) \/ ReadPassword(w) \/ ChangePassword(w)
  \/ ReadMethod(w) \/ ReadCredential(w) \/ SavePin(w) \/ ReadPin(w) \/ CheckPin(w)
  \/ SaveBankAccount(w) \/ CheckSends(w) \/ SetPending(w) \/ IssueCode(w) \/ ReadCode(w)
  \/ SaveCode(w) \/ MarkVerified(w) \/ ResetPassword(w) \/ ReadProfile(w) \/ SaveProfile(w)

LEMMA BeginLeaves ==
  ASSUME JobsTrue, NEW w \in Workers, Begin(w)
  PROVE  Leaves(w)
<1>1. PICK r \in Requests : job' = [job EXCEPT ![w] = r]
  BY DEF Begin
<1>2. PICK op, user, id :
        /\ r = Request(op, user, id)
        /\ op \in StepUpOps \cup ConfirmOps \cup
             {"login", "verifyMfa", "refresh", "logout", "verifyEmail", "verifyPhone",
              "completeReset", "requestReset", "stepUp", "confirmTotp", "verifyPin",
              "resendEmail", "resendPhone", "updateProfile"}
  BY DEF Requests, ConfirmOps
<1>3. r.pc = FirstStep(op)
  BY <1>2 DEF Request
<1>4. FirstStep(op) \in {"readLogin", "readChallenge", "readSession", "readCode", "checkSends",
                         "createChallenge", "readTotp", "readPin", "readProfile"}
  BY <1>2 DEF FirstStep, StepUpOps, ConfirmOps
<1>5. job'[w] = r /\ \A v \in Workers \ {w} : job'[v] = job[v]
  BY <1>1 DEF JobsTrue
<1> QED
  BY <1>3, <1>4, <1>5 DEF Leaves, Taking, SessionSaves

LEMMA ChallengeLeaves ==
  ASSUME JobsTrue, NEW w \in Workers, SaveChallenge(w)
  PROVE  Leaves(w)
<1>1. /\ job[w].pc = "saveChallenge"
      /\ End(w) \/ (AfterChallenge(w) # "idle" /\ Goto(w, AfterChallenge(w)))
  BY DEF SaveChallenge, Saving, At
<1>2. Op(w) \in StepUpOps \cup {"verifyMfa"}
  <2>1. <<Op(w), job[w].pc>> \in Routes
    BY <1>1, OpNow
  <2> QED
    BY <1>1, <2>1, OpAt DEF ChallengeSteps
<1>3. CASE AfterChallenge(w) # "idle" /\ Goto(w, AfterChallenge(w))
  <2>1. AfterChallenge(w) \in {"issueDevice", "readPassword", "readMethod", "checkSends",
                               "readCredential", "readPin", "saveBank"}
    <3>1. CASE Op(w) = "verifyMfa"
      BY <3>1 DEF AfterChallenge
    <3>2. CASE Op(w) \in StepUpOps
      BY <1>3, <3>2, StepUpNext
    <3> QED
      BY <1>2, <3>1, <3>2
  <2> QED
    BY <1>1, <1>3, <2>1, GotoLeaves DEF Taking, SessionSaves
<1> QED
  BY <1>1, <1>3, EndLeaves

LEMMA AsideLeaves ==
  ASSUME JobsTrue, NEW w \in Workers, Aside(w)
  PROVE  Leaves(w) /\ UNCHANGED <<sessions, totp, minted, replaced, confirmed>>
<1> USE DEF Taking, SessionSaves
<1>1. CASE Begin(w)
  BY <1>1, BeginLeaves DEF Begin, rows, history
<1>2. CASE SaveChallenge(w)
  BY <1>2, ChallengeLeaves DEF SaveChallenge
<1>3. CASE ReadLogin(w) \/ SaveLogin(w) \/ FindDevice(w) \/ CreateChallenge(w) \/ ReadChallenge(w)
  BY <1>3, EndLeaves, GotoLeaves, CarryLeaves
     DEF ReadLogin, SaveLogin, FindDevice, CreateChallenge, ReadChallenge, At, Saving, rows, history
<1>4. CASE ReadPassword(w) \/ ChangePassword(w) \/ ReadMethod(w) \/ ReadCredential(w)
             \/ SavePin(w) \/ ReadPin(w) \/ CheckPin(w) \/ SaveBankAccount(w)
  BY <1>4, EndLeaves, GotoLeaves, CarryLeaves
     DEF ReadPassword, ChangePassword, ReadMethod, ReadCredential, SavePin, ReadPin, CheckPin,
         SaveBankAccount, EndOrRevokeSessions, At, Saving, rows, history
<1>5. CASE CheckSends(w) \/ SetPending(w) \/ IssueCode(w) \/ MarkVerified(w) \/ ResetPassword(w)
  BY <1>5, EndLeaves, GotoLeaves
     DEF CheckSends, SetPending, IssueCode, MarkVerified, ResetPassword, EndOrRevokeSessions,
         At, Saving, rows, history
<1>6. CASE ReadProfile(w) \/ SaveProfile(w)
  BY <1>6, EndLeaves, GotoLeaves, CarryLeaves
     DEF ReadProfile, SaveProfile, EndOrRevokeSessions, At, Saving, rows, history
<1>7. CASE ReadCode(w)
  <2>1. /\ job[w].pc = "readCode" /\ UNCHANGED <<rows, history>>
        /\ End(w) \/ \E row, id : Finds(w, "saveCode", row, id)
    BY <1>7 DEF ReadCode, At, Finds
  <2>2. Leaves(w)
    BY <2>1, EndLeaves, FindLeaves
  <2> QED
    BY <2>1, <2>2 DEF rows, history
<1>8. CASE SaveCode(w)
  <2>1. job[w].pc = "saveCode" /\ UNCHANGED <<sessions, totp, minted, history>>
    BY <1>8 DEF SaveCode, Saving, At
  <2>2. Op(w) \in ConfirmOps \cup {"verifyEmail", "verifyPhone", "completeReset"}
    <3>1. <<Op(w), job[w].pc>> \in Routes
      BY <2>1, OpNow
    <3> QED
      BY <2>1, <3>1, OpAt DEF CodeSteps
  <2>3. \/ End(w) \/ Goto(w, "readProfile")
        \/ \E label \in {"markVerified", "resetPassword"} : \E user : ActsFor(w, label, user)
    BY <1>8, <2>2 DEF SaveCode, ConfirmOps, ActsFor
  <2>4. Leaves(w)
    BY <2>1, <2>3, EndLeaves, GotoLeaves, ActLeaves
  <2> QED
    BY <2>1, <2>4 DEF history
<1> QED
  BY <1>1, <1>2, <1>3, <1>4, <1>5, <1>6, <1>7, <1>8 DEF Aside

\* The refresh tokens that are the current one of a session, or of a session
\* row that a request is about to save: each is of one session.
Holds(w) == job[w].pc \in SessionSaves
Held == {<<s, sessions[s].current>> : s \in DOMAIN sessions}
          \cup {<<job[w].id, job[w].row.current>> : w \in {v \in Workers : Holds(v)}}

TokensApart ==
  /\ \A a, b \in Held : a[2] = b[2] => a[1] = b[1]
  /\ \A a \in Held : a[2] \in 1..minted
  /\ replaced \subseteq 1..minted

\* A confirmation carries the secret that its code was checked against.
SecretsChecked ==
  \A w \in Workers : job[w].pc = "saveTotp" => job[w].row.secret \in confirmed

LEMMA TokensKept ==
  ASSUME TokensApart, minted \in Nat, minted' \in Nat, minted <= minted', UNCHANGED replaced,
         Held' \subseteq Held
  PROVE  TokensApart'
<1>1. \A n \in 1..minted : n \in 1..minted'
  OBVIOUS
<1> QED
  BY <1>1 DEF TokensApart

\* A new token is no other session's.
LEMMA TokenMinted ==
  ASSUME TokensApart, minted \in Nat, minted' = minted + 1, NEW s,
         replaced' \subseteq replaced \cup 1..minted,
         Held' \subseteq Held \cup {<<s, minted + 1>>}
  PROVE  TokensApart'
<1>1. \A n \in 1..minted : n \in 1..minted' /\ n # minted + 1
  OBVIOUS
<1>2. \A a \in Held : a[2] \in 1..minted
  BY DEF TokensApart
<1>3. replaced' \subseteq 1..minted'
  BY <1>1 DEF TokensApart
<1>4. \A a \in Held' : a[2] \in 1..minted'
  <2>1. minted + 1 \in 1..minted'
    OBVIOUS
  <2> QED
    BY <1>1, <1>2, <2>1
<1>5. ASSUME NEW a \in Held', NEW b \in Held', a[2] = b[2]
      PROVE  a[1] = b[1]
  <2>1. CASE a \in Held /\ b \in Held
    BY <1>5, <2>1 DEF TokensApart
  <2>2. CASE a = <<s, minted + 1>>
    BY <1>1, <1>2, <1>5, <2>2
  <2>3. CASE b = <<s, minted + 1>>
    BY <1>1, <1>2, <1>5, <2>3
  <2> QED
    BY <2>1, <2>2, <2>3
<1> QED
  BY <1>3, <1>4, <1>5 DEF TokensApart

LEMMA SecretsKept ==
  ASSUME SecretsChecked, NEW w \in Workers, Leaves(w), confirmed \subseteq confirmed'
  PROVE  SecretsChecked'
BY DEF SecretsChecked, Leaves, Taking

\* A step that leaves its request without a row, and each session with its token.
LEMMA HeldLess ==
  ASSUME NEW w \in Workers, Leaves(w),
         \A s \in DOMAIN sessions' :
           s \in DOMAIN sessions /\ sessions'[s].current = sessions[s].current
  PROVE  Held' \subseteq Held
<1>1. \A v \in Workers : Holds(v)' => Holds(v) /\ job'[v] = job[v]
  BY DEF Leaves, Holds, Taking
<1> QED
  BY <1>1 DEF Held

Kept == TokensApart /\ SecretsChecked

LEMMA AsideKept ==
  ASSUME Inv, Kept, NEW w \in Workers, Aside(w)
  PROVE  Kept'
<1>1. Leaves(w) /\ UNCHANGED <<sessions, totp, minted, replaced, confirmed>>
  BY AsideLeaves DEF Inv
<1>2. Held' \subseteq Held
  BY <1>1, HeldLess
<1>3. minted \in Nat
  BY DEF Inv, TypeOK
<1> QED
  BY <1>1, <1>2, <1>3, TokensKept, SecretsKept DEF Kept

LEMMA ReloadKept ==
  ASSUME Inv, Kept, NEW w \in Workers, Reload(w)
  PROVE  Kept'
<1>1. /\ job[w].pc \in Saves /\ job' = [job EXCEPT ![w].base = Stored(w)]
      /\ UNCHANGED <<rows, history>>
  BY DEF Reload
<1>2. job[w] \in JobRecord /\ job = [v \in Workers |-> job[v]]
  BY <1>1, Working DEF Inv, Saves, CredentialSaves, TotpSaves, SessionSaves
<1>3. job' = [job EXCEPT ![w] = [job[w] EXCEPT !.base = Stored(w)]]
  BY <1>1
<1>4. \A v \in Workers : /\ job'[v].pc = job[v].pc /\ job'[v].id = job[v].id
                         /\ job'[v].row = job[v].row
  BY <1>2, <1>3 DEF JobRecord
<1>5. Held' \subseteq Held
  BY <1>1, <1>4 DEF Held, Holds, rows
<1>6. minted \in Nat /\ UNCHANGED <<minted, replaced, confirmed>>
  BY <1>1 DEF Inv, TypeOK, rows, history
<1>7. SecretsChecked'
  BY <1>4, <1>6 DEF Kept, SecretsChecked
<1> QED
  BY <1>5, <1>6, <1>7, TokensKept DEF Kept

LEMMA ReadSessionKept ==
  ASSUME Inv, Kept, NEW w \in Workers, ReadSession(w)
  PROVE  Kept'
<1>1. /\ job[w].pc = "readSession" /\ UNCHANGED <<rows, history>>
      /\ \/ End(w)
         \/ \E s \in DOMAIN sessions, label \in SessionSaves : Finds(w, label, sessions[s], s)
  BY DEF ReadSession, At, WithCurrent, WithPrevious, SessionSaves, Finds
<1>2. JobsTrue /\ minted \in Nat /\ UNCHANGED <<minted, replaced, confirmed, sessions>>
  BY <1>1 DEF Inv, TypeOK, rows, history
<1>3. CASE End(w)
  <2>1. Leaves(w)
    BY <1>2, <1>3, EndLeaves
  <2> QED
    BY <1>2, <2>1, HeldLess, TokensKept, SecretsKept DEF Kept
<1>4. ASSUME NEW s \in DOMAIN sessions, NEW label \in SessionSaves, Finds(w, label, sessions[s], s)
      PROVE  Kept'
  <2>1. job[w] \in JobRecord /\ job = [v \in Workers |-> job[v]]
    BY <1>1, <1>2, Working
  <2>2. job' = [job EXCEPT ![w] = [job[w] EXCEPT !.pc = label, !.row = sessions[s], !.id = s]]
    BY <1>4, <2>1 DEF Finds, JobRecord
  <2>3. /\ job'[w].pc = label /\ job'[w].row = sessions[s] /\ job'[w].id = s
        /\ \A v \in Workers \ {w} : job'[v] = job[v]
    BY <2>1, <2>2 DEF JobRecord
  <2>4. Held' \subseteq Held
    <3>1. SUFFICES ASSUME NEW v \in Workers, Holds(v)'
                   PROVE  <<job[v].id, job[v].row.current>>' \in Held
      BY <1>2 DEF Held
    <3>2. CASE v = w
      BY <2>3, <3>2 DEF Held
    <3>3. CASE v # w
      BY <2>3, <3>1, <3>3 DEF Held, Holds
    <3> QED
      BY <3>2, <3>3
  <2>5. SecretsChecked'
    BY <1>2, <2>3 DEF Kept, SecretsChecked, SessionSaves
  <2> QED
    BY <1>2, <2>4, <2>5, TokensKept DEF Kept
<1> QED
  BY <1>1, <1>3, <1>4

LEMMA ReadTotpKept ==
  ASSUME Inv, Kept, NEW w \in Workers, ReadTotp(w)
  PROVE  Kept'
<1> DEFINE row == totp[User(w)]
<1>1. /\ job[w].pc = "readTotp" /\ UNCHANGED <<rows, passed, replaced>>
      /\ \/ End(w) /\ UNCHANGED confirmed
         \/ confirmed' = confirmed \cup {row.secret} /\ Carry(w, "saveTotp", row)
  BY DEF ReadTotp, At
<1>2. JobsTrue /\ minted \in Nat /\ UNCHANGED <<minted, replaced, sessions>>
  BY <1>1 DEF Inv, TypeOK, rows
<1>3. CASE End(w) /\ UNCHANGED confirmed
  <2>1. Leaves(w)
    BY <1>2, <1>3, EndLeaves
  <2> QED
    BY <1>2, <1>3, <2>1, HeldLess, TokensKept, SecretsKept DEF Kept
<1>4. CASE confirmed' = confirmed \cup {row.secret} /\ Carry(w, "saveTotp", row)
  <2>1. job[w] \in JobRecord /\ job = [v \in Workers |-> job[v]]
    BY <1>1, <1>2, Working
  <2>2. job' = [job EXCEPT ![w] = [job[w] EXCEPT !.pc = "saveTotp", !.row = row, !.base = Idle,
                                                 !.at = now]]
    BY <1>4, <2>1 DEF Carry, JobRecord
  <2>3. /\ job'[w].pc = "saveTotp" /\ job'[w].row = row
        /\ \A v \in Workers \ {w} : job'[v] = job[v]
    BY <2>1, <2>2 DEF JobRecord
  <2>4. \A v \in Workers : Holds(v)' => Holds(v) /\ job'[v] = job[v]
    BY <2>3 DEF Holds, SessionSaves
  <2>5. Held' \subseteq Held
    BY <1>2, <2>4 DEF Held
  <2>6. SecretsChecked'
    BY <1>4, <2>3 DEF Kept, SecretsChecked
  <2> QED
    BY <1>2, <2>5, <2>6, TokensKept DEF Kept
<1> QED
  BY <1>1, <1>3, <1>4

LEMMA SaveTotpKept ==
  ASSUME Inv, Kept, NEW w \in Workers, SaveMethod(w) \/ SaveTotp(w)
  PROVE  Kept'
<1>1. /\ End(w) /\ UNCHANGED <<sessions, replaced, confirmed>>
      /\ minted' = minted \/ minted' = minted + 1
  BY DEF SaveMethod, SaveTotp, Saving, At, history
<1>2. JobsTrue /\ minted \in Nat
  BY DEF Inv, TypeOK
<1>3. Leaves(w)
  BY <1>1, <1>2, EndLeaves
<1>4. minted' \in Nat /\ minted <= minted'
  BY <1>1, <1>2
<1> QED
  BY <1>1, <1>2, <1>3, <1>4, HeldLess, TokensKept, SecretsKept DEF Kept

\* A new session: its token is new, and the others keep theirs.
LEMMA NewSessionKept ==
  ASSUME Inv, Kept, NEW w \in Workers, CreateSession(w) \/ IssueDevice(w)
  PROVE  Kept' /\ Revived' \subseteq Revived
<1>1. /\ End(w) /\ UNCHANGED history
      /\ \E u, d : NewSession(u, d)
  BY DEF CreateSession, IssueDevice, At
<1>2. PICK u, d : NewSession(u, d)
  BY <1>1
<1> DEFINE new == [user |-> u, device |-> d, current |-> minted + 1, previous |-> 0,
                   status |-> "active"]
           n == Len(sessions) + 1
<1>3. JobsTrue /\ minted \in Nat /\ sessions \in Seq(Session) /\ TokensApart /\ SecretsChecked
  BY DEF Inv, TypeOK, Kept
<1>4. sessions' = Append(sessions, new) /\ minted' = minted + 1
  BY <1>2 DEF NewSession
<1>5. new.current = minted + 1
  OBVIOUS
<1> HIDE DEF new
<1>6. \A s \in DOMAIN sessions' : \/ s \in DOMAIN sessions /\ sessions'[s] = sessions[s]
                                  \/ s = n /\ sessions'[s] = new
  <2>1. Len(sessions) \in Nat /\ DOMAIN sessions = 1..Len(sessions)
    BY <1>3, LenProperties
  <2>2. sessions \in Seq(Session \cup {new}) /\ new \in Session \cup {new}
    <3>1. sessions \in [1..Len(sessions) -> Session \cup {new}]
      BY <1>3, LenProperties
    <3> QED
      BY <2>1, <3>1, SequenceOf
  <2>3. /\ DOMAIN sessions' = 1..n /\ sessions'[n] = new
        /\ \A s \in DOMAIN sessions : sessions'[s] = sessions[s]
    BY <1>4, <2>2, RowAdded
  <2> QED
    BY <2>1, <2>3
<1>7. Leaves(w)
  BY <1>1, <1>3, EndLeaves
<1>8. \A v \in Workers : Holds(v)' => Holds(v) /\ job'[v] = job[v]
  BY <1>7 DEF Leaves, Holds, Taking
<1> HIDE DEF n
<1>9. Held' \subseteq Held \cup {<<n, minted + 1>>}
  BY <1>5, <1>6, <1>8 DEF Held
<1>10. Kept'
  BY <1>1, <1>3, <1>4, <1>7, <1>9, TokenMinted, SecretsKept DEF Kept, history
<1>11. minted + 1 \notin replaced
  BY <1>3 DEF TokensApart
<1> QED
  BY <1>1, <1>5, <1>6, <1>10, <1>11 DEF Revived, history

\* What a save of a session leaves.
LEMMA SessionSaved ==
  ASSUME Inv, Kept, NEW w \in Workers, job[w].pc \in SessionSaves, NEW entity,
         sessions' = [sessions EXCEPT ![job[w].id] = Save(w, entity)]
  PROVE  /\ JobsTrue /\ minted \in Nat /\ job[w].id \in DOMAIN sessions
         /\ DOMAIN sessions' = DOMAIN sessions
         /\ \A s \in DOMAIN sessions \ {job[w].id} : sessions'[s] = sessions[s]
         /\ sessions'[job[w].id].current \in {entity.current, sessions[job[w].id].current}
         /\ job[w].base = Stored(w) =>
              /\ sessions'[job[w].id].current = entity.current
              /\ sessions'[job[w].id].status = entity.status
         /\ <<job[w].id, job[w].row.current>> \in Held
         /\ <<job[w].id, sessions[job[w].id].current>> \in Held
<1> DEFINE id == job[w].id
           old == sessions[id]
           new == Save(w, entity)
<1>1. TypeOK /\ JobsTrue /\ minted \in Nat
  BY DEF Inv, TypeOK
<1>2. id \in DOMAIN sessions
  BY <1>1, Working DEF CarriesSession, SessionSaves
<1>3. old \in Session /\ Stored(w) = old
  BY <1>1, <1>2, Tables DEF Stored, CredentialSaves, TotpSaves, SessionSaves
<1>4. /\ DOMAIN sessions' = DOMAIN sessions /\ sessions'[id] = new
      /\ \A s \in DOMAIN sessions \ {id} : sessions'[s] = sessions[s]
  BY <1>2
<1> HIDE DEF old
<1>5. DOMAIN old = {"user", "device", "current", "previous", "status"}
  BY <1>3 DEF Session
<1>6. new.current \in {entity.current, old.current}
  BY <1>3, <1>5 DEF Save, Merge
<1>7. job[w].base = Stored(w) => new.current = entity.current /\ new.status = entity.status
  BY <1>3, <1>5 DEF Save, Merge
<1>8. <<id, job[w].row.current>> \in Held /\ <<id, old.current>> \in Held
  BY <1>2 DEF Held, Holds, old
<1> QED
  BY <1>1, <1>2, <1>4, <1>6, <1>7, <1>8 DEF old

\* Only a save that was overtaken may bring a token back.
LEMMA OvertakenNow ==
  ASSUME NEW w \in Workers, NEW steps, job[w].pc \in steps, job'[w] = Idle, job[w].base # Idle,
         job[w].base # Stored(w)
  PROVE  w \in Overtaken(steps)
BY DEF Overtaken

LEMMA RotateKept ==
  ASSUME Inv, Kept, NEW w \in Workers, Rotate(w)
  PROVE  Kept' /\ Revived' \subseteq Revived \cup {job[v].id : v \in Overtaken(SessionSaves)}
<1> DEFINE id == job[w].id
           row == job[w].row
           entity == Rotated(row)
<1>1. /\ job[w].pc = "rotate" /\ job[w].base # Idle /\ End(w)
      /\ sessions' = [sessions EXCEPT ![id] = Save(w, entity)]
      /\ minted' = minted + 1 /\ replaced' = replaced \cup {row.current} /\ UNCHANGED confirmed
  BY DEF Rotate, Saving, At
<1>2. job[w].pc \in SessionSaves
  BY <1>1 DEF SessionSaves
<1>3. row \in Session
  BY <1>1, Working DEF Inv, CarriesSession
<1>4. entity.current = minted + 1
  BY <1>3 DEF Rotated, Session
<1> HIDE DEF entity, row, id
<1>5. /\ JobsTrue /\ minted \in Nat /\ id \in DOMAIN sessions /\ DOMAIN sessions' = DOMAIN sessions
      /\ \A s \in DOMAIN sessions \ {id} : sessions'[s] = sessions[s]
      /\ sessions'[id].current \in {minted + 1, sessions[id].current}
      /\ job[w].base = Stored(w) => sessions'[id].current = minted + 1
      /\ <<id, row.current>> \in Held /\ <<id, sessions[id].current>> \in Held
  BY <1>1, <1>2, <1>4, SessionSaved DEF id, row
<1>6. Leaves(w) /\ job'[w] = Idle
  BY <1>1, <1>5, EndLeaves
<1>7. \A v \in Workers : Holds(v)' => Holds(v) /\ job'[v] = job[v]
  BY <1>6 DEF Leaves, Holds, Taking
<1>8. Held' \subseteq Held \cup {<<id, minted + 1>>}
  <2>1. ASSUME NEW s \in DOMAIN sessions'
        PROVE  <<s, sessions'[s].current>> \in Held \cup {<<id, minted + 1>>}
    BY <1>5 DEF Held
  <2>2. ASSUME NEW v \in Workers, Holds(v)'
        PROVE  <<job'[v].id, job'[v].row.current>> \in Held
    BY <1>7, <2>2 DEF Held
  <2> QED
    BY <2>1, <2>2 DEF Held
<1>9. TokensApart /\ SecretsChecked
  BY DEF Kept
<1>10. row.current \in 1..minted
  BY <1>5, <1>9 DEF TokensApart
<1>11. Kept'
  BY <1>1, <1>5, <1>6, <1>8, <1>9, <1>10, TokenMinted, SecretsKept DEF Kept
<1>12. ASSUME NEW s \in Revived', s \notin Revived
       PROVE  s = id /\ job[w].base # Stored(w)
  <2>1. s \in DOMAIN sessions /\ sessions'[s].status = "active" /\ sessions'[s].current \in replaced'
    BY <1>5, <1>12 DEF Revived
  <2>2. CASE s # id
    <3>1. sessions'[s] = sessions[s] /\ sessions[s].current = row.current
      BY <1>1, <1>5, <1>12, <2>1, <2>2 DEF Revived
    <3>2. <<s, sessions[s].current>> \in Held
      BY <2>1 DEF Held
    <3> QED
      BY <1>5, <1>9, <2>2, <3>1, <3>2 DEF TokensApart
  <2>3. CASE s = id /\ job[w].base = Stored(w)
    <3>1. minted + 1 \notin replaced'
      BY <1>1, <1>5, <1>9, <1>10 DEF TokensApart
    <3> QED
      BY <1>5, <2>1, <2>3, <3>1
  <2> QED
    BY <2>2, <2>3
<1>13. job[w].base # Stored(w) => w \in Overtaken(SessionSaves)
  BY <1>1, <1>2, <1>6, OvertakenNow
<1> QED
  BY <1>11, <1>12, <1>13 DEF id

LEMMA RevokeKept ==
  ASSUME Inv, Kept, NEW w \in Workers, Revoke(w)
  PROVE  Kept' /\ Revived' \subseteq Revived \cup {job[v].id : v \in Overtaken(SessionSaves)}
<1> DEFINE id == job[w].id
           row == job[w].row
           entity == [row EXCEPT !.status = "revoked"]
<1>1. /\ job[w].pc = "revoke" /\ job[w].base # Idle /\ End(w)
      /\ sessions' = [sessions EXCEPT ![id] = Save(w, entity)]
      /\ UNCHANGED <<minted, replaced, confirmed>>
  BY DEF Revoke, Saving, At, history
<1>2. job[w].pc \in SessionSaves
  BY <1>1 DEF SessionSaves
<1>3. row \in Session
  BY <1>1, Working DEF Inv, CarriesSession
<1>4. entity.current = row.current /\ entity.status = "revoked"
  BY <1>3 DEF Session
<1> HIDE DEF entity, row, id
<1>5. /\ JobsTrue /\ minted \in Nat /\ id \in DOMAIN sessions /\ DOMAIN sessions' = DOMAIN sessions
      /\ \A s \in DOMAIN sessions \ {id} : sessions'[s] = sessions[s]
      /\ sessions'[id].current \in {row.current, sessions[id].current}
      /\ job[w].base = Stored(w) => sessions'[id].status = "revoked"
      /\ <<id, row.current>> \in Held /\ <<id, sessions[id].current>> \in Held
  BY <1>1, <1>2, <1>4, SessionSaved DEF id, row
<1>6. Leaves(w) /\ job'[w] = Idle
  BY <1>1, <1>5, EndLeaves
<1>7. \A v \in Workers : Holds(v)' => Holds(v) /\ job'[v] = job[v]
  BY <1>6 DEF Leaves, Holds, Taking
<1>8. Held' \subseteq Held
  <2>1. ASSUME NEW s \in DOMAIN sessions'
        PROVE  <<s, sessions'[s].current>> \in Held
    BY <1>5 DEF Held
  <2>2. ASSUME NEW v \in Workers, Holds(v)'
        PROVE  <<job'[v].id, job'[v].row.current>> \in Held
    BY <1>7, <2>2 DEF Held
  <2> QED
    BY <2>1, <2>2 DEF Held
<1>9. Kept'
  BY <1>1, <1>5, <1>6, <1>8, TokensKept, SecretsKept DEF Kept
<1>10. ASSUME NEW s \in Revived', s \notin Revived
       PROVE  s = id /\ job[w].base # Stored(w)
  <2>1. s \in DOMAIN sessions /\ sessions'[s].status = "active" /\ sessions'[s].current \in replaced
    BY <1>1, <1>5, <1>10 DEF Revived
  <2>2. s = id
    BY <1>5, <1>10, <2>1 DEF Revived
  <2> QED
    BY <1>5, <2>1, <2>2
<1>11. job[w].base # Stored(w) => w \in Overtaken(SessionSaves)
  BY <1>1, <1>2, <1>6, OvertakenNow
<1> QED
  BY <1>9, <1>10, <1>11 DEF id

LEMMA RevokeSessionsKept ==
  ASSUME Inv, Kept, NEW w \in Workers, RevokeSessions(w)
  PROVE  Kept' /\ Revived' \subseteq Revived
<1>1. End(w) /\ UNCHANGED <<minted, replaced, confirmed>>
  BY DEF RevokeSessions, At, history
<1>2. PICK gone : sessions' = [s \in DOMAIN sessions |->
                    IF s \in gone THEN [sessions[s] EXCEPT !.status = "revoked"] ELSE sessions[s]]
  BY DEF RevokeSessions
<1>3. TypeOK /\ JobsTrue /\ minted \in Nat
  BY DEF Inv, TypeOK
<1>4. ASSUME NEW s \in DOMAIN sessions
      PROVE  /\ sessions'[s].current = sessions[s].current
             /\ sessions'[s].status \in {"revoked", sessions[s].status}
  <2>1. sessions[s] \in Session
    BY <1>3, Tables
  <2> QED
    BY <1>2, <2>1 DEF Session
<1>5. DOMAIN sessions' = DOMAIN sessions
  BY <1>2
<1>6. Leaves(w)
  BY <1>1, <1>3, EndLeaves
<1>7. Held' \subseteq Held
  BY <1>4, <1>5, <1>6, HeldLess
<1> QED
  BY <1>1, <1>3, <1>4, <1>5, <1>6, <1>7, TokensKept, SecretsKept DEF Kept, Revived

\* Steps that take a row, or save a TOTP method.
Takes(w) == Reload(w) \/ ReadSession(w) \/ ReadTotp(w)

\* What every step keeps, and the two statements about it.
NoneRevived == Revived' \subseteq Revived \cup {job[w].id : w \in Overtaken(SessionSaves)}
NoneUnproven == Unproven' \subseteq Unproven \cup {User(w) : w \in Overtaken(TotpSaves)}

LEMMA TotpSaved ==
  ASSUME Inv, NEW w \in Workers, job[w].pc \in TotpSaves, NEW entity
  PROVE  /\ User(w) \in Users /\ totp = [u \in Users |-> totp[u]]
         /\ job[w].base = Stored(w) => /\ Save(w, entity).status = entity.status
                                       /\ Save(w, entity).secret = entity.secret
<1>1. TypeOK /\ JobsTrue
  BY DEF Inv
<1>2. User(w) \in Users
  BY <1>1, Signed DEF ChallengeSteps, CodeSteps, TotpSaves
<1>3. Stored(w) = totp[User(w)] /\ totp[User(w)] \in MfaMethod
  BY <1>1, <1>2, Tables DEF Stored, CredentialSaves, TotpSaves, SessionSaves
<1>4. DOMAIN Stored(w) = {"status", "secret"}
  BY <1>3 DEF MfaMethod
<1>5. job[w].base = Stored(w) => /\ Save(w, entity).status = entity.status
                                 /\ Save(w, entity).secret = entity.secret
  BY <1>4 DEF Save, Merge
<1> QED
  BY <1>1, <1>2, <1>5 DEF TypeOK

\* A step that writes the TOTP method of one user.
LEMMA TotpWritten ==
  ASSUME NEW u \in Users, NEW row, totp = [v \in Users |-> totp[v]],
         totp' = [totp EXCEPT ![u] = row], UNCHANGED confirmed,
         row.status = "active" => row.secret \in confirmed
  PROVE  Unproven' \subseteq Unproven
BY DEF Unproven

LEMMA SaveMethodProven ==
  ASSUME Inv, NEW w \in Workers, SaveMethod(w)
  PROVE  NoneUnproven
<1>1. /\ job[w].pc = "saveMethod" /\ End(w) /\ UNCHANGED confirmed /\ (Inserts(w) \/ job[w].base # Idle)
      /\ \/ UNCHANGED totp
         \/ Inserts(w) /\ totp' = [totp EXCEPT ![User(w)] = NewMethod]
         \/ job[w].base # Idle /\ totp' = [totp EXCEPT ![User(w)] = Save(w, NewMethod)]
  BY DEF SaveMethod, At, history
<1>2. job[w].pc \in TotpSaves /\ JobsTrue
  BY <1>1 DEF TotpSaves, Inv
<1>3. /\ User(w) \in Users /\ totp = [u \in Users |-> totp[u]]
      /\ job[w].base = Stored(w) => Save(w, NewMethod).status = NewMethod.status
  BY <1>2, TotpSaved
<1>4. NewMethod.status = "pending"
  BY DEF NewMethod
<1>5. CASE UNCHANGED totp
  BY <1>1, <1>5 DEF NoneUnproven, Unproven
<1>6. CASE totp' = [totp EXCEPT ![User(w)] = NewMethod]
  <2>1. Unproven' \subseteq Unproven
    BY <1>1, <1>3, <1>4, <1>6, TotpWritten
  <2> QED
    BY <2>1 DEF NoneUnproven
<1>7. CASE job[w].base # Idle /\ totp' = [totp EXCEPT ![User(w)] = Save(w, NewMethod)]
  <2>1. CASE job[w].base = Stored(w)
    <3>1. Unproven' \subseteq Unproven
      BY <1>1, <1>3, <1>4, <1>7, <2>1, TotpWritten
    <3> QED
      BY <3>1 DEF NoneUnproven
  <2>2. CASE job[w].base # Stored(w)
    <3>1. w \in Overtaken(TotpSaves)
      BY <1>1, <1>2, <1>7, <2>2, EndLeaves, OvertakenNow
    <3>2. \A u \in Users \ {User(w)} : totp'[u] = totp[u]
      BY <1>3, <1>7
    <3> QED
      BY <1>1, <3>1, <3>2 DEF NoneUnproven, Unproven
  <2> QED
    BY <2>1, <2>2
<1> QED
  BY <1>1, <1>5, <1>6, <1>7

LEMMA SaveTotpProven ==
  ASSUME Inv, Kept, NEW w \in Workers, SaveTotp(w)
  PROVE  NoneUnproven
<1> DEFINE entity == [job[w].row EXCEPT !.status = "active"]
<1>1. /\ job[w].pc = "saveTotp" /\ End(w) /\ UNCHANGED confirmed /\ job[w].base # Idle
      /\ totp' = [totp EXCEPT ![User(w)] = Save(w, entity)]
  BY DEF SaveTotp, Saving, At, history
<1>2. job[w].pc \in TotpSaves /\ JobsTrue
  BY <1>1 DEF TotpSaves, Inv
<1>3. job[w].row \in MfaMethod /\ job[w].row.secret \in confirmed
  BY <1>1, <1>2, Working DEF CarriesTotp, Kept, SecretsChecked
<1>4. entity.secret \in confirmed
  BY <1>3 DEF MfaMethod
<1> HIDE DEF entity
<1>5. /\ User(w) \in Users /\ totp = [u \in Users |-> totp[u]]
      /\ job[w].base = Stored(w) => Save(w, entity).secret = entity.secret
  BY <1>2, TotpSaved
<1>6. CASE job[w].base = Stored(w)
  <2>1. Unproven' \subseteq Unproven
    BY <1>1, <1>4, <1>5, <1>6, TotpWritten
  <2> QED
    BY <2>1 DEF NoneUnproven
<1>7. CASE job[w].base # Stored(w)
  <2>1. w \in Overtaken(TotpSaves)
    BY <1>1, <1>2, <1>7, EndLeaves, OvertakenNow
  <2>2. \A u \in Users \ {User(w)} : totp'[u] = totp[u]
    BY <1>1, <1>5
  <2> QED
    BY <1>1, <2>1, <2>2 DEF NoneUnproven, Unproven
<1> QED
  BY <1>6, <1>7

LEMMA NothingSaved ==
  ASSUME UNCHANGED <<sessions, replaced>>
  PROVE  NoneRevived
BY DEF NoneRevived, Revived

LEMMA NothingActivated ==
  ASSUME UNCHANGED totp, confirmed \subseteq confirmed'
  PROVE  NoneUnproven
BY DEF NoneUnproven, Unproven

LEMMA KeptNext ==
  ASSUME Inv, Kept, [Next]_vars
  PROVE  Kept' /\ NoneRevived /\ NoneUnproven
<1>1. ASSUME NEW w \in Workers, Aside(w)
      PROVE  Kept' /\ NoneRevived /\ NoneUnproven
  <2>1. UNCHANGED <<sessions, totp, replaced, confirmed>>
    BY <1>1, AsideLeaves DEF Inv
  <2> QED
    BY <1>1, <2>1, AsideKept, NothingSaved, NothingActivated
<1>2. ASSUME NEW w \in Workers, Takes(w)
      PROVE  Kept' /\ NoneRevived /\ NoneUnproven
  <2>1. UNCHANGED <<sessions, totp, replaced>> /\ confirmed \subseteq confirmed'
    BY <1>2 DEF Takes, Reload, ReadSession, ReadTotp, rows, history
  <2> QED
    BY <1>2, <2>1, ReloadKept, ReadSessionKept, ReadTotpKept, NothingSaved, NothingActivated DEF Takes
<1>3. ASSUME NEW w \in Workers, SaveMethod(w) \/ SaveTotp(w)
      PROVE  Kept' /\ NoneRevived /\ NoneUnproven
  <2>1. UNCHANGED <<sessions, replaced>>
    BY <1>3 DEF SaveMethod, SaveTotp, history
  <2> QED
    BY <1>3, <2>1, SaveTotpKept, SaveMethodProven, SaveTotpProven, NothingSaved
<1>4. ASSUME NEW w \in Workers,
             CreateSession(w) \/ IssueDevice(w) \/ Rotate(w) \/ Revoke(w) \/ RevokeSessions(w)
      PROVE  Kept' /\ NoneRevived /\ NoneUnproven
  <2>1. UNCHANGED <<totp, confirmed>>
    BY <1>4 DEF CreateSession, IssueDevice, Rotate, Revoke, RevokeSessions, history
  <2>2. Kept' /\ NoneRevived
    BY <1>4, NewSessionKept, RotateKept, RevokeKept, RevokeSessionsKept DEF NoneRevived
  <2> QED
    BY <2>1, <2>2, NothingActivated
<1>5. CASE Tick \/ UNCHANGED vars
  <2>1. UNCHANGED <<sessions, totp, minted, replaced, confirmed, job>>
    BY <1>5 DEF Tick, vars, rows, history
  <2>2. Held' \subseteq Held /\ minted \in Nat
    BY <2>1 DEF Held, Holds, Inv, TypeOK
  <2>3. SecretsChecked'
    BY <2>1 DEF Kept, SecretsChecked
  <2> QED
    BY <2>1, <2>2, <2>3, TokensKept, NothingSaved, NothingActivated DEF Kept
<1> QED
  BY <1>1, <1>2, <1>3, <1>4, <1>5 DEF Next, Aside, Takes

LEMMA KeptInit ==
  ASSUME Init
  PROVE  Kept
<1>1. /\ sessions = [u \in Users |-> [user |-> u, device |-> u, current |-> u + 1,
                                      previous |-> 0, status |-> "active"]]
      /\ minted = NumUsers + 1 /\ replaced = {} /\ job = [w \in Workers |-> Idle]
  BY DEF Init
<1>2. NumUsers \in Nat /\ Users = 1..NumUsers
  BY AuthAssumption DEF Users
<1>3. \A w \in Workers : job[w].pc = "idle"
  BY <1>1 DEF Idle
<1>4. Held = {<<u, u + 1>> : u \in Users}
  BY <1>1, <1>3 DEF Held, Holds, SessionSaves
<1>5. TokensApart
  BY <1>1, <1>2, <1>4 DEF TokensApart
<1>6. SecretsChecked
  BY <1>3 DEF SecretsChecked
<1> QED
  BY <1>5, <1>6 DEF Kept

\* The tokens of two sessions, held or about to be saved, never meet, and a
\* confirmation carries a checked secret.
THEOREM KeptHolds == Spec => []Kept
<1>1. Init => Kept
  BY KeptInit
<1>2. Inv /\ Kept /\ [Next]_vars => Kept'
  BY KeptNext
<1> QED
  BY <1>1, <1>2, InvHolds, PTL DEF Spec

\* SessionService.refresh and logout: a token that a rotation replaced is current
\* again only through a save that another write overtook.
THEOREM ReplacedTokensAreDead == Spec => RevivedOnlyWhenOvertaken
<1>1. Inv /\ Kept /\ [Next]_vars =>
        [Revived' \subseteq Revived \cup {job[w].id : w \in Overtaken(SessionSaves)}]_vars
  BY KeptNext DEF NoneRevived
<1> QED
  BY <1>1, InvHolds, KeptHolds, PTL DEF Spec, RevivedOnlyWhenOvertaken

\* MfaService.enrollTotp and confirmTotp: a secret no code was checked against is
\* active only through a save that another write overtook.
THEOREM ActiveTotpIsProven == Spec => UnprovenOnlyWhenOvertaken
<1>1. Inv /\ Kept /\ [Next]_vars =>
        [Unproven' \subseteq Unproven \cup {User(w) : w \in Overtaken(TotpSaves)}]_vars
  BY KeptNext DEF NoneUnproven
<1> QED
  BY <1>1, InvHolds, KeptHolds, PTL DEF Spec, UnprovenOnlyWhenOvertaken

=============================================================================
