------------------------------- MODULE Auth --------------------------------
(***************************************************************************)
(* The auth and users modules, and the saving of bank accounts: login with *)
(* its lockout, trusted devices and MFA challenges, session rotation and   *)
(* revocation, TOTP enrollment, the step-up changes of password, PIN,      *)
(* email, phone and bank accounts, and verification codes.                 *)
(*                                                                         *)
(* Requests run concurrently, one per worker.  An action is one database   *)
(* call.  TypeORM's save of an entity that a request read earlier is two:  *)
(* it reads the row again and compares every column with the entity, then  *)
(* updates the columns that differed.  Its update writes the columns it    *)
(* names.  A job carries the entity as "row", changed in the fields the    *)
(* code assigns, and what its save has read again as "base".               *)
(*                                                                         *)
(* A password, PIN or secret is known by what introduced it, so that a     *)
(* state says where each came from.  Whether a caller's password, PIN or   *)
(* code is the right one is either answer.                                 *)
(***************************************************************************)
EXTENDS Integers, Sequences, FiniteSets

CONSTANTS
  NumUsers, Workers,
  Callers,              \* the users who make requests in this instance
  OpSets,               \* the operations requested together in one behaviour
  Addresses,            \* emails and phone numbers to change to; user u registered with u
  BankNumbers,          \* account numbers to save
  CodeValues,           \* what generateNumericCode draws from
  MaxFailedLogins,      \* MAX_FAILED_LOGIN_ATTEMPTS (5)
  MaxChallengeAttempts, \* MAX_CHALLENGE_ATTEMPTS (5)
  MaxFailedPins,        \* MAX_FAILED_PIN_ATTEMPTS (3)
  MaxSends,             \* MAX_SENDS_PER_HOUR (5)
  Cooldown, Window,     \* RESEND_COOLDOWN_MS, RATE_LIMIT_WINDOW_MS
  Lockout,              \* LOCKOUT_DURATION_MS, PIN_LOCKOUT_DURATION_MS
  Lifetime,             \* CHALLENGE_TTL_MS and the codes' time to live
  MaxCalls, MaxTime

Users == 1..NumUsers

ASSUME AuthAssumption ==
  /\ NumUsers \in Nat /\ Callers \subseteq Users
  /\ Addresses \subseteq Nat \ {0}
  /\ {MaxFailedLogins, MaxChallengeAttempts, MaxFailedPins, MaxSends,
      Cooldown, Window, Lockout, Lifetime} \subseteq Nat \ {0}
  /\ MaxCalls \in Nat /\ MaxTime \in Nat

VARIABLES
  now,
  credential,   \* credentials, by user
  totp,         \* the user's TOTP row of mfa_methods
  challenges, devices, sessions, codes,   \* tables; an id is an index
  banks,        \* bank_accounts
  profile,      \* users: for email and phone, the live and pending address
  job,          \* the request each worker serves
  minted,       \* refresh tokens and TOTP secrets generated so far
  calls,
  offered,      \* the operations requested in this behaviour, of OpSets
  passed,       \* history: challenges answered rightly
  confirmed,    \* history: TOTP secrets a code was checked against
  replaced      \* history: refresh tokens a rotation has replaced

rows == <<banks, credential, totp, challenges, devices, sessions, codes, profile, minted>>
history == <<passed, confirmed, replaced>>
vars == <<now, banks, credential, totp, challenges, devices, sessions, codes, profile, job,
          minted, calls, offered, passed, confirmed, replaced>>

-----------------------------------------------------------------------------
(* Rows *)

Registered == <<"registered", 0>>
Purposes == {"email", "phone"}

Credential ==
  [password : {Registered} \cup ({"challenge", "code"} \X Nat), pin : Nat,
   failed : Nat, lockedUntil : Nat, failedPins : Nat, pinLockedUntil : Nat]
MfaMethod == [status : {"none", "pending", "active"}, secret : Nat]
MfaChallenge ==
  [user : Users, method : {"email", "totp"}, status : {"pending", "verified", "failed"},
   attempts : Nat, expiresAt : Nat]
TrustedDevice == [user : Users, challenge : Nat]
Session ==
  [user : Users, device : Nat, current : Nat, previous : Nat, status : {"active", "revoked"}]
\* The address a code was sent to is not a column.
VerificationCode ==
  [user : Users, purpose : Purposes \cup {"password"}, value : CodeValues,
   expiresAt : Nat, createdAt : Nat, used : BOOLEAN]
\* An address, with the challenge that introduced it.
Address == [to : Nat, by : Nat]
NoAddress == [to |-> 0, by |-> 0]
\* A saved bank account, with the challenge that was answered for it.
BankAccount == [user : Users, number : BankNumbers, by : Nat]
Contact == [live : Address, pending : Address \cup {NoAddress}, verified : BOOLEAN]

TypeOK ==
  /\ now \in 0..MaxTime
  /\ credential \in [Users -> Credential]
  /\ totp \in [Users -> MfaMethod]
  /\ challenges \in Seq(MfaChallenge)
  /\ devices \in Seq(TrustedDevice)
  /\ sessions \in Seq(Session)
  /\ codes \in Seq(VerificationCode)
  /\ profile \in [Users -> [Purposes -> Contact]]
  /\ banks \subseteq BankAccount
  /\ minted \in Nat /\ calls \in 0..MaxCalls
  /\ passed \subseteq DOMAIN challenges /\ replaced \subseteq Nat

Idle == [pc |-> "idle"]
End(w) == job' = [job EXCEPT ![w] = Idle]
Goto(w, label) == job' = [job EXCEPT ![w].pc = label]
\* The request keeps an entity it read, for a later save.
Carry(w, label, row) ==
  job' = [job EXCEPT ![w].pc = label, ![w].row = row, ![w].base = Idle, ![w].at = now]
Expired(row) == row.expiresAt <= now

-----------------------------------------------------------------------------
(* Requests.  at is the "now" the request took when it read its row. *)

StepUpOps == {"changePassword", "enrollTotp", "changeEmail", "changePhone",
              "setPin", "changePin", "resetPin", "saveBankAccount"}

\* The first database call of each request.
FirstStep(op) ==
  CASE op = "login" -> "readLogin"
    [] op \in StepUpOps \cup {"verifyMfa"} -> "readChallenge"
    [] op \in {"refresh", "logout"} -> "readSession"
    [] op \in {"verifyEmail", "verifyPhone", "completeReset", "confirmEmail", "confirmPhone"}
         -> "readCode"
    [] op \in {"requestReset", "resendEmail", "resendPhone"} -> "checkSends"
    [] op = "stepUp" -> "createChallenge"
    [] op = "confirmTotp" -> "readTotp"
    [] op = "verifyPin" -> "readPin"
    [] op = "updateProfile" -> "readProfile"

Request(op, user, id) ==
  [op |-> op, user |-> user, id |-> id, pc |-> FirstStep(op), row |-> Idle, base |-> Idle,
   at |-> 0]

\* JwtAuthGuard: the caller holds an access token, so once had a session.
Authenticated(u) == \E s \in DOMAIN sessions : sessions[s].user = u

RefreshTokens ==
  replaced \cup {sessions[s].current : s \in DOMAIN sessions}

Requests ==
  {Request("login", u, d) : u \in Callers, d \in 0..Len(devices)}
    \cup {Request("verifyMfa", 0, c) : c \in DOMAIN challenges}
    \cup {Request(op, 0, t) : op \in {"refresh", "logout"}, t \in RefreshTokens}
    \cup {Request(op, 0, v) : op \in {"verifyEmail", "verifyPhone", "completeReset"},
                                     v \in CodeValues}
    \cup {Request("requestReset", u, 0) : u \in Callers}
    \cup {Request(op, u, c) : op \in StepUpOps,
            u \in {v \in Callers : Authenticated(v)}, c \in DOMAIN challenges}
    \cup {Request(op, u, 0) : op \in {"stepUp", "confirmTotp", "verifyPin", "resendEmail",
                                      "resendPhone", "updateProfile"},
            u \in {v \in Callers : Authenticated(v)}}
    \cup {Request(op, u, v) : op \in {"confirmEmail", "confirmPhone"},
            u \in {x \in Callers : Authenticated(x)}, v \in CodeValues}

Begin(w) ==
  /\ job[w] = Idle /\ calls < MaxCalls
  /\ \E r \in Requests :
       /\ r.op \in offered
       /\ job' = [job EXCEPT ![w] = r]
  /\ calls' = calls + 1
  /\ UNCHANGED <<now, offered, rows, history>>

At(w, label) == job[w].pc = label /\ UNCHANGED <<now, calls, offered>>
User(w) == job[w].user
Op(w) == job[w].op

-----------------------------------------------------------------------------
(* Repository.save *)

\* The steps that save, and the row each of them saves.
CredentialSaves == {"savePassword", "changePassword", "savePin", "checkPin"}
TotpSaves == {"saveMethod", "saveTotp"}
SessionSaves == {"rotate", "revoke"}
Saves == CredentialSaves \cup TotpSaves \cup SessionSaves
           \cup {"saveChallenge", "saveCode", "saveProfile"}

Stored(w) ==
  CASE job[w].pc \in CredentialSaves -> credential[User(w)]
    [] job[w].pc \in TotpSaves -> totp[User(w)]
    [] job[w].pc \in SessionSaves -> sessions[job[w].id]
    [] job[w].pc = "saveChallenge" -> challenges[job[w].id]
    [] job[w].pc = "saveCode" -> codes[job[w].id]
    [] job[w].pc = "saveProfile" -> profile[User(w)]

\* An entity that was not read but created is inserted.
Inserts(w) == job[w].pc = "saveMethod" /\ job[w].row.status = "none"

\* save reads the row again.
Reload(w) ==
  /\ job[w].pc \in Saves /\ job[w].base = Idle /\ ~Inserts(w)
  /\ job' = [job EXCEPT ![w].base = Stored(w)]
  /\ UNCHANGED <<now, calls, offered, rows, history>>

\* save updates the columns in which the entity differs from what it read again.
Merge(entity, base, row) ==
  [column \in DOMAIN row |->
     IF entity[column] # base[column] THEN entity[column] ELSE row[column]]

Save(w, entity) == Merge(entity, job[w].base, Stored(w))

Saving(w, label) == At(w, label) /\ job[w].base # Idle

-----------------------------------------------------------------------------
(* SessionService.login and MfaService's trusted devices *)

\* A lockout that has passed gives a fresh count.
Unlocked(row) ==
  IF row.lockedUntil # 0 THEN [row EXCEPT !.lockedUntil = 0, !.failed = 0] ELSE row

ReadLogin(w) ==
  /\ At(w, "readLogin")
  /\ LET row == credential[User(w)] IN
       IF row.lockedUntil > now THEN End(w) ELSE Carry(w, "savePassword", Unlocked(row))
  /\ UNCHANGED <<rows, history>>

WrongPassword(row, at) ==
  [row EXCEPT !.failed = @ + 1,
              !.lockedUntil = IF row.failed + 1 >= MaxFailedLogins THEN at + Lockout ELSE @]

SaveLogin(w) ==
  /\ Saving(w, "savePassword")
  /\ \/ /\ credential' = [credential EXCEPT ![User(w)] =
                            Save(w, WrongPassword(job[w].row, job[w].at))]
        /\ End(w)
     \/ /\ credential' = [credential EXCEPT ![User(w)] =
                            Save(w, [job[w].row EXCEPT !.failed = 0, !.lockedUntil = 0])]
        /\ Goto(w, "findDevice")
  /\ UNCHANGED <<banks, totp, challenges, devices, sessions, codes, profile, minted, history>>

\* Mutant: a device is accepted without comparing its user.
AnyTrustedDevice(u, d) == d # 0

\* Its 30 days may have passed: a device that is valid may also be refused.
ValidTrustedDevice(u, d) == d # 0 /\ devices[d].user = u

FindDevice(w) ==
  /\ At(w, "findDevice")
  /\ \/ ValidTrustedDevice(User(w), job[w].id) /\ Goto(w, "createSession")
     \/ Goto(w, "createChallenge")
  /\ UNCHANGED <<rows, history>>

NewSession(u, d) ==
  /\ sessions' = Append(sessions, [user |-> u, device |-> d, current |-> minted + 1,
                                   previous |-> 0, status |-> "active"])
  /\ minted' = minted + 1

\* touchTrustedDevice and createSession, one transaction.
CreateSession(w) ==
  /\ At(w, "createSession")
  /\ NewSession(User(w), job[w].id)
  /\ End(w)
  /\ UNCHANGED <<banks, credential, totp, challenges, devices, codes, profile, history>>

-----------------------------------------------------------------------------
(* MfaService's challenges *)

PickChallengeMethod(u) == IF totp[u].status = "active" THEN "totp" ELSE "email"

\* buildChallenge, for a login from an unknown device or for a step-up.
CreateChallenge(w) ==
  /\ At(w, "createChallenge")
  /\ challenges' = Append(challenges,
       [user |-> User(w), method |-> PickChallengeMethod(User(w)), status |-> "pending",
        attempts |-> 0, expiresAt |-> now + Lifetime])
  /\ End(w)
  /\ UNCHANGED <<banks, credential, totp, devices, sessions, codes, profile, minted, history>>

Answerable(challenge) == challenge.status = "pending" /\ ~Expired(challenge)

ReadChallenge(w) ==
  /\ At(w, "readChallenge")
  /\ LET challenge == challenges[job[w].id] IN
       IF Answerable(challenge) THEN Carry(w, "saveChallenge", challenge) ELSE End(w)
  /\ UNCHANGED <<rows, history>>

WrongAnswer(row) ==
  [row EXCEPT !.attempts = @ + 1,
              !.status = IF row.attempts + 1 >= MaxChallengeAttempts THEN "failed" ELSE @]

\* Every step-up compares the challenge's user with the caller.  The mutant
\* AnyChallenge does not.
AnyChallenge(w) == TRUE

OwnChallenge(w) == job[w].row.user = User(w)

\* What a request does once its challenge is verified.
AfterChallenge(w) ==
  IF Op(w) # "verifyMfa" /\ ~OwnChallenge(w) THEN "idle"
  ELSE CASE Op(w) = "verifyMfa" -> "issueDevice"
         [] Op(w) = "changePassword" -> "readPassword"
         [] Op(w) = "enrollTotp" -> "readMethod"
         [] Op(w) \in {"changeEmail", "changePhone"} -> "checkSends"
         [] Op(w) \in {"setPin", "resetPin"} -> "readCredential"
         [] Op(w) = "changePin" -> "readPin"
         [] Op(w) = "saveBankAccount" -> "saveBank"

SaveChallenge(w) ==
  /\ Saving(w, "saveChallenge")
  /\ \/ /\ challenges' = [challenges EXCEPT ![job[w].id] = Save(w, WrongAnswer(job[w].row))]
        /\ End(w)
        /\ UNCHANGED passed
     \/ /\ challenges' = [challenges EXCEPT ![job[w].id] =
                            Save(w, [job[w].row EXCEPT !.status = "verified"])]
        /\ passed' = passed \cup {job[w].id}
        /\ IF AfterChallenge(w) = "idle" THEN End(w) ELSE Goto(w, AfterChallenge(w))
  /\ UNCHANGED <<banks, credential, totp, devices, sessions, codes, profile, minted,
                 confirmed, replaced>>

\* verifyMfaChallenge: a new trusted device and a session on it, one transaction.
IssueDevice(w) ==
  /\ At(w, "issueDevice")
  /\ devices' = Append(devices, [user |-> job[w].row.user, challenge |-> job[w].id])
  /\ NewSession(job[w].row.user, Len(devices) + 1)
  /\ End(w)
  /\ UNCHANGED <<banks, credential, totp, challenges, codes, profile, history>>

-----------------------------------------------------------------------------
(* SessionService.refresh and logout *)

WithCurrent(t) == {s \in DOMAIN sessions : sessions[s].current = t}
WithPrevious(t) == {s \in DOMAIN sessions : sessions[s].previous = t}

\* The session is found by its current token, or else by its previous one,
\* which is a replay and revokes it.  A session may be past its 30 days, which
\* only refresh checks.
ReadSession(w) ==
  /\ At(w, "readSession")
  /\ LET t == job[w].id
         found == {s \in WithCurrent(t) : sessions[s].status = "active"}
         replays == IF Op(w) = "refresh" /\ WithCurrent(t) = {} THEN WithPrevious(t) ELSE {}
     IN \/ \E s \in found :
             job' = [job EXCEPT ![w].pc = IF Op(w) = "refresh" THEN "rotate" ELSE "revoke",
                                ![w].row = sessions[s], ![w].id = s]
        \/ \E s \in replays :
             job' = [job EXCEPT ![w].pc = "revoke", ![w].row = sessions[s], ![w].id = s]
        \/ (Op(w) = "refresh" \/ found = {}) /\ replays = {} /\ End(w)
  /\ UNCHANGED <<rows, history>>

\* Mutant: a refresh hands out the token it was called with.
RotatedInPlace(row) == [row EXCEPT !.previous = row.current]

Rotated(row) == [row EXCEPT !.previous = row.current, !.current = minted + 1]

Rotate(w) ==
  /\ Saving(w, "rotate")
  /\ sessions' = [sessions EXCEPT ![job[w].id] = Save(w, Rotated(job[w].row))]
  /\ minted' = minted + 1
  /\ replaced' = replaced \cup {job[w].row.current}
  /\ End(w)
  /\ UNCHANGED <<banks, credential, totp, challenges, devices, codes, profile, passed, confirmed>>

Revoke(w) ==
  /\ Saving(w, "revoke")
  /\ sessions' = [sessions EXCEPT ![job[w].id] =
                     Save(w, [job[w].row EXCEPT !.status = "revoked"])]
  /\ End(w)
  /\ UNCHANGED <<banks, credential, totp, challenges, devices, codes, profile, minted, history>>

\* revokeOtherSessions: an update of the status column.  A request with an
\* access token keeps its own session, a password reset keeps none.
RevokeSessions(w) ==
  /\ At(w, "revokeSessions")
  /\ LET mine == {s \in DOMAIN sessions : sessions[s].user = User(w)} IN
       \E own \in IF Op(w) = "completeReset" THEN {0} ELSE mine :
         sessions' = [s \in DOMAIN sessions |->
                        IF s \in mine \ {own} THEN [sessions[s] EXCEPT !.status = "revoked"]
                                              ELSE sessions[s]]
  /\ End(w)
  /\ UNCHANGED <<banks, credential, totp, challenges, devices, codes, profile, minted, history>>

\* The caller asked for revokeOtherSessions, or did not.
EndOrRevokeSessions(w) == End(w) \/ Goto(w, "revokeSessions")

-----------------------------------------------------------------------------
(* AuthService.changePassword, MfaService.enrollTotp and confirmTotp *)

ReadPassword(w) ==
  /\ At(w, "readPassword")
  /\ Carry(w, "changePassword", credential[User(w)])
  /\ UNCHANGED <<rows, history>>

\* A wrong current password ends the request and is not counted.
ChangePassword(w) ==
  /\ Saving(w, "changePassword")
  /\ \/ End(w) /\ UNCHANGED credential
     \/ /\ credential' = [credential EXCEPT ![User(w)] =
                            Save(w, [job[w].row EXCEPT !.password = <<"challenge", job[w].id>>])]
        /\ EndOrRevokeSessions(w)
  /\ UNCHANGED <<banks, totp, challenges, devices, sessions, codes, profile, minted, history>>

ReadMethod(w) ==
  /\ At(w, "readMethod")
  /\ IF totp[User(w)].status = "active" THEN End(w) ELSE Carry(w, "saveMethod", totp[User(w)])
  /\ UNCHANGED <<rows, history>>

NewMethod == [status |-> "pending", secret |-> minted + 1]

\* A second insert for the user violates UQ_mfa_methods_user_id_type.
SaveMethod(w) ==
  /\ At(w, "saveMethod") /\ (Inserts(w) \/ job[w].base # Idle)
  /\ IF Inserts(w) /\ totp[User(w)].status # "none"
     THEN UNCHANGED <<totp, minted>>
     ELSE /\ totp' = [totp EXCEPT ![User(w)] =
                        IF Inserts(w) THEN NewMethod ELSE Save(w, NewMethod)]
          /\ minted' = minted + 1
  /\ End(w)
  /\ UNCHANGED <<banks, credential, challenges, devices, sessions, codes, profile, history>>

\* The code is checked against the secret of the row read here.
ReadTotp(w) ==
  /\ At(w, "readTotp")
  /\ \/ End(w) /\ UNCHANGED confirmed
     \/ /\ totp[User(w)].status = "pending"
        /\ confirmed' = confirmed \cup {totp[User(w)].secret}
        /\ Carry(w, "saveTotp", totp[User(w)])
  /\ UNCHANGED <<rows, passed, replaced>>

\* Mutant: the confirmation sets the status of whatever row is there.
ActivateWhatIsThere(w) ==
  /\ Saving(w, "saveTotp")
  /\ totp' = [totp EXCEPT ![User(w)].status = "active"]
  /\ End(w)
  /\ UNCHANGED <<banks, credential, challenges, devices, sessions, codes, profile, minted, history>>

SaveTotp(w) ==
  /\ Saving(w, "saveTotp")
  /\ totp' = [totp EXCEPT ![User(w)] = Save(w, [job[w].row EXCEPT !.status = "active"])]
  /\ End(w)
  /\ UNCHANGED <<banks, credential, challenges, devices, sessions, codes, profile, minted, history>>

-----------------------------------------------------------------------------
(* TransactionPinService.  A PIN is the challenge it was set with, 0 is none. *)

\* setTransactionPin only sets a first PIN; resetTransactionPin any.
ReadCredential(w) ==
  /\ At(w, "readCredential")
  /\ LET row == credential[User(w)] IN
       IF Op(w) = "setPin" /\ row.pin # 0 THEN End(w) ELSE Carry(w, "savePin", row)
  /\ UNCHANGED <<rows, history>>

SavePin(w) ==
  /\ Saving(w, "savePin")
  /\ LET row == [job[w].row EXCEPT !.pin = job[w].id] IN
       credential' = [credential EXCEPT ![User(w)] = Save(w,
         IF Op(w) = "resetPin" THEN [row EXCEPT !.failedPins = 0, !.pinLockedUntil = 0] ELSE row)]
  /\ End(w)
  /\ UNCHANGED <<banks, totp, challenges, devices, sessions, codes, profile, minted, history>>

PinUnlocked(row) ==
  IF row.pinLockedUntil # 0 THEN [row EXCEPT !.pinLockedUntil = 0, !.failedPins = 0] ELSE row

\* verifyAndTrackPinAttempt, for verifyTransactionPin and changeTransactionPin.
ReadPin(w) ==
  /\ At(w, "readPin")
  /\ LET row == credential[User(w)] IN
       IF row.pin = 0 \/ row.pinLockedUntil > now
       THEN End(w) ELSE Carry(w, "checkPin", PinUnlocked(row))
  /\ UNCHANGED <<rows, history>>

WrongPin(row, at) ==
  [row EXCEPT !.failedPins = @ + 1,
              !.pinLockedUntil = IF row.failedPins + 1 >= MaxFailedPins THEN at + Lockout ELSE @]

CheckPin(w) ==
  /\ Saving(w, "checkPin")
  /\ \/ /\ credential' = [credential EXCEPT ![User(w)] =
                            Save(w, WrongPin(job[w].row, job[w].at))]
        /\ End(w)
     \/ LET row == [job[w].row EXCEPT !.failedPins = 0, !.pinLockedUntil = 0] IN
          /\ credential' = [credential EXCEPT ![User(w)] = Save(w, row)]
          /\ IF Op(w) = "changePin" THEN Carry(w, "savePin", row) ELSE End(w)
  /\ UNCHANGED <<banks, totp, challenges, devices, sessions, codes, profile, minted, history>>

-----------------------------------------------------------------------------
(* WithdrawalsService.saveBankAccount *)

Saved(u) == {account.number : account \in {b \in banks : b.user = u}}

\* The provider resolves the number or does not know it; a number the user has
\* saved already violates UQ_bank_accounts_user_provider_bank_account_hash.
SaveBankAccount(w) ==
  /\ At(w, "saveBank")
  /\ \/ UNCHANGED banks
     \/ \E n \in BankNumbers \ Saved(User(w)) :
          banks' = banks \cup {[user |-> User(w), number |-> n, by |-> job[w].id]}
  /\ End(w)
  /\ UNCHANGED <<credential, totp, challenges, devices, sessions, codes, profile, minted, history>>

-----------------------------------------------------------------------------
(* VerificationCodeService and the flows that send or use a code *)

PurposeOf(op) ==
  CASE op \in {"changeEmail", "confirmEmail", "verifyEmail", "resendEmail"} -> "email"
    [] op \in {"changePhone", "confirmPhone", "verifyPhone", "resendPhone"} -> "phone"
    [] op \in {"requestReset", "completeReset"} -> "password"
Purpose(w) == PurposeOf(Op(w))

SentTo(u, p) == {k \in DOMAIN codes : codes[k].user = u /\ codes[k].purpose = p}
InWindow(u, p) == {k \in SentTo(u, p) : now - codes[k].createdAt < Window}

ResendAllowed(u, p) ==
  /\ \A k \in SentTo(u, p) : now - codes[k].createdAt >= Cooldown
  /\ Cardinality(InWindow(u, p)) < MaxSends

\* A resend is also refused for an address that is verified already.
CheckSends(w) ==
  /\ At(w, "checkSends")
  /\ LET done == Op(w) \in {"resendEmail", "resendPhone"}
                   /\ profile[User(w)][Purpose(w)].verified
     IN IF ~done /\ ResendAllowed(User(w), Purpose(w))
        THEN Goto(w, IF Op(w) \in {"changeEmail", "changePhone"} THEN "setPending" ELSE "issueCode")
        ELSE End(w)
  /\ UNCHANGED <<rows, history>>

\* setPendingEmail, setPendingPhone: an update of one column.
SetPending(w) ==
  /\ At(w, "setPending")
  /\ \E a \in Addresses :
       profile' = [profile EXCEPT ![User(w)][Purpose(w)].pending = [to |-> a, by |-> job[w].id]]
  /\ Goto(w, "issueCode")
  /\ UNCHANGED <<banks, credential, totp, challenges, devices, sessions, codes, minted, history>>

IssueCode(w) ==
  /\ At(w, "issueCode")
  /\ \E v \in CodeValues :
       codes' = Append(codes, [user |-> User(w), purpose |-> Purpose(w), value |-> v,
                               expiresAt |-> now + Lifetime, createdAt |-> now, used |-> FALSE])
  /\ End(w)
  /\ UNCHANGED <<banks, credential, totp, challenges, devices, sessions, profile, minted, history>>

\* consume looks a code up by purpose and value: any row with that value may be
\* the one found, of whatever user, used or not.
ReadCode(w) ==
  /\ At(w, "readCode")
  /\ LET matches == {k \in DOMAIN codes : codes[k].purpose = Purpose(w)
                                         /\ codes[k].value = job[w].id}
     IN \/ \E k \in matches :
             IF codes[k].used \/ Expired(codes[k])
             THEN End(w)
             ELSE job' = [job EXCEPT ![w].pc = "saveCode", ![w].row = codes[k], ![w].id = k]
        \/ matches = {} /\ End(w)
  /\ UNCHANGED <<rows, history>>

OwnCode(w) == job[w].row.user = User(w)

\* The code is used up first; only then is it compared with the caller.  The
\* flows without a caller act for the code's user.
SaveCode(w) ==
  /\ Saving(w, "saveCode")
  /\ codes' = [codes EXCEPT ![job[w].id] = Save(w, [job[w].row EXCEPT !.used = TRUE])]
  /\ CASE Op(w) \in {"confirmEmail", "confirmPhone"} ->
            IF OwnCode(w) THEN Goto(w, "readProfile") ELSE End(w)
       [] Op(w) \in {"verifyEmail", "verifyPhone"} ->
            job' = [job EXCEPT ![w].pc = "markVerified", ![w].user = job[w].row.user]
       [] Op(w) = "completeReset" ->
            job' = [job EXCEPT ![w].pc = "resetPassword", ![w].user = job[w].row.user]
  /\ UNCHANGED <<banks, credential, totp, challenges, devices, sessions, profile, minted, history>>

MarkVerified(w) ==
  /\ At(w, "markVerified")
  /\ profile' = [profile EXCEPT ![User(w)][Purpose(w)].verified = TRUE]
  /\ End(w)
  /\ UNCHANGED <<banks, credential, totp, challenges, devices, sessions, codes, minted, history>>

\* completePasswordReset updates the password column only.
ResetPassword(w) ==
  /\ At(w, "resetPassword")
  /\ credential' = [credential EXCEPT ![User(w)].password = <<"code", job[w].id>>]
  /\ EndOrRevokeSessions(w)
  /\ UNCHANGED <<banks, totp, challenges, devices, sessions, codes, profile, minted, history>>

-----------------------------------------------------------------------------
(* UsersService: the saves of a user row *)

ReadProfile(w) ==
  /\ At(w, "readProfile")
  /\ LET row == profile[User(w)] IN
       IF Op(w) # "updateProfile" /\ row[Purpose(w)].pending = NoAddress
       THEN End(w) ELSE Carry(w, "saveProfile", row)
  /\ UNCHANGED <<rows, history>>

\* confirmPendingEmail, confirmPendingPhone.
Confirmed(row, p) ==
  [row EXCEPT ![p] = [live |-> row[p].pending, pending |-> NoAddress, verified |-> TRUE]]

\* The unique columns of users.
Taken(u, row) == \E v \in Users \ {u}, p \in Purposes : profile[v][p].live.to = row[p].live.to

\* updateProfile changes names only here, but saves the entity it read.
SaveProfile(w) ==
  /\ Saving(w, "saveProfile")
  /\ LET entity == IF Op(w) = "updateProfile" THEN job[w].row
                   ELSE Confirmed(job[w].row, Purpose(w))
         row == [p \in Purposes |-> Merge(entity[p], job[w].base[p], profile[User(w)][p])]
     IN IF Taken(User(w), row)
        THEN End(w) /\ UNCHANGED profile
        ELSE /\ profile' = [profile EXCEPT ![User(w)] = row]
             /\ IF Op(w) = "updateProfile" THEN End(w) ELSE EndOrRevokeSessions(w)
  /\ UNCHANGED <<banks, credential, totp, challenges, devices, sessions, codes, minted, history>>

-----------------------------------------------------------------------------
Tick ==
  /\ now < MaxTime
  /\ now' = now + 1
  /\ UNCHANGED <<rows, job, calls, offered, history>>

\* Every user has registered and logged in once, which took one challenge, and
\* the email code of the registration is unused.  A second challenge of each is
\* pending; the PINs are set or not, and one user's TOTP enrollment may be pending.
Init ==
  /\ now = 0 /\ calls = 0 /\ offered \in OpSets
  /\ \E set \in BOOLEAN :
       credential = [u \in Users |-> [password |-> Registered, pin |-> IF set THEN u ELSE 0,
                      failed |-> 0, lockedUntil |-> 0, failedPins |-> 0, pinLockedUntil |-> 0]]
  /\ \E u \in Users, method \in {[status |-> "none", secret |-> 0],
                                  [status |-> "pending", secret |-> 1]} :
       totp = [v \in Users |-> IF v = u THEN method ELSE [status |-> "none", secret |-> 0]]
  /\ LET challenge(u, status) == [user |-> u, method |-> "email", status |-> status,
                                  attempts |-> 0, expiresAt |-> Lifetime]
     IN challenges = [i \in 1..(2 * NumUsers) |->
          IF i <= NumUsers THEN challenge(i, "verified") ELSE challenge(i - NumUsers, "pending")]
  /\ passed = Users
  /\ devices = [u \in Users |-> [user |-> u, challenge |-> u]]
  /\ sessions = [u \in Users |-> [user |-> u, device |-> u, current |-> u + 1,
                                  previous |-> 0, status |-> "active"]]
  /\ codes \in [Users -> [user : Users, purpose : {"email"}, value : CodeValues,
                          expiresAt : {Lifetime}, createdAt : {0}, used : {FALSE}]]
  /\ \A u \in Users : codes[u].user = u
  /\ minted = NumUsers + 1
  /\ profile = [u \in Users |-> [p \in Purposes |->
                  [live |-> [to |-> u, by |-> 0], pending |-> NoAddress, verified |-> FALSE]]]
  /\ job = [w \in Workers |-> Idle]
  /\ banks = {} /\ confirmed = {} /\ replaced = {}

Next ==
  \/ \E w \in Workers :
       \/ Begin(w) \/ Reload(w)
       \/ ReadLogin(w) \/ SaveLogin(w) \/ FindDevice(w) \/ CreateSession(w)
       \/ CreateChallenge(w) \/ ReadChallenge(w) \/ SaveChallenge(w) \/ IssueDevice(w)
       \/ ReadSession(w) \/ Rotate(w) \/ Revoke(w) \/ RevokeSessions(w)
       \/ ReadPassword(w) \/ ChangePassword(w)
       \/ ReadMethod(w) \/ SaveMethod(w) \/ ReadTotp(w) \/ SaveTotp(w)
       \/ ReadCredential(w) \/ SavePin(w) \/ ReadPin(w) \/ CheckPin(w)
       \/ SaveBankAccount(w)
       \/ CheckSends(w) \/ SetPending(w) \/ IssueCode(w) \/ ReadCode(w) \/ SaveCode(w)
       \/ MarkVerified(w) \/ ResetPassword(w) \/ ReadProfile(w) \/ SaveProfile(w)
  \/ Tick

Spec == Init /\ [][Next]_vars

-----------------------------------------------------------------------------
(* Properties *)

\* Every session is on a trusted device of its own user, and that device was
\* earned by an answered challenge of that user, whatever device token a login
\* presents and however verifications of one challenge overlap.
SessionsEarned ==
  \A s \in DOMAIN sessions :
    LET d == sessions[s].device
    IN /\ d \in DOMAIN devices
       /\ devices[d].user = sessions[s].user
       /\ devices[d].challenge \in passed
       /\ challenges[devices[d].challenge].user = sessions[s].user

Own(u, c) == c \in passed /\ challenges[c].user = u
UsedCode(u, k, p) == codes[k].used /\ codes[k].user = u /\ codes[k].purpose = p

\* A password, PIN, email or phone that is not the registered one, and every
\* saved bank account, was put there by a request that answered a challenge of
\* the same user, or consumed a code of the same user, however requests overlap
\* and write back columns they read.  For an address that is any code of the
\* purpose, also one that was sent to the address it replaces.
ChangesProven ==
  \A u \in Users :
    /\ LET how == credential[u].password IN
         CASE how[1] = "registered" -> TRUE
           [] how[1] = "challenge" -> Own(u, how[2])
           [] how[1] = "code" -> UsedCode(u, how[2], "password")
    /\ credential[u].pin # 0 => Own(u, credential[u].pin)
    /\ \A account \in banks : account.user = u => Own(u, account.by)
    /\ \A p \in Purposes :
         profile[u][p].live.to # u =>
           Own(u, profile[u][p].live.by) /\ \E k \in DOMAIN codes : UsedCode(u, k, p)

\* The saves that end here and that another write of the same row has overtaken
\* since they read it again.
Overtaken(steps) ==
  {w \in Workers : job[w].pc \in steps /\ job'[w] = Idle /\ job[w].base \notin {Idle, Stored(w)}}

Revived == {s \in DOMAIN sessions : sessions[s].status = "active" /\ sessions[s].current \in replaced}

\* A refresh token that a rotation has replaced is dead: presenting it is a
\* replay, which revokes the session.  It becomes the current token of an active
\* session again, and refresh would rotate it, only by a save that another write
\* overtook between its reading and its update, never because a request acted
\* on a session it had read long before.
RevivedOnlyWhenOvertaken ==
  [][Revived' \subseteq Revived \cup {job[w].id : w \in Overtaken(SessionSaves)}]_vars

Unproven == {u \in Users : totp[u].status = "active" /\ totp[u].secret \notin confirmed}

\* An active TOTP method is a confirmed one: it holds a secret that a code was
\* checked against, though an enrollment may replace the secret while it is being
\* confirmed.  The exception is again a save, of the confirmation or of the
\* enrollment, that the other overtook between its reading and its update.
UnprovenOnlyWhenOvertaken ==
  [][Unproven' \subseteq Unproven \cup {User(w) : w \in Overtaken(TotpSaves)}]_vars

=============================================================================
