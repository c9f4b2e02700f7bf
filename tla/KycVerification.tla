-------------------------- MODULE KycVerification ---------------------------
(***************************************************************************)
(* KycService's verification of a BVN or NIN, with or without a selfie:    *)
(* the attempt reserved before the provider is called, the identity        *)
(* persisted after it, the liveness job and the three ways it is settled   *)
(* (the submission's own answer, webhook, poll), its expiry and the        *)
(* retention job.  One action is one transaction under the user's advisory *)
(* lock, or one provider call.  The KYC provider is external.              *)
(*                                                                         *)
(* Calls are numbered; a call, its attempt row and its liveness job share  *)
(* the number.  UsersService also writes users.kyc_tier, in the calls that *)
(* read the user's whole row and save it: ReadUser and SaveUser.           *)
(***************************************************************************)
EXTENDS Integers, Sequences, FiniteSets

CONSTANTS
  Users,
  Editors,          \* users who edit their profile
  Numbers,          \* identification numbers, of both kinds
  TypeOf,           \* TypeOf[n]: "bvn" or "nin"
  Registry,         \* Registry[n]: the [name, dob] the provider finds, or NotFound
  NotFound, Unknown,
  Initials,         \* one-letter name tokens
  InitialOf,        \* InitialOf[t]: the first letter of token t
  MaxCalls,         \* bound on calls that pass reserveAttempt
  EarlierMisses,    \* EarlierMisses[type]: failed attempts a user already has in the window
  MaxFailedAttempts,   \* MAX_FAILED_ATTEMPTS_PER_WINDOW (5)
  MaxPollFailures,     \* LIVENESS_MAX_POLL_FAILURES (5)
  MaxCrashes

Calls == 1..MaxCalls
None == "none"

ASSUME KycAssumption ==
  /\ MaxCalls \in Nat /\ MaxFailedAttempts \in Nat \ {0}
  /\ MaxPollFailures \in Nat /\ MaxCrashes \in Nat
  /\ TypeOf \in [Numbers -> {"bvn", "nin"}]
  /\ None \notin Numbers
  /\ Editors \subseteq Users
  /\ EarlierMisses \in [{"bvn", "nin"} -> 0..MaxFailedAttempts]

VARIABLES
  record,     \* kyc_verifications: bvn, nin (the hash stands for the number),
              \* legalName and liveness, by user
  tier,       \* users.kyc_tier
  read,       \* what unfinished profile calls read of kyc_tier, by user
  call,       \* the request of each call
  pc,
  attempt,    \* kyc_verification_attempts.succeeded, or "none"
  recent,     \* the attempt is inside ATTEMPT_WINDOW_MS
  missed,     \* the provider did not find the number of the call
  job,        \* kyc_liveness_jobs.status of the call's job, or "none"
  tracked,    \* its provider_job_id is recorded
  failures,   \* its poll_failures
  old,        \* it is older than LIVENESS_JOB_TTL_MS
  verdict,    \* what the provider made of the selfie
  crashes

tables == <<record, tier, attempt, job>>
flags == <<read, recent, missed, tracked, failures, old>>
kycVars == <<record, tier, read, call, pc, attempt, recent, missed, job, tracked, failures, old,
          verdict, crashes>>

-----------------------------------------------------------------------------
(* identity-match.ts *)

Tokens(name) == {name[i] : i \in DOMAIN name}

\* An initial stands for any token that starts with it.
HasToken(name, token) ==
  IF token \in Initials THEN \E t \in Tokens(name) : InitialOf[t] = token
                        ELSE token \in Tokens(name)

Covers(shorter, longer) ==
  /\ \A t \in Tokens(shorter) : HasToken(longer, t)
  /\ \/ Len(shorter) = 1
     \/ Cardinality({i \in DOMAIN shorter : shorter[i] \notin Initials}) >= 2

NamesMatch(a, b) ==
  /\ a # <<>> /\ b # <<>>
  /\ \/ Len(a) <= Len(b) /\ Covers(a, b)
     \/ Len(b) <= Len(a) /\ Covers(b, a)

\* A missing name fails closed; a missing date of birth leaves it to the names.
IdentitiesMatch(a, b) ==
  /\ NamesMatch(a.name, b.name)
  /\ a.dob # Unknown /\ b.dob # Unknown => a.dob = b.dob

-----------------------------------------------------------------------------
(* tier.ts *)

DeriveTier(rec) ==
  IF rec.bvn # None /\ rec.nin # None
  THEN IF rec.liveness THEN 3 ELSE 2
  ELSE IF rec.bvn # None \/ rec.nin # None THEN 1 ELSE 0

\* raiseTier: upwards only, in the transaction that saves the record.
RaiseTier(u, rec) ==
  tier' = [tier EXCEPT ![u] = IF DeriveTier(rec) > @ THEN DeriveTier(rec) ELSE @]

-----------------------------------------------------------------------------
(* reserveAttempt *)

Stored(u, type) == record[u][type]
Number(c) == call[c].number
User(c) == call[c].user
Type(c) == TypeOf[Number(c)]
At(c, step) == pc[c] = step
Goto(c, step) == pc' = [pc EXCEPT ![c] = step]

HasPendingJob(u) == \E c \in Calls : job[c] = "pending" /\ User(c) = u

\* Mutant: an attempt counts once its provider call has failed.
FailedBefore(u, type) ==
  EarlierMisses[type] +
  Cardinality({c \in Calls : /\ attempt[c] = "failed" /\ recent[c] /\ missed[c]
                             /\ User(c) = u /\ Type(c) = type})

FailedAttempts(u, type) ==
  EarlierMisses[type] +
  Cardinality({c \in Calls : /\ attempt[c] = "failed" /\ recent[c]
                             /\ User(c) = u /\ Type(c) = type})

\* A call that is refused, or finds everything verified, changes nothing.
Reserve(c, u, n, selfie) ==
  LET stored == Stored(u, TypeOf[n])
      submit == selfie /\ ~record[u].liveness
  IN
  /\ At(c, "new")
  /\ \A d \in Calls : d < c => ~At(d, "new")
  /\ stored \in {None, n}
  /\ stored = None \/ submit
  /\ submit => ~HasPendingJob(u)
  /\ FailedAttempts(u, TypeOf[n]) < MaxFailedAttempts
  /\ call' = [call EXCEPT ![c] = [user |-> u, number |-> n, submit |-> submit]]
  /\ attempt' = [attempt EXCEPT ![c] = "failed"]
  /\ Goto(c, IF stored = None THEN "lookup" ELSE "job")
  /\ UNCHANGED <<record, tier, job, verdict, crashes, flags>>

-----------------------------------------------------------------------------
(* verifyAndPersistIdentity *)

\* The provider throws (the attempt is deleted), does not find the number (the
\* attempt stays), or answers with an identity.
Lookup(c, answered) ==
  /\ At(c, "lookup")
  /\ attempt' = [attempt EXCEPT ![c] = IF answered THEN @ ELSE None]
  /\ missed' = [missed EXCEPT ![c] = answered /\ Registry[Number(c)] = NotFound]
  /\ Goto(c, IF answered /\ Registry[Number(c)] # NotFound THEN "persist" ELSE "done")
  /\ UNCHANGED <<record, tier, read, call, job, recent, tracked, failures, old, verdict, crashes>>

OtherType(type) == IF type = "bvn" THEN "nin" ELSE "bvn"

\* Mutants: the record is not read again under the lock; the identifiers are
\* not compared with each other.
AnyIdentity(c) ==
  LET other == Stored(User(c), OtherType(Type(c))) IN
  other # None => IdentitiesMatch(Registry[other], Registry[Number(c)])

AnyPerson(c) == Stored(User(c), Type(c)) \in {None, Number(c)}

\* The record is read again under the lock: another call may have verified an
\* identifier while this one was at the provider.
Acceptable(c) ==
  LET other == Stored(User(c), OtherType(Type(c))) IN
  /\ Stored(User(c), Type(c)) \in {None, Number(c)}
  /\ other # None => IdentitiesMatch(Registry[other], Registry[Number(c)])

\* UQ_kyc_verifications_bvn_hash_partial and its NIN twin.
Linked(c) == \E v \in Users \ {User(c)} : Stored(v, Type(c)) = Number(c)

Persist(c) ==
  LET u == User(c)
      name == Registry[Number(c)].name
      rec == [record[u] EXCEPT
                ![Type(c)] = Number(c),
                !.legalName = IF name # <<>> /\ (Type(c) = "bvn" \/ record[u].bvn = None)
                              THEN name ELSE @]
      saved == Acceptable(c) /\ ~Linked(c)
  IN
  /\ At(c, "persist")
  /\ IF saved
     THEN /\ record' = [record EXCEPT ![u] = rec]
          /\ attempt' = [attempt EXCEPT ![c] = IF call[c].submit THEN @ ELSE "succeeded"]
          /\ RaiseTier(u, rec)
     ELSE UNCHANGED <<record, attempt, tier>>
  /\ Goto(c, IF saved /\ call[c].submit THEN "job" ELSE "done")
  /\ UNCHANGED <<call, job, verdict, crashes, flags>>

-----------------------------------------------------------------------------
(* runLiveness and applyLivenessOutcome *)

\* UQ_kyc_liveness_jobs_user_pending: one pending job per user.
CreateJob(c) ==
  /\ At(c, "job")
  /\ IF HasPendingJob(User(c))
     THEN Goto(c, "done") /\ UNCHANGED job
     ELSE Goto(c, "submit") /\ job' = [job EXCEPT ![c] = "pending"]
  /\ UNCHANGED <<record, tier, call, attempt, verdict, crashes, flags>>

\* submitLiveness: throws, answers at once, or hands out a job id.  A throw
\* deletes the attempt and, by its foreign key, the job.
Submit(c, outcome) ==
  /\ At(c, "submit")
  /\ IF outcome = "throws"
     THEN /\ attempt' = [attempt EXCEPT ![c] = None]
          /\ job' = [job EXCEPT ![c] = None]
          /\ Goto(c, "done")
          /\ UNCHANGED verdict
     ELSE /\ verdict' = [verdict EXCEPT ![c] = outcome]
          /\ Goto(c, IF outcome = "pending" THEN "track" ELSE "apply")
          /\ UNCHANGED <<attempt, job>>
  /\ UNCHANGED <<record, tier, call, crashes, flags>>

TrackJob(c) ==
  /\ At(c, "track")
  /\ tracked' = [tracked EXCEPT ![c] = job[c] # None]
  /\ Goto(c, "done")
  /\ UNCHANGED <<tables, read, call, recent, missed, failures, old, verdict, crashes>>

StillPending(c) == job[c] = "pending"

\* Mutant: liveness is recorded and the tier left for the next verification.
ApplyWithoutTier(c, outcome) ==
  IF ~StillPending(c) THEN UNCHANGED tables
  ELSE /\ job' = [job EXCEPT ![c] = outcome]
       /\ record' = [record EXCEPT ![User(c)].liveness = @ \/ outcome = "passed"]
       /\ UNCHANGED <<tier, attempt>>

\* The job's status is read again under the lock.
ApplyLivenessOutcome(c, outcome) ==
  LET rec == [record[User(c)] EXCEPT !.liveness = TRUE] IN
  IF ~StillPending(c) THEN UNCHANGED tables
  ELSE /\ job' = [job EXCEPT ![c] = outcome]
       /\ IF outcome = "passed"
          THEN /\ record' = [record EXCEPT ![User(c)] = rec]
               /\ attempt' = [attempt EXCEPT ![c] = IF @ = None THEN @ ELSE "succeeded"]
               /\ RaiseTier(User(c), rec)
          ELSE UNCHANGED <<record, attempt, tier>>

ApplyOwn(c) ==
  /\ At(c, "apply")
  /\ ApplyLivenessOutcome(c, verdict[c])
  /\ Goto(c, "done")
  /\ UNCHANGED <<call, verdict, crashes, flags>>

\* pollLivenessJob: the provider throws, is not done, or has decided.
PollLivenessJob(c, answered) ==
  /\ IF answered /\ verdict[c] # "pending"
     THEN ApplyLivenessOutcome(c, verdict[c])
     ELSE UNCHANGED tables
  /\ failures' = [failures EXCEPT ![c] =
                    IF ~answered THEN IF @ < MaxPollFailures THEN @ + 1 ELSE @
                    ELSE IF verdict[c] = "pending" THEN 0 ELSE @]

HandleLivenessWebhook(c, answered) ==
  /\ StillPending(c) /\ tracked[c]
  /\ PollLivenessJob(c, answered)
  /\ UNCHANGED <<read, call, pc, recent, missed, tracked, old, verdict, crashes>>

PollPending(c, answered) ==
  /\ StillPending(c) /\ tracked[c] /\ ~old[c]
  /\ failures[c] < MaxPollFailures
  /\ PollLivenessJob(c, answered)
  /\ UNCHANGED <<read, call, pc, recent, missed, tracked, old, verdict, crashes>>

\* expireLivenessJob: one last look, if there is anything to look at.
LastLook(c) ==
  /\ StillPending(c) /\ tracked[c] /\ old[c]
  /\ verdict[c] # "pending"
  /\ PollLivenessJob(c, TRUE)
  /\ UNCHANGED <<read, call, pc, recent, missed, tracked, old, verdict, crashes>>

\* Mutant: only a job the provider knows expires.
ExpireTracked(c) ==
  /\ StillPending(c) /\ old[c] /\ tracked[c]
  /\ job' = [job EXCEPT ![c] = "failed"]
  /\ UNCHANGED <<record, tier, call, pc, attempt, verdict, crashes, flags>>

\* The guarded UPDATE that follows a last look without an answer.
Expire(c) ==
  /\ StillPending(c) /\ old[c]
  /\ job' = [job EXCEPT ![c] = "failed"]
  /\ UNCHANGED <<record, tier, call, pc, attempt, verdict, crashes, flags>>

-----------------------------------------------------------------------------
(* The provider, time, retention and crashes *)

ProviderDecides(c, outcome) ==
  /\ verdict[c] = "pending"
  /\ verdict' = [verdict EXCEPT ![c] = outcome]
  /\ UNCHANGED <<tables, call, pc, crashes, flags>>

JobGrowsOld(c) ==
  /\ StillPending(c) /\ ~old[c]
  /\ old' = [old EXCEPT ![c] = TRUE]
  /\ UNCHANGED <<tables, read, call, pc, recent, missed, tracked, failures, verdict, crashes>>

LeaveWindow(c) ==
  /\ attempt[c] # None /\ recent[c]
  /\ At(c, "done")
  /\ recent' = [recent EXCEPT ![c] = FALSE]
  /\ UNCHANGED <<tables, read, call, pc, missed, tracked, failures, old, verdict, crashes>>

\* pruneBookkeeping: settled jobs, then attempts that no pending job needs.
Prune(c) ==
  /\ attempt[c] # None /\ ~recent[c] /\ job[c] # "pending"
  /\ attempt' = [attempt EXCEPT ![c] = None]
  /\ job' = [job EXCEPT ![c] = None]
  /\ UNCHANGED <<record, tier, call, pc, verdict, crashes, flags>>

Crash(c) ==
  /\ pc[c] \notin {"new", "done"}
  /\ crashes < MaxCrashes
  /\ crashes' = crashes + 1
  /\ Goto(c, "done")
  /\ UNCHANGED <<tables, call, verdict, flags>>

-----------------------------------------------------------------------------
(* The other writer of users.kyc_tier *)

\* updateNames, changeUsername, updateProfile, confirmPendingEmail and
\* confirmPendingPhone read the user's row.  Any number of them may be under
\* way: what counts is which tiers they carry.
ReadUser(u) ==
  /\ read' = [read EXCEPT ![u] = @ \cup {tier[u]}]
  /\ UNCHANGED <<tables, call, pc, recent, missed, tracked, failures, old, verdict, crashes>>

\* Their repo.save reads the row again and updates the columns that differ: the
\* tier that was read is written back if a verification has raised it since.
SaveUser(u, value) ==
  /\ value \in read[u]
  /\ tier' = [tier EXCEPT ![u] = value]
  /\ UNCHANGED <<record, attempt, job, call, pc, verdict, crashes, flags>>

-----------------------------------------------------------------------------
NoCall == [user |-> None, number |-> None, submit |-> FALSE]

KycInit ==
  /\ record = [u \in Users |-> [bvn |-> None, nin |-> None, legalName |-> <<>>,
                                liveness |-> FALSE]]
  /\ tier = [u \in Users |-> 0]
  /\ read = [u \in Users |-> {}]
  /\ call = [c \in Calls |-> NoCall]
  /\ pc = [c \in Calls |-> "new"]
  /\ attempt = [c \in Calls |-> None]
  /\ job = [c \in Calls |-> None]
  /\ verdict = [c \in Calls |-> None]
  /\ recent = [c \in Calls |-> TRUE]
  /\ missed = [c \in Calls |-> FALSE]
  /\ tracked = [c \in Calls |-> FALSE]
  /\ failures = [c \in Calls |-> 0]
  /\ old = [c \in Calls |-> FALSE]
  /\ crashes = 0

Continue(c) ==
  \/ \E answered \in BOOLEAN : Lookup(c, answered)
  \/ Persist(c)
  \/ CreateJob(c)
  \/ \E outcome \in {"throws", "pending", "passed", "failed"} : Submit(c, outcome)
  \/ TrackJob(c)
  \/ ApplyOwn(c)

Settle(c) ==
  \/ \E answered \in BOOLEAN :
       \/ HandleLivenessWebhook(c, answered)
       \/ PollPending(c, answered)
  \/ LastLook(c)
  \/ Expire(c)

KycNext ==
  \/ \E c \in Calls :
       \/ \E u \in Users, n \in Numbers, selfie \in BOOLEAN : Reserve(c, u, n, selfie)
       \/ Continue(c)
       \/ Settle(c)
       \/ \E outcome \in {"passed", "failed"} : ProviderDecides(c, outcome)
       \/ JobGrowsOld(c)
       \/ LeaveWindow(c)
       \/ Prune(c)
       \/ Crash(c)
  \/ \E u \in Editors : ReadUser(u) \/ \E value \in read[u] : SaveUser(u, value)

\* Time passes, and the poll runs every 15 seconds and takes the oldest jobs
\* first; nothing is assumed of the provider, the webhook or the calls.
Fairness ==
  \A c \in Calls : WF_kycVars(JobGrowsOld(c)) /\ WF_kycVars(Expire(c))

KycSpec == KycInit /\ [][KycNext]_kycVars /\ Fairness

-----------------------------------------------------------------------------
(* Properties *)

\* A verified identifier is never replaced by another, though two calls with
\* different numbers may both pass the reservation and the provider.
IdentityNeverReplaced ==
  [][\A u \in Users, type \in {"bvn", "nin"} :
       record[u][type] # None => record'[u][type] = record[u][type]]_kycVars

\* A user's BVN and NIN belong to the same person, whichever is verified
\* second and however the two calls overlap; no two users share a number; and
\* the legal name is the BVN's as soon as there is one.
RecordsAgree ==
  \A u \in Users :
    LET rec == record[u] IN
    /\ rec.bvn # None /\ rec.nin # None => IdentitiesMatch(Registry[rec.bvn], Registry[rec.nin])
    /\ rec.bvn # None /\ Registry[rec.bvn].name # <<>> => rec.legalName = Registry[rec.bvn].name
    /\ \A v \in Users \ {u} : rec.bvn # None => record[v].bvn # rec.bvn
    /\ \A v \in Users \ {u} : rec.nin # None => record[v].nin # rec.nin

\* At most MAX_FAILED_ATTEMPTS_PER_WINDOW numbers of one kind come back unknown
\* to a user inside the window, however many calls run at once.
MissesBounded ==
  \A u \in Users, type \in {"bvn", "nin"} :
    EarlierMisses[type]
      + Cardinality({c \in Calls : missed[c] /\ recent[c] /\ User(c) = u /\ Type(c) = type})
      <= MaxFailedAttempts

\* The tier is what the record proves, whatever calls overlap, unless a profile
\* call wrote back the one it had read, which is never above what is proven; and
\* liveness counts only once the provider passed a selfie of this user.
TierEarned ==
  \A u \in Users :
    /\ tier[u] <= DeriveTier(record[u])
    /\ tier[u] \in read[u] \cup {DeriveTier(record[u])}
    /\ record[u].liveness => \E c \in Calls : User(c) = u /\ verdict[c] = "passed"

\* A pending liveness job ends, so that no user is told "in progress" for
\* ever: crashed submissions, lost webhooks and provider outages included.
PendingJobEnds == \A c \in Calls : job[c] = "pending" ~> job[c] # "pending"
=============================================================================
