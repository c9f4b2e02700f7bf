---------------------------- MODULE SocialProofs ----------------------------
(***************************************************************************)
(* The safety properties of Social and Notifications, for every number of  *)
(* users, posts, workers and events, and every set of valid requests.  A   *)
(* request that has passed its check holds the locks of its pairs until it *)
(* commits, and a block takes the lock of its pair: what the check found   *)
(* is still so at the write.  For the news, every copy of an event that    *)
(* may still be sent on a channel is counted.                              *)
(***************************************************************************)
EXTENDS Social, SequenceTheorems, FiniteSetTheorems, TLAPS

-----------------------------------------------------------------------------
(* The inductive invariant *)

Keys == Seq(Nat)
Elements(s) == {s[i] : i \in DOMAIN s}
Comment == [post : Posts, author : Users, id : Nat, deleted : BOOLEAN]

AllRequests == UNION {s.requests : s \in Scenarios}
LockingRequests ==
  {r \in AllRequests : r.op \in {"follow", "block", "transfer", "react", "comment"}}
LockingJob == [pc : {"lock", "write", "publish"}, held : SUBSET Keys,
               request : LockingRequests, wants : Seq(Keys)]

\* A worker is idle, has a request that locks, or is about to save a post.
JobTyped(j) ==
  \/ j = Idle
  \/ /\ j \in LockingJob
     /\ j.pc # "lock" => j.wants = <<>>
     /\ j.pc = "publish" => j.held = {} /\ j.request.op # "block"
  \/ j.pc \in {"reloadPost", "savePost"} /\ j.held = {}

\* The pairs whose locks a request must hold to be sure of what it read.
Needs(r) ==
  IF r.op \in {"react", "comment"}
  THEN {PairKey(r.user, v) : v \in Participants(r.post) \ {r.user}}
  ELSE {PairKey(r.user, r.other)}

JobLocks(j) ==
  j.pc \in {"lock", "write"} => Needs(j.request) \subseteq j.held \cup Elements(j.wants)

\* What the check found.
Unblocked(r) ==
  /\ r.op = "follow" => ~IsBlockedBetween(r.user, r.other)
  /\ r.op \in {"react", "comment"} => NoBlockWithViewer(r.user, r.post)

JobKnows(j) == j.pc = "write" => Unblocked(j.request)

LocksApart == \A w, v \in Workers : w # v => job[w].held \cap job[v].held = {}

JobsTrue ==
  /\ job = [w \in Workers |-> job[w]]
  /\ \A w \in Workers : JobTyped(job[w]) /\ JobLocks(job[w]) /\ JobKnows(job[w])
  /\ LocksApart

NoSelfBlock == \A u \in Users : <<u, u>> \notin blocks

\* The channel-dispatch jobs that may still send event e on channel c, and the
\* run of NotificationEventsProcessor that may still add one.
Copies(e, c) == {j \in jobs : j.event = e /\ j.channel = c}
Queued(e) == IF e \in queue THEN 1 ELSE 0

CopiesBounded ==
  \A e \in DOMAIN published, c \in Channels :
    sent[e][c] + Cardinality(Copies(e, c)) + Queued(e) <= 1 + hits[e][c]

NewsTrue ==
  /\ NotificationsTypeOK
  /\ IsFiniteSet(jobs)
  /\ Len(sent) = Len(published) /\ Len(hits) = Len(published)
  /\ \A j \in jobs : j.event \in DOMAIN published
  /\ CopiesBounded

Inv ==
  /\ SocialTypeOK
  /\ comments \subseteq Comment
  /\ requests \subseteq AllRequests
  /\ JobsTrue
  /\ NoSelfBlock
  /\ BlockEndsTies
  /\ NewsTrue

-----------------------------------------------------------------------------
(* Keys and parties *)

\* Both orders of a pair name one lock.
LEMMA PairKeySymmetric ==
  ASSUME NEW a \in Users, NEW b \in Users
  PROVE  PairKey(a, b) = PairKey(b, a) /\ PairKey(a, b) \in Keys /\ FollowsKey(a) \in Keys
<1>1. a \in Nat /\ b \in Nat
  BY NotificationsAssumption
<1>2. <<a, b>> \in Seq(Nat) /\ <<b, a>> \in Seq(Nat) /\ <<a>> \in Seq(Nat)
  BY <1>1
<1> QED
  BY <1>1, <1>2 DEF PairKey, FollowsKey, Keys

LEMMA RequestsValid == \A r \in AllRequests : ValidRequest(r)
BY SocialAssumption DEF AllRequests

LEMMA PostParties ==
  ASSUME NEW p \in Posts
  PROVE  p \in Nat /\ Parties[p].sender \in Users /\ Parties[p].recipient \in Users
<1>1. Parties \in Seq([sender : Users, recipient : Users]) /\ p \in DOMAIN Parties
  BY SocialAssumption DEF Posts
<1>2. Len(Parties) \in Nat /\ DOMAIN Parties = 1..Len(Parties)
  BY <1>1, LenProperties
<1>3. Parties[p] \in [sender : Users, recipient : Users]
  BY <1>1, <1>2, ElementOfSeq
<1> QED
  BY <1>1, <1>2, <1>3

\* A finite set of one's own in ascending order.
LEMMA SortedSeq ==
  ASSUME NEW S, IsFiniteSet(S),
         \E s \in SetToSeqs(S) : \A i, j \in DOMAIN s : i < j => s[i] < s[j]
  PROVE  LET s == CHOOSE s \in SetToSeqs(S) : \A i, j \in DOMAIN s : i < j => s[i] < s[j]
         IN  s \in Seq(S) /\ Elements(s) = S
<1> DEFINE s == CHOOSE q \in SetToSeqs(S) : \A i, j \in DOMAIN q : i < j => q[i] < q[j]
           n == Cardinality(S)
<1>1. s \in SetToSeqs(S)
  OBVIOUS
<1>2. n \in Nat
  BY FS_CardinalityType
<1> HIDE DEF s
<1>3. s \in [1..n -> S] /\ \A i, j \in 1..n : i # j => s[i] # s[j]
  BY <1>1 DEF SetToSeqs
<1> HIDE DEF n
<1>4. s \in Injection(1..n, S)
  BY <1>3 DEF Injection, IsInjective
<1>5. Cardinality(1..n) = n
  BY <1>2, FS_Interval
<1>6. s \in Surjection(1..n, S)
  BY <1>4, <1>5, FS_Injection DEF n
<1>7. Elements(s) = S
  BY <1>3, <1>6 DEF Surjection, Elements
<1>8. s \in Seq(S)
  BY <1>2, <1>3
<1> QED
  BY <1>7, <1>8 DEF s

\* lockPostForInteraction locks the pair with each participant but the caller.
LEMMA OthersSorted ==
  ASSUME NEW u \in Users, NEW p \in Posts
  PROVE  Others(u, p) \in Seq(Users) /\ Elements(Others(u, p)) = Participants(p) \ {u}
<1> DEFINE S == Participants(p) \ {u}
<1>1. S \subseteq Users /\ S \subseteq Nat
  BY PostParties, NotificationsAssumption DEF Participants
<1>2. \/ S = {} \/ \E a \in Nat : S = {a}
      \/ \E a, b \in Nat : a < b /\ S = {a, b}
  <2>1. PICK a, b \in Nat : Participants(p) = {a, b}
    BY PostParties, NotificationsAssumption DEF Participants
  <2>2. a = b \/ a < b \/ b < a
    OBVIOUS
  <2> QED
    BY <2>1, <2>2
<1>3. /\ IsFiniteSet(S)
      /\ \E s \in SetToSeqs(S) : \A i, j \in DOMAIN s : i < j => s[i] < s[j]
  <2>1. CASE S = {}
    <3>1. IsFiniteSet(S) /\ Cardinality(S) = 0
      BY <2>1, FS_EmptySet
    <3> DEFINE s == [i \in 1..0 |-> i]
    <3>2. \A i \in 1..0 : FALSE
      OBVIOUS
    <3> HIDE DEF S
    <3>3. s \in [1..0 -> S]
      BY <3>2
    <3>4. s \in SetToSeqs(S)
      BY <3>1, <3>2, <3>3 DEF SetToSeqs
    <3> QED
      BY <3>1, <3>2, <3>4
  <2>2. ASSUME NEW a \in Nat, S = {a}
        PROVE  /\ IsFiniteSet(S)
               /\ \E s \in SetToSeqs(S) : \A i, j \in DOMAIN s : i < j => s[i] < s[j]
    <3>1. IsFiniteSet(S) /\ Cardinality(S) = 1
      BY <2>2, FS_Singleton
    <3> DEFINE s == [i \in 1..1 |-> a]
    <3>2. s \in SetToSeqs(S)
      BY <2>2, <3>1 DEF SetToSeqs
    <3> QED
      BY <3>1, <3>2
  <2>3. ASSUME NEW a \in Nat, NEW b \in Nat, a < b, S = {a, b}
        PROVE  /\ IsFiniteSet(S)
               /\ \E s \in SetToSeqs(S) : \A i, j \in DOMAIN s : i < j => s[i] < s[j]
    <3> HIDE DEF S
    <3> DEFINE A == {a}
    <3>5. IsFiniteSet(A) /\ Cardinality(A) = 1
      BY FS_Singleton
    <3>6. b \notin A /\ S = A \cup {b}
      BY <2>3
    <3> HIDE DEF A
    <3>7. IsFiniteSet(A \cup {b}) /\ Cardinality(A \cup {b}) = Cardinality(A) + 1
      BY <3>5, <3>6, FS_AddElement
    <3>1. IsFiniteSet(S) /\ Cardinality(S) = 2
      BY <3>5, <3>6, <3>7
    <3> DEFINE s == [i \in 1..2 |-> IF i = 1 THEN a ELSE b]
    <3>2. s \in SetToSeqs(S)
      BY <2>3, <3>1 DEF SetToSeqs
    <3>3. \A i, j \in DOMAIN s : i < j => s[i] < s[j]
      BY <2>3
    <3> QED
      BY <3>1, <3>2, <3>3
  <2> QED
    BY <1>2, <2>1, <2>2, <2>3
<1> HIDE DEF S
<1>4. Others(u, p) \in Seq(S) /\ Elements(Others(u, p)) = S
  BY <1>3, SortedSeq DEF Others, S
<1>5. Others(u, p) \in Seq(Users)
  <2> DEFINE s == Others(u, p)
  <2> HIDE DEF s
  <2>1. Len(s) \in Nat /\ s \in [1..Len(s) -> S]
    BY <1>4, LenProperties DEF s
  <2>2. s \in [1..Len(s) -> Users]
    BY <1>1, <2>1 DEF S
  <2> QED
    BY <2>1, <2>2 DEF s
<1> QED
  BY <1>4, <1>5 DEF S

\* The locks a request is about to take are keys, and those it needs.
LEMMA WantsWhatItNeeds ==
  ASSUME NEW r, ValidRequest(r)
  PROVE  /\ r.op \in {"react", "comment"} =>
              /\ InteractionLocks(r.user, r.post) \in Seq(Keys)
              /\ Elements(InteractionLocks(r.user, r.post)) = Needs(r)
         /\ r.op = "follow" =>
              /\ FollowLocks(r.user, r.other) \in Seq(Keys)
              /\ Needs(r) \subseteq Elements(FollowLocks(r.user, r.other))
         /\ r.op \in {"block", "transfer"} =>
              /\ <<PairKey(r.user, r.other)>> \in Seq(Keys)
              /\ Needs(r) \subseteq Elements(<<PairKey(r.user, r.other)>>)
<1>1. ASSUME r.op \in {"react", "comment"}
      PROVE  /\ InteractionLocks(r.user, r.post) \in Seq(Keys)
             /\ Elements(InteractionLocks(r.user, r.post)) = Needs(r)
  <2> DEFINE s == Others(r.user, r.post)
  <2>1. r.user \in Users /\ r.post \in Posts
    BY <1>1 DEF ValidRequest
  <2>2. s \in Seq(Users) /\ Elements(s) = Participants(r.post) \ {r.user}
    BY <2>1, OthersSorted
  <2> HIDE DEF s
  <2>3. Len(s) \in Nat /\ DOMAIN s = 1..Len(s) /\ \A i \in DOMAIN s : s[i] \in Users
    BY <2>2, LenProperties, ElementOfSeq
  <2>4. InteractionLocks(r.user, r.post) = [i \in 1..Len(s) |-> PairKey(r.user, s[i])]
    BY <2>3 DEF InteractionLocks, s
  <2>5. \A i \in 1..Len(s) : PairKey(r.user, s[i]) \in Keys
    BY <2>1, <2>3, PairKeySymmetric
  <2> DEFINE t == [i \in 1..Len(s) |-> PairKey(r.user, s[i])]
  <2>6. t \in Seq(Keys)
    BY <2>3, <2>5
  <2>7. Elements(t) = {PairKey(r.user, v) : v \in Elements(s)}
    BY <2>3 DEF Elements
  <2> QED
    BY <1>1, <2>2, <2>4, <2>6, <2>7 DEF Needs
<1>2. ASSUME r.op \in {"follow", "block", "transfer"}
      PROVE  /\ PairKey(r.user, r.other) \in Keys /\ FollowsKey(r.user) \in Keys
             /\ Needs(r) = {PairKey(r.user, r.other)}
  BY <1>2, PairKeySymmetric DEF ValidRequest, Needs
<1> HIDE DEF Keys
<1>3. \A k \in Keys : <<k>> \in Seq(Keys) /\ Elements(<<k>>) = {k}
  BY DEF Elements
<1>4. \A k, l \in Keys : <<k, l>> \in Seq(Keys) /\ l \in Elements(<<k, l>>)
  <2> SUFFICES ASSUME NEW k \in Keys, NEW l \in Keys
               PROVE  <<k, l>> \in Seq(Keys) /\ l \in Elements(<<k, l>>)
    OBVIOUS
  <2>1. DOMAIN <<k, l>> = 1..2 /\ <<k, l>>[2] = l
    OBVIOUS
  <2> QED
    BY <2>1 DEF Elements
<1> QED
  BY <1>1, <1>2, <1>3, <1>4 DEF FollowLocks

-----------------------------------------------------------------------------
(* Requests under way *)

\* A step of one worker that adds no block leaves the others what they know.
LEMMA OneWorker ==
  ASSUME JobsTrue, NEW w \in Workers, job' = [job EXCEPT ![w] = job'[w]],
         blocks' \subseteq blocks,
         JobTyped(job[w])', JobLocks(job[w])', JobKnows(job[w])',
         \A v \in Workers \ {w} : job'[w].held \cap job[v].held = {}
  PROVE  JobsTrue'
<1>1. job' = [v \in Workers |-> job'[v]] /\ \A v \in Workers \ {w} : job'[v] = job[v]
  BY DEF JobsTrue
<1>2. ASSUME NEW v \in Workers
      PROVE  JobTyped(job[v])' /\ JobLocks(job[v])' /\ JobKnows(job[v])'
  <2>1. CASE v = w
    BY <2>1
  <2>2. CASE v # w
    <3>1. job'[v] = job[v] /\ JobTyped(job[v]) /\ JobLocks(job[v]) /\ JobKnows(job[v])
      BY <1>1, <2>2 DEF JobsTrue
    <3>2. JobTyped(job[v])'
      BY <3>1 DEF JobTyped, LockingJob, LockingRequests, AllRequests, Keys
    <3>3. JobLocks(job[v])'
      BY <3>1 DEF JobLocks, Needs, Participants
    <3>4. JobKnows(job[v])'
      BY <3>1 DEF JobKnows, Unblocked, NoBlockWithViewer, IsBlockedBetween
    <3> QED
      BY <3>2, <3>3, <3>4
  <2> QED
    BY <2>1, <2>2
<1>3. LocksApart'
  BY <1>1 DEF JobsTrue, LocksApart
<1> QED
  BY <1>1, <1>2, <1>3 DEF JobsTrue

LEMMA NoWorker ==
  ASSUME JobsTrue, UNCHANGED job, blocks' \subseteq blocks
  PROVE  JobsTrue'
<1>1. ASSUME NEW v \in Workers
      PROVE  JobTyped(job[v])' /\ JobLocks(job[v])' /\ JobKnows(job[v])'
  <2>1. JobTyped(job[v]) /\ JobLocks(job[v]) /\ JobKnows(job[v])
    BY DEF JobsTrue
  <2>2. JobTyped(job[v])'
    BY <2>1 DEF JobTyped, LockingJob, LockingRequests, AllRequests, Keys
  <2>3. JobLocks(job[v])'
    BY <2>1 DEF JobLocks, Needs, Participants
  <2>4. JobKnows(job[v])'
    BY <2>1 DEF JobKnows, Unblocked, NoBlockWithViewer, IsBlockedBetween
  <2> QED
    BY <2>2, <2>3, <2>4
<1>2. LocksApart'
  BY DEF JobsTrue, LocksApart
<1> QED
  BY <1>1, <1>2 DEF JobsTrue

\* A request that ends drops its locks and what it knew.
LEMMA EndStep ==
  ASSUME JobsTrue, NEW w \in Workers, End(w), blocks' \subseteq blocks
  PROVE  JobsTrue'
<1>1. job'[w] = Idle /\ job' = [job EXCEPT ![w] = job'[w]]
  BY DEF End, JobsTrue
<1>2. JobTyped(job[w])' /\ JobLocks(job[w])' /\ JobKnows(job[w])' /\ job'[w].held = {}
  BY <1>1 DEF JobTyped, JobLocks, JobKnows, Idle
<1> QED
  BY <1>1, <1>2, OneWorker

\* A worker with locks has a request that takes some.
LEMMA Locking ==
  ASSUME JobsTrue, NEW w \in Workers, job[w].pc \in {"lock", "write", "publish"}
  PROVE  /\ job[w] \in LockingJob
         /\ job[w].pc # "lock" => job[w].wants = <<>>
         /\ job[w].pc = "publish" => Asked(w).op # "block"
         /\ Asked(w) \in LockingRequests /\ ValidRequest(Asked(w))
         /\ JobLocks(job[w]) /\ JobKnows(job[w])
<1>1. JobTyped(job[w]) /\ JobLocks(job[w]) /\ JobKnows(job[w])
  BY DEF JobsTrue
<1>2. job[w] # Idle /\ job[w].pc \notin {"reloadPost", "savePost"}
  BY DEF Idle
<1> QED
  BY <1>1, <1>2, RequestsValid DEF JobTyped, Asked, LockingJob, LockingRequests

\* The commit releases the locks.
LEMMA CommitStep ==
  ASSUME JobsTrue, NEW w \in Workers, NEW news \in BOOLEAN, At(w, "write"),
         Commit(w, news), news => Asked(w).op # "block", blocks' \subseteq blocks
  PROVE  JobsTrue'
<1>1. CASE ~news
  BY <1>1, EndStep DEF Commit, End
<1>2. CASE news
  <2>1. job[w] \in LockingJob /\ job[w].wants = <<>> /\ Asked(w).op # "block"
    BY <1>2, Locking DEF At
  <2>2. job' = [job EXCEPT ![w] = [job[w] EXCEPT !.pc = "publish", !.held = {}]]
    BY <1>2 DEF Commit
  <2>3. /\ job'[w] = [job[w] EXCEPT !.pc = "publish", !.held = {}]
        /\ job' = [job EXCEPT ![w] = job'[w]]
    BY <2>2 DEF JobsTrue
  <2>4. /\ job'[w] \in LockingJob
        /\ job'[w].pc = "publish" /\ job'[w].held = {}
        /\ job'[w].request = Asked(w) /\ job'[w].wants = <<>>
    BY <2>1, <2>3 DEF LockingJob, Asked
  <2>5. JobTyped(job[w])'
    BY <2>1, <2>4 DEF JobTyped, LockingJob, LockingRequests, AllRequests, Keys
  <2>6. JobLocks(job[w])' /\ JobKnows(job[w])' /\ job'[w].held = {}
    BY <2>4 DEF JobLocks, JobKnows
  <2> QED
    BY <2>3, <2>5, <2>6, OneWorker
<1> QED
  BY <1>1, <1>2

\* A request that starts needs no more than the locks it is about to take.
LEMMA BeginStep ==
  ASSUME JobsTrue, requests \subseteq AllRequests, NEW w \in Workers, Begin(w)
  PROVE  JobsTrue' /\ requests' \subseteq AllRequests
<1>0. blocks' \subseteq blocks /\ job = [v \in Workers |-> job[v]]
  BY DEF Begin, JobsTrue
<1>1. PICK r \in requests :
        /\ requests' = requests \ {r}
        /\ \/ UNCHANGED job
           \/ \E wants : /\ job' = [job EXCEPT ![w] = [pc |-> "lock", held |-> {}, request |-> r,
                                                       wants |-> wants]]
                         /\ r.op \in {"follow", "block", "transfer", "react", "comment"}
                         /\ r.op \in {"react", "comment"} => wants = InteractionLocks(r.user, r.post)
                         /\ r.op = "follow" => wants = FollowLocks(r.user, r.other)
                         /\ r.op \in {"block", "transfer"} => wants = <<PairKey(r.user, r.other)>>
           \/ \E post : job' = [job EXCEPT ![w] = [pc |-> "reloadPost", held |-> {}, request |-> r,
                                                   wants |-> <<>>, post |-> post]]
  BY DEF Begin
<1>2. requests' \subseteq AllRequests
  BY <1>1
<1>3. CASE UNCHANGED job
  BY <1>0, <1>2, <1>3, NoWorker
<1>4. ASSUME NEW wants,
             job' = [job EXCEPT ![w] = [pc |-> "lock", held |-> {}, request |-> r,
                                        wants |-> wants]],
             r.op \in {"follow", "block", "transfer", "react", "comment"},
             r.op \in {"react", "comment"} => wants = InteractionLocks(r.user, r.post),
             r.op = "follow" => wants = FollowLocks(r.user, r.other),
             r.op \in {"block", "transfer"} => wants = <<PairKey(r.user, r.other)>>
      PROVE  JobsTrue'
  <2>1. job'[w] = [pc |-> "lock", held |-> {}, request |-> r, wants |-> wants]
        /\ job' = [job EXCEPT ![w] = job'[w]]
    BY <1>0, <1>4
  <2>2. r \in LockingRequests /\ ValidRequest(r)
    BY <1>4, RequestsValid DEF LockingRequests
  <2>3. wants \in Seq(Keys) /\ Needs(r) \subseteq Elements(wants)
    BY <1>4, <2>2, WantsWhatItNeeds
  <2>4. job'[w] \in LockingJob /\ job'[w].pc = "lock" /\ job'[w].held = {}
    BY <2>1, <2>2, <2>3 DEF LockingJob
  <2>5. JobTyped(job[w])'
    BY <2>4 DEF JobTyped, LockingJob, LockingRequests, AllRequests, Keys
  <2>6. JobLocks(job[w])'
    <3>1. Needs(job'[w].request) \subseteq Elements(job'[w].wants)
      BY <2>1, <2>3
    <3> QED
      BY <3>1 DEF JobLocks, Needs, Participants, Elements
  <2>7. JobKnows(job[w])'
    BY <2>4 DEF JobKnows
  <2> QED
    BY <1>0, <2>1, <2>4, <2>5, <2>6, <2>7, OneWorker
<1>5. ASSUME NEW post,
             job' = [job EXCEPT ![w] = [pc |-> "reloadPost", held |-> {}, request |-> r,
                                        wants |-> <<>>, post |-> post]]
      PROVE  JobsTrue'
  <2>1. job'[w].pc = "reloadPost" /\ job'[w].held = {} /\ job' = [job EXCEPT ![w] = job'[w]]
    BY <1>0, <1>5
  <2>2. JobTyped(job[w])' /\ JobLocks(job[w])' /\ JobKnows(job[w])'
    BY <2>1 DEF JobTyped, JobLocks, JobKnows
  <2> QED
    BY <1>0, <2>1, <2>2, OneWorker
<1> QED
  BY <1>1, <1>2, <1>3, <1>4, <1>5

\* Taking a lock that no other worker holds.
LEMMA LockStep ==
  ASSUME JobsTrue, NEW w \in Workers, Lock(w)
  PROVE  JobsTrue'
<1> DEFINE key == Head(job[w].wants)
<1>0. /\ blocks' \subseteq blocks /\ job = [v \in Workers |-> job[v]]
      /\ job[w].pc = "lock" /\ job[w].wants # <<>>
      /\ \A v \in Workers \ {w} : key \notin job[v].held
      /\ job' = [job EXCEPT ![w] = [job[w] EXCEPT !.held = job[w].held \cup {key},
                                                  !.wants = Tail(job[w].wants)]]
  BY DEF Lock, JobsTrue, At
<1>1. job[w] \in LockingJob /\ JobLocks(job[w])
  BY <1>0, Locking
<1>2. job[w].wants \in Seq(Keys) /\ job[w].held \subseteq Keys
  BY <1>1 DEF LockingJob
<1>3. key \in Keys /\ Tail(job[w].wants) \in Seq(Keys)
      /\ Elements(job[w].wants) \subseteq {key} \cup Elements(Tail(job[w].wants))
  <2> DEFINE s == job[w].wants
  <2> HIDE DEF s
  <2>1. s \in Seq(Keys) /\ s # <<>>
    BY <1>0, <1>2 DEF s
  <2> HIDE DEF Keys
  <2>2. /\ Len(s) \in Nat /\ Len(s) # 0 /\ DOMAIN s = 1..Len(s) /\ Head(s) = s[1] /\ Head(s) \in Keys
        /\ Tail(s) \in Seq(Keys) /\ Len(Tail(s)) = Len(s) - 1
        /\ DOMAIN Tail(s) = 1..(Len(s) - 1)
        /\ \A i \in 1..(Len(s) - 1) : Tail(s)[i] = s[i + 1]
    <3>1. Len(s) \in Nat /\ DOMAIN s = 1..Len(s)
      BY <2>1, LenProperties
    <3>2. Head(s) \in Keys /\ Tail(s) \in Seq(Keys) /\ Len(Tail(s)) = Len(s) - 1
      BY <2>1, HeadTailProperties
    <3>3. DOMAIN Tail(s) = 1..(Len(s) - 1)
      BY <3>2, LenProperties
    <3>4. Len(s) # 0
      BY <2>1, EmptySeq
    <3>5. \A i \in 1..(Len(s) - 1) : Tail(s)[i] = s[i + 1]
      BY <2>1, <3>1, <3>3, HeadTailProperties
    <3>6. Head(s) = s[1]
      BY <2>1
    <3> QED
      BY <3>1, <3>2, <3>3, <3>4, <3>5, <3>6
  <2>3. ASSUME NEW i \in 1..Len(s)
        PROVE  s[i] \in {Head(s)} \cup Elements(Tail(s))
    <3>1. CASE i = 1
      BY <2>2, <3>1
    <3>2. CASE i # 1
      <4>1. i - 1 \in 1..(Len(s) - 1) /\ (i - 1) + 1 = i
        BY <2>2, <3>2
      <4>2. Tail(s)[i - 1] = s[i]
        BY <2>2, <4>1
      <4> QED
        BY <2>2, <4>1, <4>2 DEF Elements
    <3> QED
      BY <3>1, <3>2
  <2>4. Elements(s) \subseteq {Head(s)} \cup Elements(Tail(s))
    BY <2>2, <2>3 DEF Elements
  <2> QED
    BY <2>2, <2>4 DEF s
<1> HIDE DEF key
<1>4. /\ job'[w] = [job[w] EXCEPT !.held = job[w].held \cup {key}, !.wants = Tail(job[w].wants)]
      /\ job' = [job EXCEPT ![w] = job'[w]]
  BY <1>0
<1>5. /\ job'[w] \in LockingJob /\ job'[w].pc = "lock" /\ job'[w].request = job[w].request
      /\ job'[w].held = job[w].held \cup {key} /\ job'[w].wants = Tail(job[w].wants)
  BY <1>0, <1>1, <1>2, <1>3, <1>4 DEF LockingJob
<1>6. JobTyped(job[w])'
  BY <1>5 DEF JobTyped, LockingJob, LockingRequests, AllRequests, Keys
<1>7. JobLocks(job[w])'
  <2>1. Needs(job[w].request) \subseteq job[w].held \cup Elements(job[w].wants)
    BY <1>0, <1>1 DEF JobLocks
  <2>2. Needs(job'[w].request) \subseteq job'[w].held \cup Elements(job'[w].wants)
    BY <1>3, <1>5, <2>1
  <2> QED
    BY <2>2 DEF JobLocks, Needs, Participants, Elements
<1>8. JobKnows(job[w])'
  BY <1>5 DEF JobKnows
<1>9. \A v \in Workers \ {w} : job'[w].held \cap job[v].held = {}
  BY <1>0, <1>5 DEF JobsTrue, LocksApart
<1> QED
  BY <1>0, <1>4, <1>6, <1>7, <1>8, <1>9, OneWorker

\* With all its locks, a request that is allowed goes on to its write.
LEMMA CheckStep ==
  ASSUME JobsTrue, NEW w \in Workers, Check(w)
  PROVE  JobsTrue'
<1>0. /\ UNCHANGED blocks /\ job = [v \in Workers |-> job[v]]
      /\ job[w].pc = "lock" /\ job[w].wants = <<>>
      /\ IF Allowed(Asked(w)) THEN Goto(w, "write") ELSE End(w)
  BY DEF Check, JobsTrue, At
<1>1. CASE ~Allowed(Asked(w))
  BY <1>0, <1>1, EndStep
<1>2. CASE Allowed(Asked(w))
  <2>1. job[w] \in LockingJob /\ JobLocks(job[w]) /\ Asked(w) \in LockingRequests
    BY <1>0, Locking
  <2>2. job'[w] = [job[w] EXCEPT !.pc = "write"] /\ job' = [job EXCEPT ![w] = job'[w]]
    BY <1>0, <1>2 DEF Goto
  <2>3. /\ job'[w] \in LockingJob /\ job'[w].pc = "write" /\ job'[w].request = Asked(w)
        /\ job'[w].held = job[w].held /\ job'[w].wants = <<>>
    BY <1>0, <2>1, <2>2 DEF LockingJob, Asked
  <2>4. JobTyped(job[w])'
    BY <2>3 DEF JobTyped, LockingJob, LockingRequests, AllRequests, Keys
  <2>5. JobLocks(job[w])'
    <3>1. Needs(job'[w].request) \subseteq job'[w].held \cup Elements(job'[w].wants)
      BY <1>0, <2>1, <2>3 DEF JobLocks, Asked
    <3> QED
      BY <3>1 DEF JobLocks, Needs, Participants, Elements
  <2>6. Unblocked(Asked(w))
    <3>1. CASE Asked(w).op = "follow"
      BY <1>2, <3>1 DEF Allowed, MayFollow, Unblocked
    <3>2. CASE Asked(w).op \in {"react", "comment"}
      BY <1>2, <3>2 DEF Allowed, MayInteract, Unblocked
    <3> QED
      BY <3>1, <3>2 DEF Unblocked
  <2>7. JobKnows(job[w])'
    BY <1>0, <2>3, <2>6 DEF JobKnows, Unblocked, NoBlockWithViewer, IsBlockedBetween
  <2>8. \A v \in Workers \ {w} : job'[w].held \cap job[v].held = {}
    BY <2>3 DEF JobsTrue, LocksApart
  <2> QED
    BY <1>0, <2>2, <2>4, <2>5, <2>7, <2>8, OneWorker
<1> QED
  BY <1>1, <1>2

\* A block commits under its pair's lock, so that no request that has checked
\* for a block of this pair is still to write.
LEMMA BlockStep ==
  ASSUME JobsTrue, NoSelfBlock, BlockEndsTies, NEW w \in Workers, Block(w)
  PROVE  JobsTrue' /\ NoSelfBlock' /\ BlockEndsTies'
<1> DEFINE u == Asked(w).user
           x == Asked(w).other
<1>0. /\ job[w].pc = "write" /\ Asked(w).op = "block" /\ job = [v \in Workers |-> job[v]]
      /\ blocks' = blocks \cup {<<u, x>>}
      /\ follows' = follows \ {<<u, x>>, <<x, u>>}
      /\ job' = [job EXCEPT ![w] = Idle]
  BY DEF Block, At, JobsTrue, Commit
<1>1. /\ u \in Users /\ x \in Users \ {u} /\ job[w].wants = <<>> /\ JobLocks(job[w])
  BY <1>0, Locking DEF ValidRequest
<1>2. PairKey(u, x) \in job[w].held
  <2>1. Elements(<<>>) = {}
    BY DEF Elements
  <2> QED
    BY <1>0, <1>1, <2>1 DEF JobLocks, Needs, Asked
<1> HIDE DEF u, x
<1>3. job'[w] = Idle /\ \A v \in Workers \ {w} : job'[v] = job[v]
  BY <1>0
<1>4. ASSUME NEW v \in Workers \ {w}
      PROVE  JobTyped(job[v])' /\ JobLocks(job[v])' /\ JobKnows(job[v])'
  <2>1. job'[v] = job[v] /\ JobTyped(job[v]) /\ JobLocks(job[v]) /\ JobKnows(job[v])
    BY <1>3 DEF JobsTrue
  <2>2. JobTyped(job[v])'
    BY <2>1 DEF JobTyped, LockingJob, LockingRequests, AllRequests, Keys
  <2>3. JobLocks(job[v])'
    BY <2>1 DEF JobLocks, Needs, Participants
  <2>4. ASSUME job[v].pc = "write"
        PROVE  Unblocked(Asked(v))'
    <3>1. /\ Unblocked(Asked(v)) /\ ValidRequest(Asked(v)) /\ Asked(v)' = Asked(v)
          /\ Needs(Asked(v)) \subseteq job[v].held
      <4>1. Elements(<<>>) = {}
        BY DEF Elements
      <4> QED
        BY <2>1, <2>4, <4>1, Locking DEF JobLocks, JobKnows, Asked
    <3>2. PairKey(u, x) \notin Needs(Asked(v))
      BY <1>2, <3>1 DEF JobsTrue, LocksApart
    <3>3. ASSUME NEW a \in Users, NEW b \in Users, PairKey(a, b) # PairKey(u, x),
                 ~IsBlockedBetween(a, b)
          PROVE  ~IsBlockedBetween(a, b)'
      BY <1>0, <1>1, <3>3, PairKeySymmetric DEF IsBlockedBetween
    <3>4. CASE Asked(v).op = "follow"
      BY <3>1, <3>2, <3>3, <3>4 DEF Unblocked, ValidRequest, Needs
    <3>5. CASE Asked(v).op \in {"react", "comment"}
      <4>1. Asked(v).user \in Users /\ Asked(v).post \in Posts
        BY <3>1, <3>5 DEF ValidRequest
      <4>2. Participants(Asked(v).post) \subseteq Users
        BY <4>1, PostParties DEF Participants
      <4>3. ASSUME NEW a \in Participants(Asked(v).post)
            PROVE  ~IsBlockedBetween(a, Asked(v).user)'
        <5>1. ~IsBlockedBetween(a, Asked(v).user)
          BY <3>1, <3>5 DEF Unblocked, NoBlockWithViewer
        <5>2. CASE a = Asked(v).user
          BY <1>0, <1>1, <3>1, <5>1, <5>2 DEF IsBlockedBetween
        <5>3. CASE a # Asked(v).user
          <6>1. PairKey(a, Asked(v).user) \in Needs(Asked(v))
            BY <3>5, <4>1, <4>2, <5>3, PairKeySymmetric DEF Needs
          <6> QED
            BY <3>1, <3>2, <3>3, <4>1, <4>2, <5>1, <6>1
        <5> QED
          BY <5>2, <5>3
      <4> QED
        BY <3>1, <3>5, <4>3 DEF Unblocked, NoBlockWithViewer, Participants
    <3>6. CASE Asked(v).op \notin {"follow", "react", "comment"}
      BY <3>1, <3>6 DEF Unblocked
    <3> QED
      BY <3>4, <3>5, <3>6
  <2>5. JobKnows(job[v])'
    BY <2>1, <2>4 DEF JobKnows, Asked
  <2> QED
    BY <2>2, <2>3, <2>5
<1>5. JobTyped(job[w])' /\ JobLocks(job[w])' /\ JobKnows(job[w])' /\ job'[w].held = {}
  BY <1>3 DEF JobTyped, JobLocks, JobKnows, Idle
<1>6. LocksApart'
  BY <1>3, <1>5 DEF JobsTrue, LocksApart
<1>7. JobsTrue'
  <2>1. job' = [v \in Workers |-> job'[v]]
    BY <1>0
  <2> QED
    BY <1>4, <1>5, <1>6, <2>1 DEF JobsTrue
<1>8. NoSelfBlock'
  BY <1>0, <1>1 DEF NoSelfBlock
<1>9. BlockEndsTies'
  BY <1>0, <1>1 DEF BlockEndsTies, IsBlockedBetween
<1> QED
  BY <1>7, <1>8, <1>9

-----------------------------------------------------------------------------
(* Counting the copies of an event *)

LEMMA OneMore ==
  ASSUME NEW S, NEW x, IsFiniteSet(S)
  PROVE  /\ IsFiniteSet(S \cup {x})
         /\ Cardinality(S \cup {x}) \in Nat
         /\ Cardinality(S \cup {x}) <= Cardinality(S) + 1
<1>1. Cardinality(S) \in Nat
  BY FS_CardinalityType
<1>2. IsFiniteSet(S \cup {x})
  BY FS_AddElement
<1>3. CASE x \in S
  <2>1. S \cup {x} = S
    BY <1>3
  <2> QED
    BY <1>1, <1>2, <2>1
<1>4. CASE x \notin S
  <2>1. Cardinality(S \cup {x}) = Cardinality(S) + 1
    BY <1>4, FS_AddElement
  <2> QED
    BY <1>1, <1>2, <2>1
<1> QED
  BY <1>3, <1>4

LEMMA CopiesFinite ==
  ASSUME IsFiniteSet(jobs), NEW e, NEW c
  PROVE  IsFiniteSet(Copies(e, c)) /\ Cardinality(Copies(e, c)) \in Nat
<1>1. Copies(e, c) \in SUBSET jobs
  BY DEF Copies
<1>2. IsFiniteSet(Copies(e, c))
  BY <1>1, FS_Subset
<1> QED
  BY <1>2, FS_CardinalityType

\* A job that is done is a copy less of its event on its channel.
LEMMA CopyDone ==
  ASSUME IsFiniteSet(jobs), NEW j \in jobs, jobs' = jobs \ {j}
  PROVE  /\ IsFiniteSet(jobs')
         /\ \A e, c : Cardinality(Copies(e, c)') =
                        IF e = j.event /\ c = j.channel THEN Cardinality(Copies(e, c)) - 1
                                                        ELSE Cardinality(Copies(e, c))
<1>1. IsFiniteSet(jobs')
  BY FS_RemoveElement
<1>2. ASSUME NEW e, NEW c
      PROVE  Cardinality(Copies(e, c)') =
               IF e = j.event /\ c = j.channel THEN Cardinality(Copies(e, c)) - 1
                                               ELSE Cardinality(Copies(e, c))
  <2>1. Copies(e, c)' = Copies(e, c) \ {j}
    BY DEF Copies
  <2>2. IsFiniteSet(Copies(e, c))
    BY CopiesFinite
  <2>3. j \in Copies(e, c) <=> (e = j.event /\ c = j.channel)
    BY DEF Copies
  <2>4. Cardinality(Copies(e, c) \ {j}) = IF j \in Copies(e, c) THEN Cardinality(Copies(e, c)) - 1
                                                               ELSE Cardinality(Copies(e, c))
    BY <2>2, FS_RemoveElement
  <2> QED
    BY <2>1, <2>3, <2>4
<1> QED
  BY <1>1, <1>2

\* A job that only changes its state or its counts is no copy more.
LEMMA CopyKept ==
  ASSUME IsFiniteSet(jobs), NEW j \in jobs, NEW k, k.event = j.event, k.channel = j.channel,
         jobs' = (jobs \ {j}) \cup {k}
  PROVE  /\ IsFiniteSet(jobs')
         /\ \A e, c : Cardinality(Copies(e, c)') <= Cardinality(Copies(e, c))
<1>1. IsFiniteSet(jobs')
  BY FS_RemoveElement, FS_AddElement
<1>2. ASSUME NEW e, NEW c
      PROVE  Cardinality(Copies(e, c)') <= Cardinality(Copies(e, c))
  <2> DEFINE S == Copies(e, c)
  <2>1. IsFiniteSet(S) /\ Cardinality(S) \in Nat
    BY CopiesFinite
  <2>2. CASE e = j.event /\ c = j.channel
    <3>1. j \in S /\ Copies(e, c)' = (S \ {j}) \cup {k}
      BY <2>2 DEF Copies
    <3> HIDE DEF S
    <3>2. IsFiniteSet(S \ {j}) /\ Cardinality(S \ {j}) = Cardinality(S) - 1
      BY <2>1, <3>1, FS_RemoveElement
    <3>3. Cardinality((S \ {j}) \cup {k}) <= Cardinality(S \ {j}) + 1
      BY <3>2, OneMore
    <3> QED
      BY <2>1, <3>1, <3>2, <3>3 DEF S
  <2>3. CASE ~(e = j.event /\ c = j.channel)
    <3>1. Copies(e, c)' = S
      BY <2>3 DEF Copies
    <3> QED
      BY <2>1, <3>1
  <2> QED
    BY <2>2, <2>3
<1> QED
  BY <1>1, <1>2

\* NotificationEventsProcessor adds at most one copy on each channel, of its
\* own event.
LEMMA CopyAdded ==
  ASSUME IsFiniteSet(jobs), NEW e, NEW channels \in SUBSET Channels,
         jobs' = jobs \cup JobsFor(e, channels)
  PROVE  /\ IsFiniteSet(jobs')
         /\ \A d, c : Cardinality(Copies(d, c)') <=
                        IF d = e THEN Cardinality(Copies(d, c)) + 1 ELSE Cardinality(Copies(d, c))
<1> DEFINE made(c) == [event |-> e, channel |-> c, copy |-> faults, failed |-> 0,
                       stalled |-> 0, state |-> "waiting"]
<1>1. JobsFor(e, channels) \subseteq {made("in_app")} \cup {made("push")}
  BY DEF JobsFor, Channels
<1>2. \A j \in JobsFor(e, channels) : j.event = e /\ j = made(j.channel)
  BY DEF JobsFor
<1>3. IsFiniteSet(jobs')
  <2> HIDE DEF made
  <2>1. IsFiniteSet({made("in_app")} \cup {made("push")})
    <3>1. IsFiniteSet({made("in_app")})
      BY FS_Singleton
    <3> QED
      BY <3>1, FS_AddElement
  <2>2. IsFiniteSet(JobsFor(e, channels))
    BY <1>1, <2>1, FS_Subset
  <2> QED
    BY <2>2, FS_Union
<1> HIDE DEF made
<1>4. ASSUME NEW d, NEW c
      PROVE  Cardinality(Copies(d, c)') <=
               IF d = e THEN Cardinality(Copies(d, c)) + 1 ELSE Cardinality(Copies(d, c))
  <2> DEFINE S == Copies(d, c)
  <2>1. IsFiniteSet(S) /\ Cardinality(S) \in Nat
    BY CopiesFinite
  <2>2. CASE d = e
    <3>1. Copies(d, c)' \subseteq S \cup {made(c)}
      BY <1>2 DEF Copies
    <3> HIDE DEF S
    <3>2. IsFiniteSet(S \cup {made(c)}) /\ Cardinality(S \cup {made(c)}) <= Cardinality(S) + 1
      BY <2>1, OneMore
    <3>3. Cardinality(S \cup {made(c)}) \in Nat
      BY <2>1, OneMore
    <3>4. /\ IsFiniteSet(Copies(d, c)')
          /\ Cardinality(Copies(d, c)') <= Cardinality(S \cup {made(c)})
      BY <3>1, <3>2, FS_Subset
    <3>5. Cardinality(Copies(d, c)') \in Nat
      BY <3>4, FS_CardinalityType
    <3> QED
      BY <2>1, <2>2, <3>2, <3>3, <3>4, <3>5 DEF S
  <2>3. CASE d # e
    <3>1. Copies(d, c)' = S
      BY <1>2, <2>3 DEF Copies
    <3> QED
      BY <2>1, <2>3, <3>1
  <2> QED
    BY <2>2, <2>3
<1> QED
  BY <1>3, <1>4

\* What NewsTrue says of the sequences and the jobs.
LEMMA NewsTypes ==
  ASSUME NewsTrue
  PROVE  /\ Len(published) \in Nat /\ DOMAIN published = 1..Len(published)
         /\ DOMAIN sent = DOMAIN published /\ DOMAIN hits = DOMAIN published
         /\ \A e \in DOMAIN published :
              published[e] \in Event /\ sent[e] \in [Channels -> Nat] /\ hits[e] \in [Channels -> Nat]
         /\ \A j \in jobs : j \in Job /\ j.event \in DOMAIN published /\ j.channel \in Channels
         /\ faults \in Nat /\ IsFiniteSet(jobs)
         /\ \A e, c : Cardinality(Copies(e, c)) \in Nat
<1>1. /\ published \in Seq(Event) /\ sent \in Seq([Channels -> Nat])
      /\ hits \in Seq([Channels -> Nat])
      /\ Len(sent) = Len(published) /\ Len(hits) = Len(published)
  BY DEF NewsTrue, NotificationsTypeOK
<1>2. /\ Len(published) \in Nat /\ DOMAIN published = 1..Len(published)
      /\ DOMAIN sent = 1..Len(sent) /\ DOMAIN hits = 1..Len(hits)
  BY <1>1, LenProperties
<1>3. \A e \in DOMAIN published :
        published[e] \in Event /\ sent[e] \in [Channels -> Nat] /\ hits[e] \in [Channels -> Nat]
  BY <1>1, <1>2, ElementOfSeq
<1>4. /\ \A j \in jobs : j \in Job /\ j.event \in DOMAIN published
      /\ faults \in Nat /\ IsFiniteSet(jobs)
  BY NotificationsAssumption DEF NewsTrue, NotificationsTypeOK
<1>5. \A j \in jobs : j.channel \in Channels
  BY <1>4 DEF Job
<1>6. \A e, c : Cardinality(Copies(e, c)) \in Nat
  BY <1>4, CopiesFinite
<1> QED
  BY <1>1, <1>2, <1>3, <1>4, <1>5, <1>6

\* A step that raises what was sent, may be sent or is queued by no more than
\* the faults it counts keeps the account of the news.
LEMMA Accounted ==
  ASSUME NewsTrue, NotificationsTypeOK', UNCHANGED published, IsFiniteSet(jobs'),
         Len(sent') = Len(sent), Len(hits') = Len(hits),
         \A j \in jobs' : j.event \in DOMAIN published,
         \A e \in DOMAIN published, c \in Channels :
           \E made, done, ended, failed \in Int :
             /\ Cardinality(Copies(e, c)') <= Cardinality(Copies(e, c)) + made
             /\ sent'[e][c] = sent[e][c] + done
             /\ Queued(e)' = Queued(e) - ended
             /\ hits'[e][c] = hits[e][c] + failed
             /\ made + done <= ended + failed
  PROVE  NewsTrue'
<1>1. CopiesBounded'
  <2> SUFFICES ASSUME NEW e \in DOMAIN published, NEW c \in Channels
               PROVE  sent'[e][c] + Cardinality(Copies(e, c)') + Queued(e)' <= 1 + hits'[e][c]
    BY DEF CopiesBounded
  <2>1. /\ sent[e][c] \in Nat /\ Cardinality(Copies(e, c)) \in Nat /\ hits[e][c] \in Nat
        /\ sent[e][c] + Cardinality(Copies(e, c)) + Queued(e) <= 1 + hits[e][c]
        /\ Queued(e) \in {0, 1}
    BY NewsTypes DEF NewsTrue, CopiesBounded, Queued
  <2>2. Cardinality(Copies(e, c)') \in Nat
    <3>1. Copies(e, c)' \in SUBSET jobs'
      BY DEF Copies
    <3>2. IsFiniteSet(Copies(e, c)')
      BY <3>1, FS_Subset
    <3> QED
      BY <3>2, FS_CardinalityType
  <2>3. PICK made, done, ended, failed \in Int :
             /\ Cardinality(Copies(e, c)') <= Cardinality(Copies(e, c)) + made
             /\ sent'[e][c] = sent[e][c] + done
             /\ Queued(e)' = Queued(e) - ended
             /\ hits'[e][c] = hits[e][c] + failed
             /\ made + done <= ended + failed
    OBVIOUS
  <2> DEFINE k == Cardinality(Copies(e, c))
             k1 == Cardinality(Copies(e, c)')
             s == sent[e][c]
             s1 == sent'[e][c]
             h == hits[e][c]
             h1 == hits'[e][c]
             q == Queued(e)
             q1 == Queued(e)'
  <2>4. s \in Nat /\ k \in Nat /\ h \in Nat /\ q \in Int /\ s + k + q <= 1 + h /\ k1 \in Nat
    BY <2>1, <2>2
  <2>5. k1 <= k + made /\ s1 = s + done /\ q1 = q - ended /\ h1 = h + failed
    BY <2>3
  <2>6. made + done <= ended + failed
    BY <2>3
  <2> HIDE DEF k, k1, s, s1, h, h1, q, q1
  <2>7. s1 + k1 + q1 <= 1 + h1
    BY <2>4, <2>5, <2>6
  <2> QED
    BY <2>7 DEF k1, s1, h1, q1
<1> QED
  BY <1>1 DEF NewsTrue

\* One entry of a history is replaced.
LEMMA EntryReplaced ==
  ASSUME NEW T, NEW s \in Seq(T), NEW e \in 1..Len(s), NEW t \in T
  PROVE  /\ [s EXCEPT ![e] = t] \in Seq(T) /\ Len([s EXCEPT ![e] = t]) = Len(s)
         /\ \A d \in 1..Len(s) : [s EXCEPT ![e] = t][d] = IF d = e THEN t ELSE s[d]
<1> DEFINE r == [s EXCEPT ![e] = t]
<1>1. s \in [1..Len(s) -> T] /\ Len(s) \in Nat
  BY LenProperties
<1>2. r \in [1..Len(s) -> T] /\ \A d \in 1..Len(s) : r[d] = IF d = e THEN t ELSE s[d]
  BY <1>1
<1> HIDE DEF r
<1>3. r \in Seq(T)
  BY <1>1, <1>2
<1>4. DOMAIN r = 1..Len(r) /\ Len(r) \in Nat
  BY <1>3, LenProperties
<1>5. Len(r) = Len(s)
  BY <1>1, <1>2, <1>4
<1> QED
  BY <1>2, <1>3, <1>5 DEF r

\* A fault is counted on each channel it can repeat.
LEMMA HitCounts ==
  ASSUME NewsTrue, NEW e \in DOMAIN published, NEW channels, Hit(e, channels)
  PROVE  /\ faults' \in 0..MaxFaults
         /\ hits' \in Seq([Channels -> Nat]) /\ Len(hits') = Len(hits)
         /\ \A d \in DOMAIN published, c \in Channels :
              hits'[d][c] = hits[d][c] + (IF d = e /\ c \in channels THEN 1 ELSE 0)
<1> DEFINE T == [Channels -> Nat]
           t == [c \in Channels |-> IF c \in channels THEN hits[e][c] + 1 ELSE hits[e][c]]
<1>1. hits \in Seq(T) /\ e \in 1..Len(hits) /\ DOMAIN published = 1..Len(hits)
  BY NewsTypes DEF NewsTrue, NotificationsTypeOK
<1>2. hits[e] \in T /\ \A d \in DOMAIN published : hits[d] \in T
  BY NewsTypes
<1>3. t \in T
  BY <1>2
<1>4. hits' = [hits EXCEPT ![e] = t]
  BY DEF Hit
<1> HIDE DEF T
<1>5. /\ hits' \in Seq(T) /\ Len(hits') = Len(hits)
      /\ \A d \in 1..Len(hits) : hits'[d] = IF d = e THEN t ELSE hits[d]
  BY <1>1, <1>3, <1>4, EntryReplaced
<1>6. ASSUME NEW d \in DOMAIN published, NEW c \in Channels
      PROVE  hits'[d][c] = hits[d][c] + (IF d = e /\ c \in channels THEN 1 ELSE 0)
  <2>1. hits[d][c] \in Nat
    BY <1>2 DEF T
  <2>2. hits'[d] = IF d = e THEN t ELSE hits[d]
    BY <1>1, <1>5
  <2> QED
    BY <2>1, <2>2
<1>7. faults' \in 0..MaxFaults
  BY NotificationsAssumption DEF Hit, NewsTrue, NotificationsTypeOK
<1> QED
  BY <1>5, <1>6, <1>7 DEF T

\* A delivery is counted on its channel; the row it adds is an in-app row.
LEMMA ReachCounts ==
  ASSUME NewsTrue, NEW j \in jobs, Reach(j)
  PROVE  /\ inbox' \subseteq Row
         /\ sent' \in Seq([Channels -> Nat]) /\ Len(sent') = Len(sent)
         /\ \A d \in DOMAIN published, c \in Channels :
              sent'[d][c] = sent[d][c] + (IF d = j.event /\ c = j.channel THEN 1 ELSE 0)
<1>1. /\ inbox' = IF j.channel = "in_app" THEN Saved(published[j.event]) ELSE inbox
      /\ sent' = [sent EXCEPT ![j.event] = [sent[j.event] EXCEPT ![j.channel] =
                                              sent[j.event][j.channel] + 1]]
  BY DEF Reach
<1>2. j \in Job /\ j.event \in DOMAIN published /\ j.channel \in Channels
  BY NewsTypes
<1>3. inbox' \subseteq Row
  <2>1. published[j.event] \in Event /\ inbox \subseteq Row
    BY <1>2, NewsTypes DEF NewsTrue, NotificationsTypeOK
  <2>2. Saved(published[j.event]) \subseteq Row
    <3> DEFINE e == published[j.event]
    <3>1. e.type \in Types /\ e.to \in Users /\ e.key \in Seq(Nat)
      BY <2>1 DEF Event
    <3> HIDE DEF e
    <3>2. [type |-> e.type, to |-> e.to, key |-> e.key, read |-> FALSE] \in Row
      BY <3>1 DEF Row
    <3> QED
      BY <2>1, <3>2 DEF Saved, e
  <2> QED
    BY <1>1, <2>1, <2>2
<1> DEFINE T == [Channels -> Nat]
           t == [sent[j.event] EXCEPT ![j.channel] = sent[j.event][j.channel] + 1]
<1>4. sent \in Seq(T) /\ j.event \in 1..Len(sent) /\ DOMAIN published = 1..Len(sent)
  BY <1>2, NewsTypes DEF NewsTrue, NotificationsTypeOK
<1>5. sent[j.event] \in T /\ \A d \in DOMAIN published : sent[d] \in T
  BY <1>2, NewsTypes
<1>6. t \in T
  BY <1>2, <1>5
<1> HIDE DEF T
<1>7. /\ sent' \in Seq(T) /\ Len(sent') = Len(sent)
      /\ \A d \in 1..Len(sent) : sent'[d] = IF d = j.event THEN t ELSE sent[d]
  BY <1>1, <1>4, <1>6, EntryReplaced
<1>8. ASSUME NEW d \in DOMAIN published, NEW c \in Channels
      PROVE  sent'[d][c] = sent[d][c] + (IF d = j.event /\ c = j.channel THEN 1 ELSE 0)
  <2>1. sent[d][c] \in Nat /\ sent[j.event] \in [Channels -> Nat]
    BY <1>5 DEF T
  <2>2. sent'[d] = IF d = j.event THEN t ELSE sent[d]
    BY <1>4, <1>7
  <2> QED
    BY <1>2, <2>1, <2>2
<1> QED
  BY <1>3, <1>7, <1>8 DEF T

\* The jobs an event is given are its own.
LEMMA JobsForTyped ==
  ASSUME NewsTrue, NEW e \in DOMAIN published, NEW channels \in SUBSET Channels
  PROVE  \A j \in JobsFor(e, channels) : j \in Job /\ j.event \in DOMAIN published
<1>1. e \in Nat /\ faults \in Nat
  BY NewsTypes
<1> QED
  BY <1>1 DEF JobsFor, Job

\* A processed event leaves the queue for one copy on each of its channels.
LEMMA ProcessStep ==
  ASSUME NewsTrue, NEW e \in queue, ProcessEvent(e)
  PROVE  NewsTrue'
<1> DEFINE channels == ChannelsFor(published[e].type)
<1>0. channels \in SUBSET Channels
  BY DEF ChannelsFor, Channels
<1>1. /\ jobs' = jobs \cup JobsFor(e, channels) /\ queue' = queue \ {e}
      /\ UNCHANGED <<blocks, published, inbox, sent, hits, faults>>
  BY DEF ProcessEvent
<1> HIDE DEF channels
<1>2. e \in DOMAIN published /\ queue \subseteq DOMAIN published
  BY DEF NewsTrue, NotificationsTypeOK
<1>3. /\ IsFiniteSet(jobs')
      /\ \A d, c : Cardinality(Copies(d, c)') <=
                     IF d = e THEN Cardinality(Copies(d, c)) + 1 ELSE Cardinality(Copies(d, c))
  BY <1>0, <1>1, NewsTypes, CopyAdded
<1>4. \A j \in JobsFor(e, channels) : j \in Job /\ j.event \in DOMAIN published
  BY <1>0, <1>2, JobsForTyped
<1>5. NotificationsTypeOK'
  BY <1>1, <1>2, <1>4 DEF NewsTrue, NotificationsTypeOK
<1>6. \A j \in jobs' : j.event \in DOMAIN published
  BY <1>1, <1>4, NewsTypes
<1>7. ASSUME NEW d \in DOMAIN published, NEW c \in Channels
      PROVE  \E made, done, ended, failed \in Int :
             /\ Cardinality(Copies(d, c)') <= Cardinality(Copies(d, c)) + made
             /\ sent'[d][c] = sent[d][c] + done
             /\ Queued(d)' = Queued(d) - ended
             /\ hits'[d][c] = hits[d][c] + failed
             /\ made + done <= ended + failed
  <2>1. sent[d][c] \in Nat /\ hits[d][c] \in Nat /\ Cardinality(Copies(d, c)) \in Nat
    BY NewsTypes
  <2> DEFINE n == IF d = e THEN 1 ELSE 0
  <2>2. Cardinality(Copies(d, c)') <= Cardinality(Copies(d, c)) + n /\ n \in Int
    BY <1>3, <2>1
  <2>3. Queued(d)' = Queued(d) - n
    BY <1>1 DEF Queued
  <2>4. sent'[d][c] = sent[d][c] + 0 /\ hits'[d][c] = hits[d][c] + 0
    BY <1>1, <2>1
  <2>5. n + 0 <= n + 0
    BY <2>2
  <2> HIDE DEF n
  <2> QED
    BY <2>2, <2>3, <2>4, <2>5
<1> QED
  BY <1>1, <1>3, <1>5, <1>6, <1>7, Accounted

\* A run of the event's job that is cut short may have added a copy on each
\* channel, and is counted on each.
LEMMA FailEventStep ==
  ASSUME NewsTrue, NEW e \in queue, NEW fault \in Faults, FailEvent(e, fault)
  PROVE  NewsTrue'
<1>1. e \in DOMAIN published /\ queue \subseteq DOMAIN published
  BY DEF NewsTrue, NotificationsTypeOK
<1>2. PICK channels \in SUBSET Channels : jobs' = jobs \cup JobsFor(e, channels)
  BY DEF FailEvent, ChannelsFor, Channels
<1>3. /\ queue' \subseteq queue /\ \A d : d # e => (d \in queue' <=> d \in queue)
      /\ Hit(e, Channels) /\ UNCHANGED <<blocks, published, inbox, sent>>
  BY DEF FailEvent
<1>4. /\ IsFiniteSet(jobs')
      /\ \A d, c : Cardinality(Copies(d, c)') <=
                     IF d = e THEN Cardinality(Copies(d, c)) + 1 ELSE Cardinality(Copies(d, c))
  BY <1>2, NewsTypes, CopyAdded
<1>5. \A j \in JobsFor(e, channels) : j \in Job /\ j.event \in DOMAIN published
  BY <1>1, JobsForTyped
<1>6. /\ faults' \in 0..MaxFaults
      /\ hits' \in Seq([Channels -> Nat]) /\ Len(hits') = Len(hits)
      /\ \A d \in DOMAIN published, c \in Channels :
           hits'[d][c] = hits[d][c] + (IF d = e /\ c \in Channels THEN 1 ELSE 0)
  BY <1>3, <1>1, HitCounts
<1>7. NotificationsTypeOK'
  BY <1>2, <1>3, <1>1, <1>5, <1>6 DEF NewsTrue, NotificationsTypeOK
<1>8. \A j \in jobs' : j.event \in DOMAIN published
  BY <1>2, <1>5, NewsTypes
<1>9. ASSUME NEW d \in DOMAIN published, NEW c \in Channels
      PROVE  \E made, done, ended, failed \in Int :
             /\ Cardinality(Copies(d, c)') <= Cardinality(Copies(d, c)) + made
             /\ sent'[d][c] = sent[d][c] + done
             /\ Queued(d)' = Queued(d) - ended
             /\ hits'[d][c] = hits[d][c] + failed
             /\ made + done <= ended + failed
  <2>1. sent[d][c] \in Nat /\ hits[d][c] \in Nat /\ Cardinality(Copies(d, c)) \in Nat
    BY NewsTypes
  <2> DEFINE n == IF d = e THEN 1 ELSE 0
             q == Queued(d) - Queued(d)'
  <2>2. Cardinality(Copies(d, c)') <= Cardinality(Copies(d, c)) + n /\ n \in Int
    BY <1>4, <2>1
  <2>3. Queued(d)' = Queued(d) - q /\ q \in Nat
    BY <1>3 DEF Queued
  <2>4. sent'[d][c] = sent[d][c] + 0 /\ hits'[d][c] = hits[d][c] + n
    BY <1>3, <1>6, <2>1
  <2> HIDE DEF n, q
  <2>5. n + 0 <= q + n
    BY <2>2, <2>3
  <2> QED
    BY <2>2, <2>3, <2>4, <2>5
<1> QED
  BY <1>3, <1>4, <1>7, <1>8, <1>9, <1>6, Accounted

\* A job ends, or goes on as another copy of itself.
GoesOn(j) ==
  \/ jobs' = jobs \ {j}
  \/ \E k \in Job : /\ k.event = j.event /\ k.channel = j.channel
                    /\ jobs' = (jobs \ {j}) \cup {k}

LEMMA JobGoesOn ==
  ASSUME NewsTrue, NEW j \in jobs, GoesOn(j)
  PROVE  /\ IsFiniteSet(jobs') /\ jobs' \subseteq Job
         /\ \A k \in jobs' : k.event \in DOMAIN published
         /\ \A e, c : Cardinality(Copies(e, c)') <= Cardinality(Copies(e, c))
<1>1. /\ IsFiniteSet(jobs')
      /\ \A e, c : Cardinality(Copies(e, c)') <= Cardinality(Copies(e, c))
  <2>1. CASE jobs' = jobs \ {j}
    <3>1. \A e, c : Cardinality(Copies(e, c)') =
                      IF e = j.event /\ c = j.channel THEN Cardinality(Copies(e, c)) - 1
                                                      ELSE Cardinality(Copies(e, c))
      BY <2>1, NewsTypes, CopyDone
    <3>2. IsFiniteSet(jobs')
      BY <2>1, NewsTypes, CopyDone
    <3> QED
      BY <3>1, <3>2, NewsTypes
  <2>2. ASSUME NEW k \in Job, k.event = j.event, k.channel = j.channel,
               jobs' = (jobs \ {j}) \cup {k}
        PROVE  /\ IsFiniteSet(jobs')
               /\ \A e, c : Cardinality(Copies(e, c)') <= Cardinality(Copies(e, c))
    BY <2>2, NewsTypes, CopyKept
  <2> QED
    BY <2>1, <2>2 DEF GoesOn
<1>2. jobs' \subseteq Job /\ \A k \in jobs' : k.event \in DOMAIN published
  BY NewsTypes DEF GoesOn
<1> QED
  BY <1>1, <1>2

LEMMA CheckBlockStep ==
  ASSUME NewsTrue, NEW j \in jobs, CheckBlock(j)
  PROVE  NewsTrue'
<1>1. UNCHANGED <<blocks, published, queue, inbox, sent, hits, faults>>
  BY DEF CheckBlock
<1>2. GoesOn(j)
  <2>1. CASE jobs' = jobs \ {j}
    BY <2>1 DEF GoesOn
  <2>2. CASE jobs' = (jobs \ {j}) \cup {[j EXCEPT !.state = "sending"]}
    <3>1. /\ [j EXCEPT !.state = "sending"] \in Job
          /\ [j EXCEPT !.state = "sending"].event = j.event
          /\ [j EXCEPT !.state = "sending"].channel = j.channel
      BY NewsTypes DEF Job
    <3> QED
      BY <2>2, <3>1 DEF GoesOn
  <2> QED
    BY <2>1, <2>2 DEF CheckBlock
<1>3. /\ IsFiniteSet(jobs') /\ jobs' \subseteq Job
      /\ \A k \in jobs' : k.event \in DOMAIN published
      /\ \A e, c : Cardinality(Copies(e, c)') <= Cardinality(Copies(e, c))
  BY <1>2, JobGoesOn
<1>4. NotificationsTypeOK'
  BY <1>1, <1>3 DEF NewsTrue, NotificationsTypeOK
<1>5. ASSUME NEW e \in DOMAIN published, NEW c \in Channels
      PROVE  \E made, done, ended, failed \in Int :
             /\ Cardinality(Copies(e, c)') <= Cardinality(Copies(e, c)) + made
             /\ sent'[e][c] = sent[e][c] + done
             /\ Queued(e)' = Queued(e) - ended
             /\ hits'[e][c] = hits[e][c] + failed
             /\ made + done <= ended + failed
  <2>1. sent[e][c] \in Nat /\ hits[e][c] \in Nat /\ Cardinality(Copies(e, c)) \in Nat
    BY NewsTypes
  <2>2. /\ Cardinality(Copies(e, c)') <= Cardinality(Copies(e, c)) + 0
        /\ sent'[e][c] = sent[e][c] + 0 /\ hits'[e][c] = hits[e][c] + 0
    BY <1>1, <1>3, <2>1
  <2>3. Queued(e)' = Queued(e) - 0
    BY <1>1 DEF Queued
  <2> QED
    BY <2>2, <2>3
<1> QED
  BY <1>1, <1>3, <1>4, <1>5, Accounted

\* A run that fails or stalls may have sent its copy and leave it to be sent
\* again; it is counted on its channel.
LEMMA FailStep ==
  ASSUME NewsTrue, NEW j \in jobs, NEW fault \in Faults, Fail(j, fault)
  PROVE  NewsTrue'
<1> DEFINE next == [j EXCEPT ![fault] = @ + 1]
<1>0. j \in Job /\ j.event \in DOMAIN published /\ j.channel \in Channels
  BY NewsTypes
<1>1. UNCHANGED <<blocks, published, queue>> /\ Hit(j.event, {j.channel})
  BY DEF Fail
<1>2. GoesOn(j)
  <2>1. CASE jobs' = jobs \ {j}
    BY <2>1 DEF GoesOn
  <2>2. CASE jobs' = Retried(j, next)
    <3> DEFINE k == [next EXCEPT !.state = "waiting"]
    <3>1. k \in Job /\ k.event = j.event /\ k.channel = j.channel
      <4>1. CASE fault = "failed"
        <5>1. j.failed + 1 \in Nat
          BY <1>0 DEF Job
        <5>2. next = [j EXCEPT !.failed = j.failed + 1]
          BY <4>1, Zenon
        <5>3. ASSUME NEW n \in Nat
              PROVE  LET i == [j EXCEPT !.failed = n, !.state = "waiting"]
                     IN  i \in Job /\ i.event = j.event /\ i.channel = j.channel
          BY <1>0 DEF Job
        <5>4. k = [j EXCEPT !.failed = j.failed + 1, !.state = "waiting"]
          BY <5>2, Zenon
        <5> HIDE DEF k, next
        <5> QED
          BY <5>1, <5>3, <5>4
      <4>2. CASE fault = "stalled"
        <5>1. j.stalled + 1 \in Nat
          BY <1>0 DEF Job
        <5>2. next = [j EXCEPT !.stalled = j.stalled + 1]
          BY <4>2, Zenon
        <5>3. ASSUME NEW n \in Nat
              PROVE  LET i == [j EXCEPT !.stalled = n, !.state = "waiting"]
                     IN  i \in Job /\ i.event = j.event /\ i.channel = j.channel
          BY <1>0 DEF Job
        <5>4. k = [j EXCEPT !.stalled = j.stalled + 1, !.state = "waiting"]
          BY <5>2, Zenon
        <5> HIDE DEF k, next
        <5> QED
          BY <5>1, <5>3, <5>4
      <4> QED
        BY <4>1, <4>2 DEF Faults
    <3>2. jobs' = (jobs \ {j}) \cup {k}
      BY <2>2 DEF Retried
    <3> QED
      BY <3>1, <3>2 DEF GoesOn
  <2> QED
    BY <2>1, <2>2 DEF Fail
<1>3. /\ IsFiniteSet(jobs') /\ jobs' \subseteq Job
      /\ \A k \in jobs' : k.event \in DOMAIN published
      /\ \A e, c : Cardinality(Copies(e, c)') <= Cardinality(Copies(e, c))
  BY <1>2, JobGoesOn
<1>4. /\ faults' \in 0..MaxFaults
      /\ hits' \in Seq([Channels -> Nat]) /\ Len(hits') = Len(hits)
      /\ \A d \in DOMAIN published, c \in Channels :
           hits'[d][c] = hits[d][c] + (IF d = j.event /\ c \in {j.channel} THEN 1 ELSE 0)
  BY <1>0, <1>1, HitCounts
<1>5. /\ inbox' \subseteq Row
      /\ sent' \in Seq([Channels -> Nat]) /\ Len(sent') = Len(sent)
      /\ \A d \in DOMAIN published, c \in Channels :
           \/ sent'[d][c] = sent[d][c]
           \/ sent'[d][c] = sent[d][c] + 1 /\ d = j.event /\ c = j.channel
  <2>1. CASE UNCHANGED <<inbox, sent>>
    BY <2>1 DEF NewsTrue, NotificationsTypeOK
  <2>2. CASE Reach(j)
    <3>1. \A d \in DOMAIN published, c \in Channels : sent[d][c] \in Nat
      BY NewsTypes
    <3>2. /\ inbox' \subseteq Row
          /\ sent' \in Seq([Channels -> Nat]) /\ Len(sent') = Len(sent)
          /\ \A d \in DOMAIN published, c \in Channels :
               sent'[d][c] = sent[d][c] + (IF d = j.event /\ c = j.channel THEN 1 ELSE 0)
      BY <2>2, ReachCounts
    <3> QED
      BY <3>1, <3>2
  <2> QED
    BY <2>1, <2>2 DEF Fail
<1>6. NotificationsTypeOK'
  BY <1>1, <1>3, <1>4, <1>5 DEF NewsTrue, NotificationsTypeOK
<1>7. ASSUME NEW e \in DOMAIN published, NEW c \in Channels
      PROVE  \E made, done, ended, failed \in Int :
             /\ Cardinality(Copies(e, c)') <= Cardinality(Copies(e, c)) + made
             /\ sent'[e][c] = sent[e][c] + done
             /\ Queued(e)' = Queued(e) - ended
             /\ hits'[e][c] = hits[e][c] + failed
             /\ made + done <= ended + failed
  <2>1. sent[e][c] \in Nat /\ hits[e][c] \in Nat /\ Cardinality(Copies(e, c)) \in Nat
    BY NewsTypes
  <2> DEFINE n == IF e = j.event /\ c = j.channel THEN 1 ELSE 0
             s == sent'[e][c] - sent[e][c]
  <2>2. Cardinality(Copies(e, c)') <= Cardinality(Copies(e, c)) + 0 /\ n \in Int
    BY <1>3, <2>1
  <2>3. Queued(e)' = Queued(e) - 0
    BY <1>1 DEF Queued
  <2>4. hits'[e][c] = hits[e][c] + n
    BY <1>4
  <2>5. sent'[e][c] = sent[e][c] + s /\ s \in Int /\ s <= n
    BY <1>5, <2>1
  <2> HIDE DEF n, s
  <2>6. 0 + s <= 0 + n
    BY <2>2, <2>5
  <2> QED
    BY <2>2, <2>3, <2>4, <2>5, <2>6
<1> QED
  BY <1>1, <1>3, <1>4, <1>5, <1>6, <1>7, Accounted

\* A delivery uses up its copy.
LEMMA SendStep ==
  ASSUME NewsTrue, NEW j \in jobs, Send(j)
  PROVE  NewsTrue'
<1>1. /\ Reach(j) /\ jobs' = jobs \ {j}
      /\ UNCHANGED <<blocks, published, queue, hits, faults>>
  BY DEF Send
<1>2. /\ inbox' \subseteq Row
      /\ sent' \in Seq([Channels -> Nat]) /\ Len(sent') = Len(sent)
      /\ \A d \in DOMAIN published, c \in Channels :
           sent'[d][c] = sent[d][c] + (IF d = j.event /\ c = j.channel THEN 1 ELSE 0)
  BY <1>1, ReachCounts
<1>3. /\ IsFiniteSet(jobs')
      /\ \A e, c : Cardinality(Copies(e, c)') =
                     IF e = j.event /\ c = j.channel THEN Cardinality(Copies(e, c)) - 1
                                                     ELSE Cardinality(Copies(e, c))
  BY <1>1, NewsTypes, CopyDone
<1>4. jobs' \subseteq Job /\ \A k \in jobs' : k.event \in DOMAIN published
  BY <1>1, NewsTypes
<1>5. NotificationsTypeOK'
  BY <1>1, <1>2, <1>4 DEF NewsTrue, NotificationsTypeOK
<1>6. ASSUME NEW e \in DOMAIN published, NEW c \in Channels
      PROVE  \E made, done, ended, failed \in Int :
             /\ Cardinality(Copies(e, c)') <= Cardinality(Copies(e, c)) + made
             /\ sent'[e][c] = sent[e][c] + done
             /\ Queued(e)' = Queued(e) - ended
             /\ hits'[e][c] = hits[e][c] + failed
             /\ made + done <= ended + failed
  <2>1. sent[e][c] \in Nat /\ hits[e][c] \in Nat /\ Cardinality(Copies(e, c)) \in Nat
    BY NewsTypes
  <2> DEFINE n == IF e = j.event /\ c = j.channel THEN 1 ELSE 0
             m == 0 - n
  <2>2. /\ Cardinality(Copies(e, c)') <= Cardinality(Copies(e, c)) + m
        /\ n \in Int /\ m \in Int /\ m + n <= 0 + 0
    BY <1>3, <2>1
  <2>3. Queued(e)' = Queued(e) - 0
    BY <1>1 DEF Queued
  <2>4. hits'[e][c] = hits[e][c] + 0 /\ sent'[e][c] = sent[e][c] + n
    BY <1>1, <1>2, <2>1
  <2> HIDE DEF n, m
  <2> QED
    BY <2>2, <2>3, <2>4
<1> QED
  BY <1>1, <1>2, <1>3, <1>4, <1>5, <1>6, Accounted

\* Nothing is published, queued, started or sent.
LEMMA NewsKept ==
  ASSUME NewsTrue, blocks' \subseteq Users \X Users, inbox' \subseteq Row,
         UNCHANGED <<published, queue, jobs, sent, hits, faults>>
  PROVE  NewsTrue'
<1>1. NotificationsTypeOK'
  BY DEF NewsTrue, NotificationsTypeOK
<1>2. CopiesBounded'
  BY DEF NewsTrue, CopiesBounded, Copies, Queued
<1> QED
  BY <1>1, <1>2 DEF NewsTrue

LEMMA MarkReadStep ==
  ASSUME NewsTrue, NEW u \in Users, MarkRead(u)
  PROVE  NewsTrue'
<1>1. inbox \subseteq Row /\ blocks \subseteq Users \X Users
  BY DEF NewsTrue, NotificationsTypeOK
<1>2. \A row \in Row : [row EXCEPT !.read = TRUE] \in Row
  BY DEF Row
<1>3. PICK rows \in SUBSET inbox :
        inbox' = (inbox \ rows) \cup {[row EXCEPT !.read = TRUE] : row \in rows}
  BY DEF MarkRead
<1>4. inbox' \subseteq Row
  BY <1>1, <1>2, <1>3
<1> QED
  BY <1>1, <1>4, NewsKept DEF MarkRead

LEMMA DeleteExpiredStep ==
  ASSUME NewsTrue, NEW row \in inbox, DeleteExpired(row)
  PROVE  NewsTrue'
<1>1. inbox' \subseteq Row /\ blocks' \subseteq Users \X Users
  BY DEF NewsTrue, NotificationsTypeOK, DeleteExpired
<1> QED
  BY <1>1, NewsKept DEF DeleteExpired

\* What is published is queued once and was not sent.
LEMMA PublishStep ==
  ASSUME NewsTrue, NEW events \in Seq(Event), Publish(events),
         UNCHANGED <<blocks, jobs, inbox, faults>>
  PROVE  NewsTrue'
<1> DEFINE n == Len(published)
           m == Len(events)
           zero == [i \in DOMAIN events |-> [c \in Channels |-> 0]]
<1>1. /\ published \in Seq(Event) /\ sent \in Seq([Channels -> Nat])
      /\ hits \in Seq([Channels -> Nat]) /\ Len(hits) = n
      /\ Len(sent) = n /\ n \in Nat /\ DOMAIN published = 1..n
  BY NewsTypes DEF NewsTrue, NotificationsTypeOK
<1>2. m \in Nat /\ DOMAIN events = 1..m
  BY LenProperties
<1>3. /\ published' \in Seq(Event) /\ Len(published') = n + m
      /\ DOMAIN published' = 1..(n + m)
  <2>1. published' \in Seq(Event) /\ Len(published') = n + m
    BY <1>1, ConcatProperties DEF Publish
  <2> QED
    BY <2>1, LenProperties
<1>4. zero \in Seq([Channels -> Nat]) /\ Len(zero) = m
  <2>1. zero \in [1..m -> [Channels -> Nat]]
    BY <1>2
  <2>2. zero \in Seq([Channels -> Nat])
    BY <1>2, <2>1
  <2>3. DOMAIN zero = 1..Len(zero) /\ Len(zero) \in Nat
    BY <2>2, LenProperties
  <2> QED
    BY <1>2, <2>1, <2>2, <2>3
<1>5. \A i \in 1..m : zero[i] = [c \in Channels |-> 0]
  BY <1>2
<1> HIDE DEF zero
<1> DEFINE T == [Channels -> Nat]
<1>6. ASSUME NEW s \in Seq(T), Len(s) = n
       PROVE  /\ s \o zero \in Seq(T) /\ Len(s \o zero) = n + m
              /\ \A i \in 1..(n + m) : (s \o zero)[i] = IF i <= n THEN s[i] ELSE zero[i - n]
  <2>1. zero \in Seq(T)
    BY <1>4
  <2> HIDE DEF T
  <2>2. /\ s \o zero \in Seq(T) /\ Len(s \o zero) = Len(s) + Len(zero)
        /\ \A i \in 1..(Len(s) + Len(zero)) :
             (s \o zero)[i] = IF i <= Len(s) THEN s[i] ELSE zero[i - Len(s)]
    BY <2>1, ConcatProperties
  <2> QED
    BY <1>4, <1>6, <2>2
<1>7. /\ sent' \in Seq(T) /\ Len(sent') = n + m
      /\ \A i \in 1..(n + m) : sent'[i] = IF i <= n THEN sent[i] ELSE zero[i - n]
      /\ hits' \in Seq(T) /\ Len(hits') = n + m
      /\ \A i \in 1..(n + m) : hits'[i] = IF i <= n THEN hits[i] ELSE zero[i - n]
  <2>1. sent' = sent \o zero /\ hits' = hits \o zero
    BY DEF Publish, zero
  <2> QED
    BY <1>1, <1>6, <2>1
<1>8. queue' = queue \cup (n + 1)..(n + m)
  BY DEF Publish
<1> HIDE DEF n, m
<1>9. queue' \subseteq DOMAIN published'
  BY <1>1, <1>2, <1>3, <1>8 DEF NewsTrue, NotificationsTypeOK
<1>10. NotificationsTypeOK'
  BY <1>3, <1>7, <1>9 DEF NewsTrue, NotificationsTypeOK
<1>11. \A j \in jobs : j.event \in DOMAIN published'
  BY <1>1, <1>2, <1>3, NewsTypes
<1>12. CopiesBounded'
  <2> SUFFICES ASSUME NEW e \in 1..(n + m), NEW c \in Channels
               PROVE  sent'[e][c] + Cardinality(Copies(e, c)) + Queued(e)' <= 1 + hits'[e][c]
    BY <1>3 DEF CopiesBounded, Copies
  <2>1. CASE e <= n
    <3>0. e \in 1..n /\ e \notin (n + 1)..(n + m)
      BY <1>1, <1>2, <2>1
    <3>1. e \in DOMAIN published /\ sent'[e] = sent[e] /\ hits'[e] = hits[e] /\ Queued(e)' = Queued(e)
      BY <1>1, <1>7, <1>8, <2>1, <3>0 DEF Queued
    <3> QED
      BY <3>1 DEF NewsTrue, CopiesBounded
  <2>2. CASE ~(e <= n)
    <3>0. e - n \in 1..m
      BY <1>1, <1>2, <2>2
    <3>1. sent'[e][c] = 0 /\ hits'[e][c] = 0
      <4>1. sent'[e] = zero[e - n] /\ hits'[e] = zero[e - n] /\ zero[e - n] = [d \in Channels |-> 0]
        BY <1>5, <1>7, <2>2, <3>0
      <4> QED
        BY <4>1
    <3>2. Copies(e, c) = {}
      BY <1>1, <2>2, NewsTypes DEF Copies
    <3>3. Cardinality(Copies(e, c)) = 0
      BY <3>2, FS_EmptySet
    <3>4. Queued(e)' \in {0, 1}
      BY DEF Queued
    <3> QED
      BY <3>1, <3>3, <3>4
  <2> QED
    BY <2>1, <2>2
<1> QED
  BY <1>3, <1>7, <1>10, <1>11, <1>12 DEF NewsTrue

\* The events of a request are to the parties it is news to.
LEMMA NewsOfRequest ==
  ASSUME NEW r, ValidRequest(r), r.op \in {"follow", "transfer", "react", "comment"}
  PROVE  News(r) \in Seq(Event)
<1> DEFINE told == IF r.op \in {"react", "comment"} THEN Others(r.user, r.post) ELSE <<r.other>>
           named(u) ==
             CASE r.op = "follow"   -> [type |-> "new_follower", key |-> <<r.user, u>>]
               [] r.op = "react"    -> [type |-> "post_reaction", key |-> <<r.post, r.user>>]
               [] r.op = "comment"  -> [type |-> "post_comment", key |-> <<r.post, r.user, r.number>>]
               [] r.op = "transfer" -> [type |-> "transfer_received", key |-> <<r.post>>]
<1>1. r.user \in Users /\ \A u \in Users : u \in Nat
  BY NotificationsAssumption DEF ValidRequest
<1>2. told \in Seq(Users)
  <2>1. CASE r.op \in {"react", "comment"}
    BY <1>1, <2>1, OthersSorted DEF ValidRequest
  <2>2. CASE r.op \in {"follow", "transfer"}
    <3>1. r.other \in Users
      BY <2>2 DEF ValidRequest
    <3> QED
      BY <2>2, <3>1
  <2> QED
    BY <2>1, <2>2
<1>3. ASSUME NEW u \in Users
      PROVE  named(u).type \in Types /\ named(u).key \in Seq(Nat)
  <2>1. CASE r.op = "follow"
    BY <1>1, <2>1 DEF Types
  <2>2. CASE r.op = "react"
    <3>1. r.post \in Nat
      BY <2>2, PostParties DEF ValidRequest
    <3>2. <<r.post, r.user>> \in Seq(Nat)
      BY <1>1, <3>1
    <3>3. named(u) = [type |-> "post_reaction", key |-> <<r.post, r.user>>]
      BY <2>2
    <3> QED
      BY <3>2, <3>3 DEF Types
  <2>3. CASE r.op = "comment"
    <3>1. r.post \in Nat /\ r.number \in Nat
      BY <2>3, PostParties DEF ValidRequest
    <3>2. <<r.post, r.user, r.number>> \in Seq(Nat)
      BY <1>1, <3>1
    <3>3. named(u) = [type |-> "post_comment", key |-> <<r.post, r.user, r.number>>]
      BY <2>3
    <3> QED
      BY <3>2, <3>3 DEF Types
  <2>4. CASE r.op = "transfer"
    <3>1. r.post \in Nat
      BY <2>4, PostParties DEF ValidRequest
    <3>2. <<r.post>> \in Seq(Nat)
      BY <1>1, <3>1
    <3>3. named(u) = [type |-> "transfer_received", key |-> <<r.post>>]
      BY <2>4
    <3> QED
      BY <3>2, <3>3 DEF Types
  <2> QED
    BY <2>1, <2>2, <2>3, <2>4
<1>4. News(r) = [i \in DOMAIN told |-> [type |-> named(told[i]).type, to |-> told[i],
                                        from |-> r.user, key |-> named(told[i]).key]]
  BY DEF News
<1> HIDE DEF told, named
<1>5. Len(told) \in Nat /\ DOMAIN told = 1..Len(told) /\ \A i \in 1..Len(told) : told[i] \in Users
  BY <1>2, LenProperties, ElementOfSeq
<1>6. ASSUME NEW i \in 1..Len(told)
      PROVE  [type |-> named(told[i]).type, to |-> told[i],
              from |-> r.user, key |-> named(told[i]).key] \in Event
  BY <1>1, <1>3, <1>5 DEF Event
<1> QED
  BY <1>4, <1>5, <1>6

-----------------------------------------------------------------------------
(* The steps *)

\* No step without news of its own, and with no new block, disturbs the news.
LEMMA QuietStep ==
  ASSUME Inv, UNCHANGED <<published, delivery>>, blocks' \subseteq blocks
  PROVE  NewsTrue' /\ NoSelfBlock'
<1>1. inbox' \subseteq Row /\ blocks' \subseteq Users \X Users
  BY DEF Inv, NewsTrue, NotificationsTypeOK, delivery
<1>2. NewsTrue'
  BY <1>1, NewsKept DEF Inv, delivery
<1> QED
  BY <1>2 DEF Inv, NoSelfBlock

\* A follow is written while the pair's lock keeps a block out.
LEMMA FollowStep ==
  ASSUME Inv, NEW w \in Workers, Follow(w)
  PROVE  Inv'
<1> DEFINE r == Asked(w)
           edge == <<r.user, r.other>>
<1>1. /\ job[w].pc = "write" /\ r.op = "follow" /\ follows' = follows \cup {edge}
      /\ Commit(w, edge \notin follows)
      /\ UNCHANGED <<blocks, published, delivery, posts, reactions, comments, requests>>
  BY DEF Follow, At
<1>2. r.user \in Users /\ r.other \in Users /\ ~IsBlockedBetween(r.user, r.other)
  BY <1>1, Locking DEF Inv, ValidRequest, JobKnows, Unblocked, Asked
<1>3. JobsTrue'
  BY <1>1, CommitStep DEF Inv, At
<1>4. NewsTrue' /\ NoSelfBlock'
  BY <1>1, QuietStep
<1> HIDE DEF r
<1>5. BlockEndsTies'
  BY <1>1, <1>2 DEF Inv, BlockEndsTies, IsBlockedBetween
<1>6. SocialTypeOK'
  BY <1>1, <1>2, <1>4 DEF Inv, NewsTrue, SocialTypeOK
<1> QED
  BY <1>1, <1>3, <1>4, <1>5, <1>6 DEF Inv, Comment, AllRequests

\* The other writes of a request leave the follows and blocks alone.
LEMMA TiesKept ==
  ASSUME Inv, blocks' \subseteq blocks, follows' \subseteq follows,
         NewsTrue', reactions' \subseteq Posts \X Users
  PROVE  BlockEndsTies' /\ SocialTypeOK'
<1>1. BlockEndsTies'
  BY DEF Inv, BlockEndsTies, IsBlockedBetween
<1>2. SocialTypeOK'
  BY DEF Inv, NewsTrue, SocialTypeOK
<1> QED
  BY <1>1, <1>2

LEMMA RecordTransferPostStep ==
  ASSUME Inv, NEW w \in Workers, RecordTransferPost(w)
  PROVE  Inv'
<1>1. /\ At(w, "write") /\ Asked(w).op = "transfer" /\ Commit(w, TRUE)
      /\ UNCHANGED <<blocks, published, delivery, follows, reactions, comments, requests>>
  BY DEF RecordTransferPost
<1>2. JobsTrue'
  BY <1>1, CommitStep DEF Inv
<1>3. NewsTrue' /\ NoSelfBlock'
  BY <1>1, QuietStep
<1>4. BlockEndsTies' /\ SocialTypeOK'
  BY <1>1, <1>3, TiesKept DEF Inv, SocialTypeOK
<1> QED
  BY <1>1, <1>2, <1>3, <1>4 DEF Inv, Comment, AllRequests

LEMMA SetReactionStep ==
  ASSUME Inv, NEW w \in Workers, SetReaction(w)
  PROVE  Inv'
<1> DEFINE mark == <<Asked(w).post, Asked(w).user>>
<1>1. /\ At(w, "write") /\ Asked(w).op = "react" /\ Commit(w, mark \notin reactions)
      /\ reactions' = reactions \cup {mark}
      /\ UNCHANGED <<blocks, published, delivery, follows, comments, requests>>
  BY DEF SetReaction
<1>2. mark \in Posts \X Users
  BY <1>1, Locking DEF Inv, ValidRequest, At
<1>3. JobsTrue'
  BY <1>1, CommitStep DEF Inv
<1>4. NewsTrue' /\ NoSelfBlock'
  BY <1>1, QuietStep
<1>5. BlockEndsTies' /\ SocialTypeOK'
  BY <1>1, <1>2, <1>4, TiesKept DEF Inv, SocialTypeOK
<1> QED
  BY <1>1, <1>3, <1>4, <1>5 DEF Inv, Comment, AllRequests

LEMMA AddCommentStep ==
  ASSUME Inv, NEW w \in Workers, AddComment(w)
  PROVE  Inv'
<1> DEFINE made == [post |-> Asked(w).post, author |-> Asked(w).user,
                    id |-> Asked(w).number, deleted |-> FALSE]
<1>1. /\ At(w, "write") /\ Asked(w).op = "comment" /\ Commit(w, TRUE)
      /\ comments' = comments \cup {made}
      /\ UNCHANGED <<blocks, published, delivery, follows, reactions, requests>>
  BY DEF AddComment
<1>2. made \in Comment
  <2>1. Asked(w).post \in Posts /\ Asked(w).user \in Users /\ Asked(w).number \in Nat
    BY <1>1, Locking DEF Inv, ValidRequest, At
  <2> QED
    BY <2>1 DEF Comment
<1>3. JobsTrue'
  BY <1>1, CommitStep DEF Inv
<1>4. NewsTrue' /\ NoSelfBlock'
  BY <1>1, QuietStep
<1>5. BlockEndsTies' /\ SocialTypeOK'
  BY <1>1, <1>4, TiesKept DEF Inv, SocialTypeOK
<1>6. comments' \subseteq Comment
  BY <1>1, <1>2 DEF Inv
<1> QED
  BY <1>1, <1>3, <1>4, <1>5, <1>6 DEF Inv, Comment, AllRequests

LEMMA BlockKeepsInv ==
  ASSUME Inv, NEW w \in Workers, Block(w)
  PROVE  Inv'
<1>1. /\ job[w].pc = "write" /\ Asked(w).op = "block"
      /\ blocks' = blocks \cup {<<Asked(w).user, Asked(w).other>>}
      /\ follows' \subseteq follows
      /\ UNCHANGED <<published, delivery, reactions, comments, requests>>
  BY DEF Block, At
<1>2. <<Asked(w).user, Asked(w).other>> \in Users \X Users
  BY <1>1, Locking DEF Inv, ValidRequest
<1>3. JobsTrue' /\ NoSelfBlock' /\ BlockEndsTies'
  BY BlockStep DEF Inv
<1>4. NewsTrue'
  <2>1. inbox' \subseteq Row /\ blocks' \subseteq Users \X Users
    BY <1>1, <1>2 DEF Inv, NewsTrue, NotificationsTypeOK, delivery
  <2> QED
    BY <1>1, <2>1, NewsKept DEF Inv, delivery
<1>5. SocialTypeOK'
  BY <1>1, <1>4 DEF Inv, NewsTrue, SocialTypeOK
<1> QED
  BY <1>1, <1>3, <1>4, <1>5 DEF Inv, Comment, AllRequests

LEMMA PublishNewsStep ==
  ASSUME Inv, NEW w \in Workers, PublishNews(w)
  PROVE  Inv'
<1> DEFINE news == News(Asked(w))
<1>1. PICK n \in 0..Len(news) : Publish(SubSeq(news, 1, n))
  BY DEF PublishNews
<1>2. /\ job[w].pc = "publish" /\ End(w)
      /\ UNCHANGED <<blocks, jobs, inbox, faults, tables, requests>>
  BY DEF PublishNews, At
<1>3. news \in Seq(Event)
  <2>1. /\ Asked(w) \in LockingRequests /\ ValidRequest(Asked(w)) /\ Asked(w).op # "block"
    BY <1>2, Locking DEF Inv
  <2> QED
    BY <2>1, NewsOfRequest DEF LockingRequests
<1> HIDE DEF news
<1>4. SubSeq(news, 1, n) \in Seq(Event)
  <2>1. Len(news) \in Nat /\ n \in Int /\ \A i \in 1..n : news[i] \in Event
    BY <1>3, LenProperties, ElementOfSeq
  <2> QED
    BY <2>1, SubSeqProperties
<1>5. NewsTrue'
  BY <1>1, <1>2, <1>4, PublishStep DEF Inv
<1>6. JobsTrue'
  BY <1>2, EndStep DEF Inv
<1>7. BlockEndsTies' /\ SocialTypeOK'
  BY <1>2, <1>5, TiesKept DEF Inv, SocialTypeOK, tables
<1> QED
  BY <1>2, <1>5, <1>6, <1>7 DEF Inv, Comment, AllRequests, tables, NoSelfBlock

LEMMA ReloadPostStep ==
  ASSUME Inv, NEW w \in Workers, ReloadPost(w)
  PROVE  Inv'
<1>1. UNCHANGED <<blocks, published, delivery, tables, requests>>
  BY DEF ReloadPost
<1>2. JobsTrue'
  <2>1. /\ job' = [job EXCEPT ![w] = job'[w]] /\ job'[w].pc = "savePost" /\ job'[w].held = {}
    BY DEF ReloadPost, Inv, JobsTrue
  <2>2. JobTyped(job[w])' /\ JobLocks(job[w])' /\ JobKnows(job[w])'
    BY <2>1 DEF JobTyped, JobLocks, JobKnows
  <2> QED
    BY <1>1, <2>1, <2>2, OneWorker DEF Inv
<1>3. NewsTrue' /\ NoSelfBlock'
  BY <1>1, QuietStep
<1>4. BlockEndsTies' /\ SocialTypeOK'
  BY <1>1, <1>3, TiesKept DEF Inv, SocialTypeOK, tables
<1> QED
  BY <1>1, <1>2, <1>3, <1>4 DEF Inv, Comment, AllRequests, tables

LEMMA SavePostStep ==
  ASSUME Inv, NEW w \in Workers, SavePost(w)
  PROVE  Inv'
<1>1. /\ End(w)
      /\ UNCHANGED <<blocks, published, delivery, follows, reactions, comments, requests>>
  BY DEF SavePost
<1>2. JobsTrue'
  BY <1>1, EndStep DEF Inv
<1>3. NewsTrue' /\ NoSelfBlock'
  BY <1>1, QuietStep
<1>4. BlockEndsTies' /\ SocialTypeOK'
  BY <1>1, <1>3, TiesKept DEF Inv, SocialTypeOK
<1> QED
  BY <1>1, <1>2, <1>3, <1>4 DEF Inv, Comment, AllRequests

\* Starting, locking and checking write no table.
LEMMA RequestStep ==
  ASSUME Inv, NEW w \in Workers, Begin(w) \/ Lock(w) \/ Check(w)
  PROVE  Inv'
<1>1. UNCHANGED <<blocks, published, delivery, tables>>
  BY DEF Begin, Lock, Check
<1>2. JobsTrue' /\ requests' \subseteq AllRequests
  <2>1. CASE Begin(w)
    BY <2>1, BeginStep DEF Inv
  <2>2. CASE Lock(w)
    BY <2>2, LockStep DEF Inv, Lock
  <2>3. CASE Check(w)
    BY <2>3, CheckStep DEF Inv, Check
  <2> QED
    BY <2>1, <2>2, <2>3
<1>3. NewsTrue' /\ NoSelfBlock'
  BY <1>1, QuietStep
<1>4. BlockEndsTies' /\ SocialTypeOK'
  BY <1>1, <1>3, TiesKept DEF Inv, SocialTypeOK, tables
<1> QED
  BY <1>1, <1>2, <1>3, <1>4 DEF Inv, Comment, AllRequests, tables

\* The requests that are one statement only take away, or mark a comment.
LEMMA StatementStep ==
  ASSUME Inv, Unfollow \/ Unblock \/ RemoveReaction \/ DeleteComment
  PROVE  /\ Inv'
         /\ reactions' \subseteq reactions
         /\ \A c \in comments' \ comments : c.deleted
<1>1. /\ UNCHANGED <<published, delivery, job>> /\ blocks' \subseteq blocks
      /\ follows' \subseteq follows /\ reactions' \subseteq reactions
  BY DEF Unfollow, Unblock, RemoveReaction, DeleteComment, tables
<1>2. requests' \subseteq requests
  BY DEF Unfollow, Unblock, RemoveReaction, DeleteComment, Ask
<1>3. comments' \subseteq Comment /\ \A c \in comments' \ comments : c.deleted
  <2>1. comments \subseteq Comment
    BY DEF Inv
  <2>2. \A c \in Comment : [c EXCEPT !.deleted = TRUE] \in Comment
                           /\ [c EXCEPT !.deleted = TRUE].deleted = TRUE
    BY DEF Comment
  <2>3. CASE UNCHANGED comments
    BY <2>1, <2>3
  <2>4. CASE DeleteComment
    <3>1. \A c \in comments' : c \in comments
             \/ \E d \in comments : c = [d EXCEPT !.deleted = TRUE]
      BY <2>4 DEF DeleteComment
    <3> QED
      BY <2>1, <2>2, <3>1
  <2> QED
    BY <2>3, <2>4 DEF Unfollow, Unblock, RemoveReaction, tables
<1>4. JobsTrue'
  BY <1>1, NoWorker DEF Inv
<1>5. NewsTrue' /\ NoSelfBlock'
  BY <1>1, QuietStep
<1>6. BlockEndsTies' /\ SocialTypeOK'
  <2>1. reactions' \subseteq Posts \X Users
    BY <1>1 DEF Inv, SocialTypeOK
  <2> QED
    BY <1>1, <1>5, <2>1, TiesKept
<1> QED
  BY <1>1, <1>2, <1>3, <1>4, <1>5, <1>6 DEF Inv, Comment, AllRequests

LEMMA NewsStep ==
  ASSUME Inv, Dispatch \/ Inbox
  PROVE  Inv'
<1>1. UNCHANGED <<tables, job, requests>>
  BY DEF Dispatch, Inbox
<1>2. UNCHANGED blocks
  BY DEF Dispatch, Inbox, Deliver, ProcessEvent, FailEvent, CheckBlock, Send, Fail,
         MarkRead, DeleteExpired
<1>3. NewsTrue
  BY DEF Inv
<1>4. NewsTrue'
  <2>1. CASE Dispatch
    <3>1. CASE \E e \in queue : ProcessEvent(e)
      BY <1>3, <3>1, ProcessStep
    <3>2. CASE \E e \in queue, fault \in Faults : FailEvent(e, fault)
      BY <1>3, <3>2, FailEventStep
    <3>3. ASSUME NEW j \in jobs, CheckBlock(j) \/ Send(j)
          PROVE  NewsTrue'
      BY <1>3, <3>3, CheckBlockStep, SendStep
    <3>4. ASSUME NEW j \in jobs, NEW fault \in Faults, Fail(j, fault)
          PROVE  NewsTrue'
      BY <1>3, <3>4, FailStep
    <3> QED
      BY <2>1, <3>1, <3>2, <3>3, <3>4 DEF Dispatch, Deliver
  <2>2. CASE Inbox
    BY <1>3, <2>2, MarkReadStep, DeleteExpiredStep DEF Inbox
  <2> QED
    BY <2>1, <2>2
<1>5. JobsTrue'
  BY <1>1, <1>2, NoWorker DEF Inv
<1>6. BlockEndsTies' /\ SocialTypeOK'
  BY <1>1, <1>2, <1>4, TiesKept DEF Inv, SocialTypeOK, tables
<1> QED
  BY <1>1, <1>2, <1>4, <1>5, <1>6 DEF Inv, Comment, AllRequests, tables, NoSelfBlock

LEMMA StutterStep ==
  ASSUME Inv, UNCHANGED vars
  PROVE  Inv'
<1>1. UNCHANGED <<blocks, published, delivery, tables, job, requests>>
  BY DEF vars, delivery, tables
<1>2. NewsTrue' /\ NoSelfBlock'
  BY <1>1, QuietStep
<1>3. JobsTrue'
  BY <1>1, NoWorker DEF Inv
<1>4. BlockEndsTies' /\ SocialTypeOK'
  BY <1>1, <1>2, TiesKept DEF Inv, SocialTypeOK, tables
<1> QED
  BY <1>1, <1>2, <1>3, <1>4 DEF Inv, Comment, AllRequests, tables

LEMMA InvInit == Init => Inv
<1> SUFFICES ASSUME Init PROVE Inv
  OBVIOUS
<1>1. /\ published = <<>> /\ queue = {} /\ jobs = {} /\ inbox = {} /\ sent = <<>>
      /\ hits = <<>> /\ faults = 0 /\ blocks = {} /\ reactions = {} /\ comments = {}
      /\ follows \in FirstFollows /\ job = [w \in Workers |-> Idle]
  BY DEF Init, NotificationsInit
<1>2. requests \subseteq AllRequests
  BY DEF Init, AllRequests
<1>3. NotificationsTypeOK
  BY <1>1, NotificationsAssumption, EmptySeq DEF NotificationsTypeOK
<1>4. NewsTrue
  <2>1. DOMAIN published = {} /\ IsFiniteSet(jobs)
    BY <1>1, FS_EmptySet
  <2> QED
    BY <1>1, <1>3, <2>1 DEF NewsTrue, CopiesBounded
<1>5. JobsTrue
  BY <1>1 DEF JobsTrue, JobTyped, JobLocks, JobKnows, LocksApart, Idle
<1>6. SocialTypeOK
  BY <1>1, <1>3, SocialAssumption DEF SocialTypeOK
<1>7. NoSelfBlock /\ BlockEndsTies
  BY <1>1 DEF NoSelfBlock, BlockEndsTies, IsBlockedBetween
<1> QED
  BY <1>1, <1>2, <1>4, <1>5, <1>6, <1>7 DEF Inv

LEMMA InvStep == Inv /\ [Next]_vars => Inv'
<1> SUFFICES ASSUME Inv, [Next]_vars PROVE Inv'
  OBVIOUS
<1>1. ASSUME NEW w \in Workers, Begin(w) \/ Work(w)
      PROVE  Inv'
  <2>1. CASE Begin(w) \/ Lock(w) \/ Check(w)
    BY <2>1, RequestStep
  <2>2. CASE Follow(w)
    BY <2>2, FollowStep
  <2>3. CASE Block(w)
    BY <2>3, BlockKeepsInv
  <2>4. CASE RecordTransferPost(w)
    BY <2>4, RecordTransferPostStep
  <2>5. CASE SetReaction(w)
    BY <2>5, SetReactionStep
  <2>6. CASE AddComment(w)
    BY <2>6, AddCommentStep
  <2>7. CASE PublishNews(w)
    BY <2>7, PublishNewsStep
  <2>8. CASE SavePost(w)
    BY <2>8, SavePostStep
  <2>9. CASE ReloadPost(w)
    BY <2>9, ReloadPostStep
  <2> QED
    BY <1>1, <2>1, <2>2, <2>3, <2>4, <2>5, <2>6, <2>7, <2>8, <2>9 DEF Work
<1>2. CASE Unfollow \/ Unblock \/ RemoveReaction \/ DeleteComment
  BY <1>2, StatementStep
<1>3. CASE Dispatch \/ Inbox
  BY <1>3, NewsStep
<1>4. CASE UNCHANGED vars
  BY <1>4, StutterStep
<1> QED
  BY <1>1, <1>2, <1>3, <1>4 DEF Next

\* The invariant holds in every reachable state.
THEOREM InvHolds == Spec => []Inv
<1> QED
  BY InvInit, InvStep, PTL DEF Spec

-----------------------------------------------------------------------------
(* The properties *)

\* However follow and block requests of a pair overlap, no follow outlives a
\* block between the two.
THEOREM TiesEnded == Spec => []BlockEndsTies
<1>1. Inv => BlockEndsTies
  BY DEF Inv
<1> QED
  BY <1>1, InvHolds, PTL

\* However often events and jobs are run again, news reaches a channel again at
\* most once for each fault of the event's job or of its jobs on that channel.
THEOREM ResentSeldom == Spec => []ResentOnlyAfterFault
<1>1. Inv => ResentOnlyAfterFault
  <2> SUFFICES ASSUME Inv, NEW e \in DOMAIN sent, NEW c \in Channels
               PROVE  sent[e][c] <= 1 + hits[e][c]
    BY DEF ResentOnlyAfterFault
  <2>1. NewsTrue
    BY DEF Inv
  <2>2. /\ e \in DOMAIN published /\ sent[e][c] \in Nat /\ hits[e][c] \in Nat
        /\ Cardinality(Copies(e, c)) \in Nat /\ Queued(e) \in {0, 1}
    BY <2>1, NewsTypes DEF Queued
  <2>3. sent[e][c] + Cardinality(Copies(e, c)) + Queued(e) <= 1 + hits[e][c]
    BY <2>1, <2>2 DEF NewsTrue, CopiesBounded
  <2> QED
    BY <2>2, <2>3
<1> QED
  BY <1>1, InvHolds, PTL

\* What a reaction or comment writes, it writes under the locks of its pairs.
LEMMA ContactStep ==
  ASSUME Inv, [Next]_vars, NEW p \in Posts, NEW u \in Users,
         \/ <<p, u>> \in reactions' \ reactions
         \/ \E c \in comments' \ comments : ~c.deleted /\ c.post = p /\ c.author = u
  PROVE  NoBlockWithViewer(u, p)
<1>1. ~(reactions' \subseteq reactions /\ \A c \in comments' \ comments : c.deleted)
  OBVIOUS
<1>2. ~(UNCHANGED <<reactions, comments>>)
  BY <1>1
<1>3. PICK w \in Workers : SetReaction(w) \/ AddComment(w)
  <2>1. ~(Unfollow \/ Unblock \/ RemoveReaction \/ DeleteComment)
    BY <1>1, StatementStep
  <2>2. ~(Dispatch \/ Inbox \/ UNCHANGED vars)
    BY <1>2 DEF Dispatch, Inbox, vars, tables
  <2>3. \A w \in Workers : ~(Begin(w) \/ Lock(w) \/ Check(w) \/ Follow(w) \/ Block(w)
                             \/ RecordTransferPost(w) \/ PublishNews(w) \/ ReloadPost(w)
                             \/ SavePost(w))
    BY <1>2 DEF Begin, Lock, Check, Follow, Block, RecordTransferPost, PublishNews,
                ReloadPost, SavePost,
                tables
  <2> QED
    BY <2>1, <2>2, <2>3 DEF Next, Work
<1>4. /\ job[w].pc = "write" /\ Asked(w).op \in {"react", "comment"}
      /\ Asked(w).user = u /\ Asked(w).post = p
  <2>1. CASE SetReaction(w)
    <3>1. /\ job[w].pc = "write" /\ Asked(w).op = "react" /\ UNCHANGED comments
          /\ reactions' = reactions \cup {<<Asked(w).post, Asked(w).user>>}
      BY <2>1 DEF SetReaction, At
    <3>2. <<p, u>> = <<Asked(w).post, Asked(w).user>>
      BY <3>1
    <3> QED
      BY <3>1, <3>2
  <2>2. CASE AddComment(w)
    <3>1. /\ job[w].pc = "write" /\ Asked(w).op = "comment" /\ UNCHANGED reactions
          /\ comments' = comments \cup {[post |-> Asked(w).post, author |-> Asked(w).user,
                                         id |-> Asked(w).number, deleted |-> FALSE]}
      BY <2>2 DEF AddComment, At
    <3>2. PICK c \in comments' \ comments : c.post = p /\ c.author = u
      BY <3>1
    <3>3. c = [post |-> Asked(w).post, author |-> Asked(w).user,
               id |-> Asked(w).number, deleted |-> FALSE]
      BY <3>1
    <3> QED
      BY <3>1, <3>2, <3>3
  <2> QED
    BY <1>3, <2>1, <2>2
<1> QED
  BY <1>4, Locking DEF Inv, JobKnows, Unblocked, Asked

\* A reaction or comment is committed only while no block stands between its
\* author and either participant of the post.
THEOREM ContactUnblocked == Spec => ContactNeedsNoBlock
<1>1. Inv /\ [Next]_vars =>
        [\A p \in Posts, u \in Users :
           \/ <<p, u>> \in reactions' \ reactions
           \/ \E c \in comments' \ comments : ~c.deleted /\ c.post = p /\ c.author = u
           => NoBlockWithViewer(u, p)]_vars
  BY ContactStep
<1> QED
  BY <1>1, InvHolds, PTL DEF Spec, ContactNeedsNoBlock
=============================================================================
