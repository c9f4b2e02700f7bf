----------------------------- MODULE LimitsProofs ---------------------------
(***************************************************************************)
(* The KYC limits hold for every number of users, references and workers,  *)
(* for colliding lock keys and any limits.  A worker that has passed its   *)
(* check holds its users' locks until it posts, so that no other posting   *)
(* uses up the room it was promised; the order in which the locks are      *)
(* taken does not matter for this.  It matters for deadlocks, at the end.  *)
(***************************************************************************)
EXTENDS Limits, SumTheorems, TLAPS

-----------------------------------------------------------------------------
(* The inductive invariant *)

RowStatus == {"none", "pending", "completed", "failed", "held", "disputed", "reversed"}
Row == [type : {"none", "funding", "p2p_transfer", "withdrawal"}, status : RowStatus,
        amount : Nat, from : 0..NumUsers, to : 0..NumUsers, created : Nat,
        straddles : BOOLEAN, fresh : BOOLEAN, checkout : BOOLEAN, chargedBack : BOOLEAN]
Job == [kind : {"none", "fund", "transfer", "withdrawal", "complete"},
        reference : 0..NumReferences, amount : Nat, from : 0..NumUsers, to : 0..NumUsers,
        began : Nat, straddles : BOOLEAN, verdict : {"none", "completed", "held"}]
Step == {"idle", "lock", "post", "initiate", "record", "fail"}

\* The variables the limits depend on stay in their types.
TypeOK ==
  /\ balance \in [Users -> Int]
  /\ exempt \in [Users -> Nat]
  /\ rows \in [References -> Row]
  /\ job \in [Workers -> Job]
  /\ pc \in [Workers -> Step]
  /\ locks = [w \in Workers |-> locks[w]]
  /\ today \in Nat

\* Money came back to u past the limits, or a funding of u outlived its window.
Disturbed(u) ==
  \/ exempt[u] > 0
  \/ \E late \in References : /\ rows[late].type = "funding"
                              /\ rows[late].to = u
                              /\ ~rows[late].fresh

\* What a row adds to the pending fundings of u, and to its debits of a day.
FundingTerm(r, u) == IF Pending(r) /\ rows[r].to = u /\ rows[r].fresh THEN rows[r].amount ELSE 0
DebitTerm(r, u, day) ==
  IF /\ rows[r].from = u /\ rows[r].created = day /\ ~rows[r].straddles
     /\ rows[r].status # "reversed"
  THEN rows[r].amount ELSE 0

DebitedOn(u, day) == SumUpTo([r \in References |-> DebitTerm(r, u, day)], NumReferences)

RowTrue(r) ==
  /\ rows[r].type = "none" => rows[r] = NoRow
  /\ rows[r].type = "funding" => rows[r].from = Nobody /\ rows[r].to \in Users
  /\ rows[r].type \in {"p2p_transfer", "withdrawal"} =>
       rows[r].from \in Users /\ rows[r].status \in {"pending", "completed", "reversed"}
  /\ rows[r].status = "disputed" => rows[r].type = "funding"
  /\ rows[r].status = "held" => Disturbed(rows[r].to)

\* What user u may have at any time; while nothing disturbed u, the fundings it
\* was granted still fit under the cap.
CapTrue(u) ==
  Cap[u] # Null => /\ balance[u] <= Cap[u] + exempt[u]
                   /\ ~Disturbed(u) => balance[u] + PendingFunding(u) <= Cap[u]

DaysTrue(u) == \A day \in Nat : DebitedOn(u, day) <= DailyLimit[u]

\* What call w was made with.
JobWellFormed(w) ==
  /\ pc[w] \in {"lock", "post"} =>
       \/ /\ job[w].kind = "complete" /\ job[w].reference \in References
          /\ job[w].from = Nobody /\ job[w].to \in Users
          /\ rows[job[w].reference].type = "funding" /\ rows[job[w].reference].to = job[w].to
       \/ /\ job[w].kind \in {"fund", "transfer", "withdrawal"} /\ job[w].reference \in References
          /\ job[w].from # job[w].to
          /\ job[w].kind = "fund" <=> job[w].from = Nobody
          /\ job[w].kind = "withdrawal" <=> job[w].to = Nobody
  /\ pc[w] \in {"initiate", "record", "fail"} =>
       job[w].reference \in References /\ rows[job[w].reference].type = "funding"

\* What call w was promised by its check: room for the credit under the cap and
\* for the debit under the daily limit; and a funding it holds back was
\* disturbed.
JobPromised(w) ==
  LET j == job[w] IN
  At(w, "post") =>
    /\ locks[w] = WantedLocks(j)
    /\ j.to # Nobody /\ Cap[j.to] # Null =>
         /\ j.kind # "complete" \/ j.verdict = "completed" =>
              balance[j.to] + j.amount <= Cap[j.to] + exempt[j.to]
         /\ j.kind # "complete" /\ ~Disturbed(j.to) =>
              balance[j.to] + PendingFunding(j.to) + j.amount <= Cap[j.to]
    /\ j.from # Nobody /\ ~j.straddles =>
         DebitedOn(j.from, j.began) + j.amount <= DailyLimit[j.from]
    /\ j.kind = "complete" /\ j.verdict = "held" /\ Pending(j.reference) =>
         j.amount # rows[j.reference].amount \/ Disturbed(j.to)
    /\ j.kind = "complete" => j.verdict \in {"completed", "held"}

LocksApart == \A v, w \in Workers : v # w => locks[v] \cap locks[w] = {}

Inv ==
  /\ TypeOK
  /\ LocksApart
  /\ \A r \in References : RowTrue(r)
  /\ \A u \in Users : CapTrue(u) /\ DaysTrue(u)
  /\ \A w \in Workers : JobWellFormed(w) /\ JobPromised(w)

-----------------------------------------------------------------------------
(* Sums over the rows *)

\* The terms are naturals.
LEMMA TermsNat ==
  ASSUME TypeOK
  PROVE  \A r \in References, u \in Users :
           FundingTerm(r, u) \in Nat /\ \A day \in Nat : DebitTerm(r, u, day) \in Nat
<1>1. \A r \in References : rows[r].amount \in Nat
  BY DEF TypeOK, Row
<1> QED
  BY <1>1 DEF FundingTerm, DebitTerm

\* Pending fundings are a natural number and count each pending funding.
LEMMA PendingFundingNat ==
  ASSUME TypeOK, NEW u \in Users
  PROVE  /\ PendingFunding(u) \in Int /\ PendingFunding(u) >= 0
         /\ \A r \in References : FundingTerm(r, u) <= PendingFunding(u)
<1> DEFINE f == [r \in References |-> FundingTerm(r, u)]
<1>1. NumReferences \in Nat /\ References = 1..NumReferences
  BY LimitsAssumption DEF References
<1>2. \A r \in References : FundingTerm(r, u) \in Nat
  BY TermsNat, LimitsAssumption
<1>3. f \in [1..NumReferences -> Int] /\ \A i \in 1..NumReferences : f[i] >= 0
  BY <1>1, <1>2
<1>4. PendingFunding(u) = SumUpTo(f, NumReferences)
  BY DEF PendingFunding, FundingTerm
<1>5. \A r \in References : f[r] = FundingTerm(r, u)
  OBVIOUS
<1> HIDE DEF f
<1> QED
  BY <1>1, <1>3, <1>4, <1>5, SumInt, SumNat

\* The debits of a day are an integer.
LEMMA DebitedInt ==
  ASSUME TypeOK, NEW u \in Users, NEW day \in Nat
  PROVE  DebitedOn(u, day) \in Int
<1> DEFINE f == [r \in References |-> DebitTerm(r, u, day)]
<1>1. NumReferences \in Nat /\ References = 1..NumReferences
  BY LimitsAssumption DEF References
<1>2. f \in [1..NumReferences -> Int]
  BY <1>1, TermsNat
<1>3. DebitedOn(u, day) = SumUpTo(f, NumReferences)
  BY DEF DebitedOn
<1> HIDE DEF f
<1> QED
  BY <1>1, <1>2, <1>3, SumInt

\* The same after a step.
LEMMA SumsInt ==
  TypeOK => /\ \A u \in Users : PendingFunding(u) \in Int /\ PendingFunding(u) >= 0
            /\ \A u \in Users, day \in Nat : DebitedOn(u, day) \in Int
BY PendingFundingNat, DebitedInt

LEMMA SumsStayInt ==
  TypeOK' => /\ \A u \in Users : PendingFunding(u)' \in Int /\ PendingFunding(u)' >= 0
             /\ \A u \in Users, day \in Nat : DebitedOn(u, day)' \in Int
<1>1. TypeOK' => (/\ \A u \in Users : PendingFunding(u) \in Int /\ PendingFunding(u) >= 0
                 /\ \A u \in Users, day \in Nat : DebitedOn(u, day) \in Int)'
  BY SumsInt, PTL
<1> QED
  BY <1>1

\* A step that writes one row changes both sums by that row's terms.
LEMMA OneRow ==
  ASSUME TypeOK, TypeOK', NEW k \in References,
         \A r \in References \ {k} : rows'[r] = rows[r]
  PROVE  \A u \in Users :
           /\ PendingFunding(u)' = PendingFunding(u) + (FundingTerm(k, u)' - FundingTerm(k, u))
           /\ \A day \in Nat :
                DebitedOn(u, day)' =
                  DebitedOn(u, day) + (DebitTerm(k, u, day)' - DebitTerm(k, u, day))
<1> TAKE u \in Users
<1>1. NumReferences \in Nat /\ References = 1..NumReferences
  BY LimitsAssumption DEF References
<1>2. \A r \in References :
        FundingTerm(r, u) \in Nat /\ \A day \in Nat : DebitTerm(r, u, day) \in Nat
  BY TermsNat
<1>3. /\ \A r \in References : FundingTerm(r, u)' \in Nat
      /\ \A r \in References, day \in Nat : DebitTerm(r, u, day)' \in Nat
  <2>1. \A r \in References : rows'[r].amount \in Nat
    BY DEF TypeOK, Row
  <2> QED
    BY <2>1 DEF FundingTerm, DebitTerm
<1>4. \A r \in References \ {k} :
        /\ FundingTerm(r, u)' = FundingTerm(r, u)
        /\ \A day \in Nat : DebitTerm(r, u, day)' = DebitTerm(r, u, day)
  BY DEF FundingTerm, DebitTerm, Pending
<1>5. PendingFunding(u)' = PendingFunding(u) + (FundingTerm(k, u)' - FundingTerm(k, u))
  <2> DEFINE f == [r \in References |-> FundingTerm(r, u)]
             g == [r \in References |-> FundingTerm(r, u)']
  <2>1. f \in [1..NumReferences -> Int] /\ g \in [1..NumReferences -> Int]
    <3>1. f \in [References -> Int]
      BY <1>2
    <3>2. g \in [References -> Int]
      BY <1>3
    <3> QED
      BY <1>1, <3>1, <3>2
  <2>2. \A i \in 1..NumReferences : i # k => g[i] = f[i]
    BY <1>1, <1>4
  <2>3. /\ PendingFunding(u) = SumUpTo(f, NumReferences)
        /\ PendingFunding(u)' = SumUpTo(g, NumReferences)
    BY DEF PendingFunding, FundingTerm
  <2>4. f[k] = FundingTerm(k, u) /\ g[k] = FundingTerm(k, u)' /\ k \in 1..NumReferences
    BY <1>1
  <2> HIDE DEF f, g
  <2> QED
    BY <1>1, <2>1, <2>2, <2>3, <2>4, SumChange
<1>6. ASSUME NEW day \in Nat
      PROVE  DebitedOn(u, day)' = DebitedOn(u, day) + (DebitTerm(k, u, day)' - DebitTerm(k, u, day))
  <2> DEFINE f == [r \in References |-> DebitTerm(r, u, day)]
             g == [r \in References |-> DebitTerm(r, u, day)']
  <2>1. f \in [1..NumReferences -> Int] /\ g \in [1..NumReferences -> Int]
    <3>1. f \in [References -> Int]
      BY <1>2
    <3>2. g \in [References -> Int]
      BY <1>3
    <3> QED
      BY <1>1, <3>1, <3>2
  <2>2. \A i \in 1..NumReferences : i # k => g[i] = f[i]
    BY <1>1, <1>4
  <2>3. /\ DebitedOn(u, day) = SumUpTo(f, NumReferences)
        /\ DebitedOn(u, day)' = SumUpTo(g, NumReferences)
    BY DEF DebitedOn
  <2>4. f[k] = DebitTerm(k, u, day) /\ g[k] = DebitTerm(k, u, day)' /\ k \in 1..NumReferences
    BY <1>1
  <2> HIDE DEF f, g
  <2> QED
    BY <1>1, <2>1, <2>2, <2>3, <2>4, SumChange
<1> QED
  BY <1>5, <1>6

\* What checkDailyLimitLocked sums includes the debits of today that count.
LEMMA TodayCounted ==
  ASSUME TypeOK, \A r \in References : RowTrue(r), NEW u \in Users
  PROVE  DebitedOn(u, today) <= DebitedSince(u, today) /\ DebitedSince(u, today) \in Int
<1> DEFINE term(r) == IF /\ rows[r].type \in {"p2p_transfer", "withdrawal"} /\ rows[r].from = u
                         /\ rows[r].status \in {"pending", "completed"}
                         /\ rows[r].created >= today
                      THEN rows[r].amount ELSE 0
           f == [r \in References |-> DebitTerm(r, u, today)]
           g == [r \in References |-> term(r)]
<1>1. NumReferences \in Nat /\ References = 1..NumReferences /\ today \in Nat
  BY LimitsAssumption DEF References, TypeOK
<1>2. ASSUME NEW r \in References PROVE DebitTerm(r, u, today) <= term(r) /\ term(r) \in Nat
  <2>1. rows[r] \in Row /\ RowTrue(r) /\ u # Nobody
    BY DEF TypeOK, Users, Nobody
  <2>2. rows[r].amount \in Nat /\ rows[r].created \in Nat
    BY <2>1 DEF Row
  <2>3. CASE rows[r].from = u /\ rows[r].status # "reversed" /\ rows[r].created = today
    <3>1. /\ rows[r].type \in {"p2p_transfer", "withdrawal"}
          /\ rows[r].status \in {"pending", "completed"}
      BY <2>1, <2>3 DEF RowTrue, Row, NoRow
    <3> QED
      BY <1>1, <2>2, <2>3, <3>1 DEF DebitTerm
  <2>4. CASE ~(rows[r].from = u /\ rows[r].status # "reversed" /\ rows[r].created = today)
    BY <2>2, <2>4 DEF DebitTerm
  <2> QED
    BY <2>3, <2>4
<1>3. f \in [1..NumReferences -> Int]
  BY <1>1, TermsNat
<1>4. g \in [1..NumReferences -> Int] /\ \A i \in 1..NumReferences : f[i] <= g[i]
  <2> HIDE DEF term
  <2> QED BY <1>1, <1>2
<1>5. /\ DebitedOn(u, today) = SumUpTo(f, NumReferences)
      /\ DebitedSince(u, today) = SumUpTo(g, NumReferences)
  BY DEF DebitedOn, DebitedSince
<1> HIDE DEF f, g
<1> QED
  BY <1>1, <1>3, <1>4, <1>5, SumMonotone, SumInt

-----------------------------------------------------------------------------
(* What a step leaves to the others *)

\* A row, once there, keeps its identity and never becomes pending or fresh
\* again.
RowOnward(r) ==
  rows[r].type # "none" =>
    /\ rows'[r].type = rows[r].type /\ rows'[r].to = rows[r].to
    /\ rows'[r].amount = rows[r].amount
    /\ Pending(r)' => Pending(r)
    /\ ~rows[r].fresh => ~rows'[r].fresh

\* The step takes no room under u's cap but what it exempts, and none of u's
\* daily limit.
CapQuiet(u) ==
  /\ balance'[u] - exempt'[u] <= balance[u] - exempt[u]
  /\ ~Disturbed(u)' => balance'[u] + PendingFunding(u)' <= balance[u] + PendingFunding(u)

DaysQuiet(u) == \A day \in Nat : DebitedOn(u, day)' <= DebitedOn(u, day)

\* What disturbed a user is not forgotten.
LEMMA DisturbedStays ==
  ASSUME TypeOK, TypeOK', \A r \in References : RowOnward(r),
         NEW u \in Users, exempt'[u] >= exempt[u]
  PROVE  Disturbed(u) => Disturbed(u)'
<1>1. exempt[u] \in Nat /\ exempt'[u] \in Nat
  BY DEF TypeOK
<1>2. CASE exempt[u] > 0
  BY <1>1, <1>2 DEF Disturbed
<1>3. CASE \E late \in References : /\ rows[late].type = "funding"
                                    /\ rows[late].to = u /\ ~rows[late].fresh
  BY <1>3 DEF Disturbed, RowOnward
<1> QED
  BY <1>2, <1>3 DEF Disturbed

\* A user the step is quiet about keeps within the limits.
LEMMA QuietUser ==
  ASSUME Inv, TypeOK', \A r \in References : RowOnward(r),
         NEW u \in Users, exempt'[u] >= exempt[u]
  PROVE  (CapQuiet(u) => CapTrue(u)') /\ (DaysQuiet(u) => DaysTrue(u)')
<1>1. /\ TypeOK /\ CapTrue(u) /\ DaysTrue(u)
      /\ balance[u] \in Int /\ balance'[u] \in Int /\ exempt[u] \in Nat /\ exempt'[u] \in Nat
  BY DEF Inv, TypeOK
<1>2. /\ PendingFunding(u) \in Int /\ PendingFunding(u)' \in Int
      /\ \A day \in Nat : DebitedOn(u, day) \in Int /\ DebitedOn(u, day)' \in Int
  BY <1>1, SumsInt, SumsStayInt
<1>3. Disturbed(u) => Disturbed(u)'
  BY <1>1, DisturbedStays
<1>4. Cap[u] \in Int /\ DailyLimit[u] \in Int
  BY LimitsAssumption DEF Null
<1>5. CapQuiet(u) => CapTrue(u)'
  BY <1>1, <1>2, <1>3, <1>4 DEF CapQuiet, CapTrue
<1>6. DaysQuiet(u) => DaysTrue(u)'
  BY <1>1, <1>2, <1>4 DEF DaysQuiet, DaysTrue
<1> QED
  BY <1>5, <1>6

\* A call the step is quiet about keeps what it was promised.
LEMMA QuietCall ==
  ASSUME Inv, TypeOK', \A r \in References : RowOnward(r),
         \A u \in Users : exempt'[u] >= exempt[u],
         NEW v \in Workers, job'[v] = job[v], pc'[v] = pc[v], locks'[v] = locks[v],
         \A u \in Users : At(v, "post") /\ job[v].to = u => CapQuiet(u),
         \A u \in Users : At(v, "post") /\ job[v].from = u => DaysQuiet(u)
  PROVE  JobWellFormed(v)' /\ JobPromised(v)'
<1> DEFINE j == job[v]
<1>1. TypeOK /\ JobWellFormed(v) /\ JobPromised(v) /\ j \in Job
  BY DEF Inv, TypeOK
<1>2. j.to \in 0..NumUsers /\ j.from \in 0..NumUsers /\ j.amount \in Nat /\ j.began \in Nat
  BY <1>1 DEF Job
<1>3. (j.to # Nobody => j.to \in Users) /\ (j.from # Nobody => j.from \in Users)
  BY <1>2, LimitsAssumption DEF Users, Nobody
<1>4. JobWellFormed(v)'
  BY <1>1 DEF JobWellFormed, RowOnward
<1>5. CASE ~At(v, "post")
  BY <1>4, <1>5 DEF JobPromised, At
<1>6. CASE At(v, "post")
  <2>1. j.reference \in References /\ (j.kind = "complete" => j.to \in Users
                                         /\ rows[j.reference].type = "funding")
    BY <1>1, <1>6 DEF JobWellFormed, At
  <2>2. ASSUME NEW t \in Users, j.to = t, Cap[t] # Null
        PROVE  /\ j.kind # "complete" \/ j.verdict = "completed" =>
                    balance'[t] + j.amount <= Cap[t] + exempt'[t]
               /\ j.kind # "complete" /\ ~Disturbed(t)' =>
                    balance'[t] + PendingFunding(t)' + j.amount <= Cap[t]
    <3>1. /\ CapQuiet(t) /\ balance[t] \in Int /\ balance'[t] \in Int
          /\ exempt[t] \in Nat /\ exempt'[t] \in Nat /\ exempt'[t] >= exempt[t]
      BY <1>1, <1>6, <2>2 DEF TypeOK, Users, Nobody
    <3>2. PendingFunding(t) \in Int /\ PendingFunding(t)' \in Int /\ Cap[t] \in Int
      BY <1>1, SumsInt, SumsStayInt, LimitsAssumption DEF Null
    <3>3. Disturbed(t) => Disturbed(t)'
      BY <1>1, DisturbedStays
    <3>4. /\ j.kind # "complete" \/ j.verdict = "completed" =>
               balance[t] + j.amount <= Cap[t] + exempt[t]
          /\ j.kind # "complete" /\ ~Disturbed(t) =>
               balance[t] + PendingFunding(t) + j.amount <= Cap[t]
      BY <1>1, <1>6, <2>2 DEF JobPromised, Users, Nobody
    <3> QED
      BY <1>2, <3>1, <3>2, <3>3, <3>4 DEF CapQuiet
  <2>3. ASSUME NEW s \in Users, NEW day \in Nat, j.from = s, j.began = day, ~j.straddles
        PROVE  DebitedOn(s, day)' + j.amount <= DailyLimit[s]
    <3>1. DaysQuiet(s) /\ DebitedOn(s, day) + j.amount <= DailyLimit[s]
      BY <1>1, <1>6, <2>3 DEF JobPromised, Users, Nobody
    <3>2. DebitedOn(s, day) \in Int /\ DebitedOn(s, day)' \in Int /\ DailyLimit[s] \in Int
      BY <1>1, SumsInt, SumsStayInt, LimitsAssumption
    <3> QED
      BY <1>2, <3>1, <3>2 DEF DaysQuiet
  <2>4. ASSUME NEW t \in Users, j.to = t, NEW r \in References, j.reference = r,
               j.kind = "complete", j.verdict = "held", Pending(r)', j.amount = rows'[r].amount
        PROVE  Disturbed(t)'
    <3>1. Pending(r) /\ rows'[r].amount = rows[r].amount
      BY <2>1, <2>4 DEF RowOnward
    <3>2. Disturbed(t)
      BY <1>1, <1>6, <2>4, <3>1 DEF JobPromised
    <3> QED
      BY <1>1, <3>2, DisturbedStays
  <2>5. locks'[v] = WantedLocks(j) /\ (j.kind = "complete" => j.verdict \in {"completed", "held"})
    BY <1>1, <1>6 DEF JobPromised
  <2>6. JobPromised(v)'
    BY <1>2, <1>3, <2>1, <2>2, <2>3, <2>4, <2>5 DEF JobPromised
  <2> QED
    BY <1>4, <2>6
<1> QED
  BY <1>5, <1>6

\* Row k is the only one a step may write.
OnlyRow(k) == \A r \in References \ {k} : rows'[r] = rows[r]

\* Call w is the only one a step may move.
OnlyCall(w) ==
  \A v \in Workers \ {w} : job'[v] = job[v] /\ pc'[v] = pc[v] /\ locks'[v] = locks[v]

NothingTaken == \A u \in Users : exempt'[u] >= exempt[u]

\* The rows that are not written stay true.
LEMMA RowsStayTrue ==
  ASSUME Inv, TypeOK', NothingTaken, \A r \in References : RowOnward(r), NEW k, OnlyRow(k),
         k \in References => RowTrue(k)'
  PROVE  \A r \in References : RowTrue(r)'
<1> SUFFICES ASSUME NEW r \in References, r # k PROVE RowTrue(r)'
  OBVIOUS
<1>1. TypeOK /\ RowTrue(r) /\ rows'[r] = rows[r] /\ rows[r] \in Row
  BY DEF Inv, TypeOK, OnlyRow
<1>2. rows[r].status = "held" => rows[r].to \in Users
  BY <1>1 DEF RowTrue, Row, NoRow
<1>3. ASSUME NEW t \in Users, rows[r].to = t PROVE Disturbed(t) => Disturbed(t)'
  BY <1>1, DisturbedStays DEF NothingTaken
<1>4. rows'[r].status = "held" => Disturbed(rows[r].to)'
  BY <1>1, <1>2, <1>3 DEF RowTrue
<1> QED
  BY <1>1, <1>4 DEF RowTrue

\* Two calls past their checks share no user.
LEMMA UsersApart ==
  ASSUME Inv, NEW v \in Workers, NEW w \in Workers, v # w, At(v, "post"), At(w, "post")
  PROVE  JobUsers(job[v]) \cap JobUsers(job[w]) = {}
<1> SUFFICES ASSUME NEW u \in JobUsers(job[v]), u \in JobUsers(job[w]) PROVE FALSE
  OBVIOUS
<1>1. /\ locks[v] = WantedLocks(job[v])
      /\ locks[w] = WantedLocks(job[w])
      /\ locks[v] \cap locks[w] = {}
  BY DEF Inv, JobPromised, LocksApart
<1>2. UserLock(u) \in WantedLocks(job[v]) /\ UserLock(u) \in WantedLocks(job[w])
  BY DEF WantedLocks
<1> QED
  BY <1>1, <1>2

\* The invariant is kept by a step that moves call w, credits at most user to
\* and debits at most user from, if no other call past its check has them.
LEMMA Preserved ==
  ASSUME Inv, TypeOK', LocksApart', NothingTaken, NEW w, NEW to, NEW from, OnlyCall(w),
         \A r \in References : RowOnward(r) /\ RowTrue(r)',
         \A u \in Users \ {to} : CapQuiet(u),
         \A u \in Users \ {from} : DaysQuiet(u),
         to \in Users => CapTrue(to)',
         from \in Users => DaysTrue(from)',
         \A v \in Workers \ {w} : At(v, "post") =>
           to \notin JobUsers(job[v]) /\ from \notin JobUsers(job[v]),
         w \in Workers => JobWellFormed(w)' /\ JobPromised(w)'
  PROVE  Inv'
<1>1. \A u \in Users : CapTrue(u)' /\ DaysTrue(u)'
  <2> TAKE u \in Users
  <2>1. (CapQuiet(u) => CapTrue(u)') /\ (DaysQuiet(u) => DaysTrue(u)')
    BY QuietUser DEF NothingTaken
  <2> QED
    BY <2>1
<1>2. ASSUME NEW v \in Workers, v # w PROVE JobWellFormed(v)' /\ JobPromised(v)'
  <2>1. \A u \in Users : job[v].to = u \/ job[v].from = u => u \in JobUsers(job[v])
    BY LimitsAssumption DEF JobUsers, Users, Nobody
  <2>2. \A u \in Users : /\ At(v, "post") /\ job[v].to = u => CapQuiet(u)
                         /\ At(v, "post") /\ job[v].from = u => DaysQuiet(u)
    BY <1>2, <2>1
  <2> QED
    BY <1>2, <2>2, QuietCall DEF OnlyCall, NothingTaken
<1>3. \A v \in Workers : JobWellFormed(v)' /\ JobPromised(v)'
  BY <1>2
<1> QED
  BY <1>1, <1>3 DEF Inv

-----------------------------------------------------------------------------
(* Types *)

\* A call that goes on or ends is a call.
LEMMA CallTypes ==
  ASSUME TypeOK, NEW w \in Workers
  PROVE  /\ \A step \in Step : Goto(w, step) => pc' \in [Workers -> Step]
         /\ EndJob(w) => job' \in [Workers -> Job] /\ pc' \in [Workers -> Step]
         /\ Release(w) => locks' = [v \in Workers |-> locks'[v]]
<1>1. NoJob \in Job
  BY LimitsAssumption DEF NoJob, Job, Nobody
<1>2. \A step \in Step : Goto(w, step) => pc' \in [Workers -> Step]
  BY DEF TypeOK, Goto
<1>3. EndJob(w) => job' \in [Workers -> Job] /\ pc' \in [Workers -> Step]
  BY <1>1, <1>2 DEF TypeOK, EndJob, Step
<1>4. Release(w) => locks' = [v \in Workers |-> locks'[v]]
  BY DEF TypeOK, Release
<1> QED
  BY <1>2, <1>3, <1>4

\* A call that arrives is a call.
LEMMA BeginType ==
  ASSUME TypeOK, NEW w \in Workers, NEW j \in Job, Begin(w, j)
  PROVE  TypeOK'
<1>1. [j EXCEPT !.began = IF j.from = Nobody THEN 0 ELSE today] \in Job
  <2> DEFINE day == IF j.from = Nobody THEN 0 ELSE today
  <2>1. day \in Nat
    BY DEF TypeOK
  <2> HIDE DEF day
  <2>2. [j EXCEPT !.began = day] \in Job
    BY <2>1 DEF Job
  <2> QED
    BY <2>2 DEF day
<1>2. job' \in [Workers -> Job]
  BY <1>1 DEF Begin, TypeOK
<1>3. pc' \in [Workers -> Step]
  BY CallTypes DEF Begin, Step
<1> QED
  BY <1>2, <1>3 DEF Begin, TypeOK

\* The amount a completion is checked with is the requested one or more.
LEMMA NetAmountNat ==
  ASSUME TypeOK, NEW r \in References, NEW source, NEW reported \in Reported(r, source)
  PROVE  NetAmount(source, reported, rows[r].amount) \in Nat
<1>1. rows[r].amount \in Nat /\ ChargeFee \in Nat
  BY LimitsAssumption DEF TypeOK, Row
<1>2. reported \in {rows[r].amount, rows[r].amount + ChargeFee, rows[r].amount + ChargeFee + 1}
  BY DEF Reported
<1> QED
  BY <1>1, <1>2 DEF NetAmount

\* The job of a request, and of a completion.
LEMMA ArrivalType ==
  ASSUME TypeOK, NEW w \in Workers,
         \/ \E r \in References, q \in Requests : Receive(w, r, q)
         \/ Settle(w)
  PROVE  TypeOK'
<1>1. ASSUME NEW r \in References, NEW q \in Requests, Receive(w, r, q) PROVE TypeOK'
  <2>1. /\ q.kind \in {"fund", "transfer", "withdrawal"} /\ q.amount \in Nat
        /\ q.from \in 0..NumUsers /\ q.to \in 0..NumUsers /\ r \in 0..NumReferences
    BY LimitsAssumption DEF References
  <2> DEFINE j == [NoJob EXCEPT !.kind = q.kind, !.reference = r, !.amount = q.amount,
                                !.from = q.from, !.to = q.to]
  <2>2. j \in Job
    BY <2>1 DEF NoJob, Job
  <2>3. Begin(w, j)
    BY <1>1 DEF Receive
  <2> HIDE DEF j
  <2> QED
    BY <2>2, <2>3, BeginType
<1>2. ASSUME NEW r \in References, NEW source, CompleteFunding(w, r, source) PROVE TypeOK'
  <2>1. PICK reported \in Reported(r, source) :
          Begin(w, [NoJob EXCEPT !.kind = "complete", !.reference = r, !.to = rows[r].to,
                                 !.amount = NetAmount(source, reported, rows[r].amount)])
    BY <1>2 DEF CompleteFunding
  <2>2. /\ NetAmount(source, reported, rows[r].amount) \in Nat
        /\ rows[r].to \in 0..NumUsers /\ r \in 0..NumReferences /\ 0 \in 0..NumUsers
    <3>1. NetAmount(source, reported, rows[r].amount) \in Nat
      BY NetAmountNat
    <3>2. rows[r].to \in 0..NumUsers
      BY DEF TypeOK, Row
    <3> QED
      BY <3>1, <3>2, LimitsAssumption DEF References
  <2>3. [NoJob EXCEPT !.kind = "complete", !.reference = r, !.to = rows[r].to,
                      !.amount = NetAmount(source, reported, rows[r].amount)] \in Job
    BY <2>2 DEF NoJob, Job, Nobody
  <2> QED
    BY <2>1, <2>3, BeginType
<1> QED
  BY <1>1, <1>2 DEF Settle

\* A row that is inserted is a row, with the fields of the job.
LEMMA InsertRow ==
  ASSUME TypeOK, NEW j \in Job, j.reference \in References,
         NEW type \in {"funding", "p2p_transfer", "withdrawal"}, NEW status \in RowStatus,
         Insert(j, type, status)
  PROVE  /\ rows' \in [References -> Row] /\ OnlyRow(j.reference)
         /\ LET row == rows'[j.reference] IN
            /\ row.type = type /\ row.status = status /\ row.amount = j.amount
            /\ row.from = j.from /\ row.to = j.to /\ row.created = j.began
            /\ row.straddles = j.straddles /\ row.fresh = TRUE
<1> DEFINE row == [NoRow EXCEPT !.type = type, !.status = status, !.amount = j.amount,
                                !.from = j.from, !.to = j.to, !.created = j.began,
                                !.straddles = j.straddles]
<1>1. rows' = [rows EXCEPT ![j.reference] = row]
  BY DEF Insert
<1>2. /\ row.type = type /\ row.status = status /\ row.amount = j.amount
      /\ row.from = j.from /\ row.to = j.to /\ row.created = j.began
      /\ row.straddles = j.straddles /\ row.fresh = TRUE
  BY DEF NoRow
<1>3. row \in Row
  BY DEF NoRow, Row, Job, RowStatus
<1> HIDE DEF row
<1> QED
  BY <1>1, <1>2, <1>3 DEF TypeOK, OnlyRow

\* A row whose status, or one of its flags, is rewritten.
LEMMA RewriteRow ==
  ASSUME TypeOK, NEW k \in References
  PROVE  /\ \A status \in RowStatus :
              rows' = [rows EXCEPT ![k].status = status] =>
                /\ rows' \in [References -> Row] /\ OnlyRow(k)
                /\ rows'[k] = [rows[k] EXCEPT !.status = status]
         /\ rows' = [rows EXCEPT ![k].status = "disputed", ![k].chargedBack = TRUE] =>
              /\ rows' \in [References -> Row] /\ OnlyRow(k)
              /\ rows'[k] = [rows[k] EXCEPT !.status = "disputed", !.chargedBack = TRUE]
         /\ rows' = [rows EXCEPT ![k].checkout = TRUE] =>
              /\ rows' \in [References -> Row] /\ OnlyRow(k)
              /\ rows'[k] = [rows[k] EXCEPT !.checkout = TRUE]
         /\ rows' = [rows EXCEPT ![k].fresh = FALSE] =>
              /\ rows' \in [References -> Row] /\ OnlyRow(k)
              /\ rows'[k] = [rows[k] EXCEPT !.fresh = FALSE]
<1>1. rows \in [References -> Row] /\ rows[k] \in Row
  BY DEF TypeOK
<1>2. ASSUME NEW status \in RowStatus PROVE [rows[k] EXCEPT !.status = status] \in Row
  BY <1>1 DEF Row
<1>3. /\ [rows[k] EXCEPT !.status = "disputed", !.chargedBack = TRUE] \in Row
      /\ [rows[k] EXCEPT !.checkout = TRUE] \in Row
      /\ [rows[k] EXCEPT !.fresh = FALSE] \in Row
  BY <1>1 DEF Row, RowStatus
<1>4. ASSUME NEW row \in Row, rows' = [rows EXCEPT ![k] = row]
      PROVE  rows' \in [References -> Row] /\ OnlyRow(k) /\ rows'[k] = row
  BY <1>1, <1>4 DEF OnlyRow
<1> QED
  BY <1>1, <1>2, <1>3, <1>4

-----------------------------------------------------------------------------
(* Steps before the posting *)

\* A call that is not about to post was promised nothing.
LEMMA NoPromise == ASSUME NEW w, pc'[w] # "post" PROVE JobPromised(w)'
BY DEF JobPromised, At

\* A step that leaves balances and rows alone.
LEMMA BooksUnchanged ==
  ASSUME Inv, TypeOK', LocksApart', UNCHANGED <<balance, rows, exempt>>, NEW w, OnlyCall(w),
         w \in Workers => JobWellFormed(w)' /\ JobPromised(w)'
  PROVE  Inv'
<1>1. /\ TypeOK
      /\ NothingTaken
      /\ (\A r \in References : RowOnward(r))
      /\ OnlyRow(0)
      /\ 0 \notin References
  BY DEF Inv, TypeOK, NothingTaken, RowOnward, Pending, OnlyRow, References
<1>2. \A r \in References : RowTrue(r)'
  BY <1>1, RowsStayTrue
<1>3. \A u \in Users : CapQuiet(u)
  <2> TAKE u \in Users
  <2>1. PendingFunding(u)' = PendingFunding(u) /\ PendingFunding(u) \in Int
    BY <1>1, SumsInt DEF PendingFunding, Pending
  <2> QED
    BY <1>1, <2>1 DEF CapQuiet, TypeOK
<1>4. \A u \in Users : DaysQuiet(u)
  <2> TAKE u \in Users
  <2>1. ASSUME NEW day \in Nat PROVE DebitedOn(u, day)' <= DebitedOn(u, day)
    <3>1. DebitedOn(u, day)' = DebitedOn(u, day) /\ DebitedOn(u, day) \in Int
      BY <1>1, SumsInt DEF DebitedOn, DebitTerm
    <3> QED
      BY <3>1
  <2> QED
    BY <2>1 DEF DaysQuiet
<1>5. Nobody \notin Users /\ \A v \in Workers : Nobody \notin JobUsers(job[v])
  BY DEF Users, Nobody, JobUsers
<1> QED
  BY <1>1, <1>2, <1>3, <1>4, <1>5, Preserved

\* A call arrives.
LEMMA ArrivalStep ==
  ASSUME Inv, NEW w \in Workers,
         \/ \E r \in References, q \in Requests : Receive(w, r, q)
         \/ Settle(w)
  PROVE  Inv'
<1>1. TypeOK /\ TypeOK' /\ LocksApart
  BY ArrivalType DEF Inv
<1>2. UNCHANGED <<balance, rows, exempt, locks>>
  BY DEF Receive, Settle, CompleteFunding, Begin
<1>3. ASSUME NEW j \in Job, Begin(w, j)
      PROVE  /\ OnlyCall(w) /\ pc'[w] = "lock"
             /\ job'[w].kind = j.kind /\ job'[w].reference = j.reference
             /\ job'[w].from = j.from /\ job'[w].to = j.to
  <2>1. /\ OnlyCall(w) /\ pc'[w] = "lock"
        /\ job'[w] = [j EXCEPT !.began = IF j.from = Nobody THEN 0 ELSE today]
    BY <1>1, <1>3 DEF Begin, Goto, TypeOK, OnlyCall
  <2> QED
    BY <2>1 DEF Job
<1>4. OnlyCall(w) /\ pc'[w] = "lock" /\ JobWellFormed(w)'
  <2>1. CASE \E r \in References, q \in Requests : Receive(w, r, q)
    <3> PICK r \in References, q \in Requests : Receive(w, r, q)
      BY <2>1
    <3> DEFINE j == [NoJob EXCEPT !.kind = q.kind, !.reference = r, !.amount = q.amount,
                                  !.from = q.from, !.to = q.to]
    <3>1. /\ q.kind \in {"fund", "transfer", "withdrawal"} /\ q.amount \in Nat
          /\ q.from \in 0..NumUsers /\ q.to \in 0..NumUsers /\ r \in 0..NumReferences
          /\ q.from # q.to
          /\ q.kind = "fund" <=> q.from = Nobody
          /\ q.kind = "withdrawal" <=> q.to = Nobody
      BY LimitsAssumption DEF References, Nobody
    <3>2. /\ j \in Job /\ j.kind = q.kind /\ j.reference = r /\ j.from = q.from /\ j.to = q.to
          /\ Begin(w, j)
      BY <3>1 DEF NoJob, Job, Receive
    <3> HIDE DEF j
    <3> QED
      BY <1>3, <3>1, <3>2 DEF JobWellFormed
  <2>2. CASE Settle(w)
    <3> PICK r \in References, source \in {"webhook", "poll"} : CompleteFunding(w, r, source)
      BY <2>2 DEF Settle
    <3>1. PICK reported \in Reported(r, source) :
            Begin(w, [NoJob EXCEPT !.kind = "complete", !.reference = r, !.to = rows[r].to,
                                   !.amount = NetAmount(source, reported, rows[r].amount)])
      BY DEF CompleteFunding
    <3> DEFINE j == [NoJob EXCEPT !.kind = "complete", !.reference = r, !.to = rows[r].to,
                                  !.amount = NetAmount(source, reported, rows[r].amount)]
    <3>2. NetAmount(source, reported, rows[r].amount) \in Nat
      BY <1>1, NetAmountNat
    <3>3. rows[r].to \in 0..NumUsers /\ r \in 0..NumReferences /\ 0 \in 0..NumUsers
      <4>1. rows[r].to \in 0..NumUsers
        BY <1>1 DEF TypeOK, Row
      <4> QED
        BY <4>1, LimitsAssumption DEF References
    <3>4. rows[r].type = "funding" /\ rows[r].to \in Users
      BY DEF CompleteFunding, Pending, Inv, RowTrue
    <3>5. /\ j \in Job /\ j.kind = "complete" /\ j.reference = r /\ j.from = Nobody
          /\ j.to = rows[r].to /\ Begin(w, j)
      BY <3>1, <3>2, <3>3 DEF NoJob, Job, Nobody
    <3> HIDE DEF j
    <3> QED
      BY <1>2, <1>3, <3>4, <3>5 DEF JobWellFormed
  <2> QED
    BY <2>1, <2>2
<1>5. LocksApart'
  BY <1>1, <1>2 DEF LocksApart
<1> QED
  BY <1>1, <1>2, <1>4, <1>5, NoPromise, BooksUnchanged

\* A call ends without a posting: a crash, a deadlock, or a refusal.
LEMMA EndStep ==
  ASSUME Inv, NEW w \in Workers, EndJob(w), Release(w), UNCHANGED <<balance, rows, exempt>>,
         UNCHANGED today
  PROVE  Inv'
<1>1. TypeOK /\ LocksApart
  BY DEF Inv
<1>2. TypeOK'
  BY <1>1, CallTypes DEF TypeOK
<1>3. /\ OnlyCall(w) /\ pc'[w] = "idle" /\ locks'[w] = {}
      /\ \A v \in Workers \ {w} : locks'[v] = locks[v]
  BY <1>1 DEF EndJob, Goto, Release, TypeOK, OnlyCall
<1>4. LocksApart'
  BY <1>1, <1>3 DEF LocksApart
<1>5. JobWellFormed(w)'
  BY <1>3 DEF JobWellFormed
<1> QED
  BY <1>2, <1>3, <1>4, <1>5, NoPromise, BooksUnchanged

\* The verdict on a completing funding: credited if it fits, and held only if
\* its owner was disturbed.
LEMMA CheckedCompletion ==
  ASSUME Inv, NEW w \in Workers, NEW j, job[w] = j, At(w, "lock"), j.kind = "complete",
         job' = [job EXCEPT ![w].verdict = IncomingVerdict(j)], Goto(w, "post"),
         locks' = [locks EXCEPT ![w] = WantedLocks(j)], LocksApart',
         UNCHANGED <<balance, rows, exempt, today>>
  PROVE  Inv'
<1>1. TypeOK /\ j \in Job /\ JobWellFormed(w)
  BY DEF Inv, TypeOK
<1>2. /\ j.reference \in References /\ j.from = Nobody /\ j.to \in Users
      /\ rows[j.reference].type = "funding" /\ rows[j.reference].to = j.to
  BY <1>1 DEF JobWellFormed, At
<1>3. PICK verdict \in {"completed", "held"} :
        /\ verdict = "completed" <=> CapAllows(j.to, balance[j.to] + j.amount)
        /\ job' = [job EXCEPT ![w].verdict = verdict]
  BY DEF IncomingVerdict
<1>4. job'[w] = [j EXCEPT !.verdict = verdict] /\ [j EXCEPT !.verdict = verdict] \in Job
  BY <1>1, <1>3 DEF TypeOK, Job
<1>5. /\ job'[w].kind = j.kind /\ job'[w].reference = j.reference /\ job'[w].amount = j.amount
      /\ job'[w].from = j.from /\ job'[w].to = j.to /\ job'[w].verdict = verdict
  BY <1>1, <1>4 DEF Job
<1>6. /\ OnlyCall(w) /\ pc'[w] = "post" /\ locks'[w] = WantedLocks(j)
      /\ job' \in [Workers -> Job] /\ locks' = [v \in Workers |-> locks'[v]]
  BY <1>1, <1>3, <1>4 DEF TypeOK, Goto, OnlyCall
<1>7. TypeOK'
  BY <1>1, <1>6, CallTypes DEF TypeOK, Step
<1>8. WantedLocks(job[w])' = WantedLocks(j)
  BY <1>5 DEF WantedLocks, JobUsers
<1>9. JobWellFormed(w)'
  BY <1>2, <1>5, <1>6 DEF JobWellFormed
<1>10. ASSUME NEW t \in Users, t = j.to, Cap[t] # Null, verdict = "completed"
       PROVE  balance'[t] + j.amount <= Cap[t] + exempt'[t]
  <2>1. balance[t] + j.amount <= Cap[t]
    BY <1>3, <1>10 DEF CapAllows
  <2>2. balance[t] \in Int /\ j.amount \in Int /\ Cap[t] \in Int /\ exempt[t] \in Nat
    BY <1>1, LimitsAssumption DEF TypeOK, Job, Null
  <2> QED
    BY <2>1, <2>2
<1>11. ASSUME NEW t \in Users, t = j.to, NEW r \in References, r = j.reference,
              verdict = "held", Pending(r), j.amount = rows[r].amount, ~Disturbed(t)
       PROVE  FALSE
  <2>1. Cap[t] # Null /\ ~(balance[t] + j.amount <= Cap[t])
    BY <1>3, <1>11 DEF CapAllows
  <2>2. balance[t] \in Int /\ j.amount \in Int /\ Cap[t] \in Int
    BY <1>1, LimitsAssumption DEF TypeOK, Job, Null
  <2>3. rows[r].fresh
    BY <1>2, <1>11 DEF Disturbed
  <2>4. FundingTerm(r, t) = j.amount
    BY <1>2, <1>11, <2>3 DEF FundingTerm
  <2>5. j.amount <= PendingFunding(t) /\ PendingFunding(t) \in Int
    BY <1>1, <2>4, PendingFundingNat
  <2>6. balance[t] + PendingFunding(t) <= Cap[t]
    BY <1>11, <2>1 DEF Inv, CapTrue
  <2> QED
    BY <2>1, <2>2, <2>5, <2>6
<1>12. \A t \in Users : Disturbed(t)' <=> Disturbed(t)
  BY DEF Disturbed
<1>13. \A r \in References : Pending(r)' <=> Pending(r)
  BY DEF Pending
<1>14. JobPromised(w)'
  BY <1>2, <1>5, <1>6, <1>8, <1>10, <1>11, <1>12, <1>13 DEF JobPromised, Nobody
<1> QED
  BY <1>6, <1>7, <1>9, <1>14, BooksUnchanged

\* A request within the limits: the room it was promised.
LEMMA CheckedRequest ==
  ASSUME Inv, NEW w \in Workers, NEW j, job[w] = j, At(w, "lock"), j.kind # "complete",
         LimitsAllow(j),
         job' = [job EXCEPT ![w].straddles = (j.from # Nobody /\ today # j.began)],
         Goto(w, "post"), locks' = [locks EXCEPT ![w] = WantedLocks(j)], LocksApart',
         UNCHANGED <<balance, rows, exempt, today>>
  PROVE  Inv'
<1>1. TypeOK /\ j \in Job /\ JobWellFormed(w) /\ \A r \in References : RowTrue(r)
  BY DEF Inv, TypeOK
<1>2. /\ j.kind \in {"fund", "transfer", "withdrawal"} /\ j.reference \in References
      /\ j.from # j.to
      /\ j.kind = "fund" <=> j.from = Nobody
      /\ j.kind = "withdrawal" <=> j.to = Nobody
  BY <1>1 DEF JobWellFormed, At
<1>3. PICK straddles \in BOOLEAN :
        /\ straddles <=> (j.from # Nobody /\ today # j.began)
        /\ job' = [job EXCEPT ![w].straddles = straddles]
  OBVIOUS
<1>4. job'[w] = [j EXCEPT !.straddles = straddles] /\ [j EXCEPT !.straddles = straddles] \in Job
  BY <1>1, <1>3 DEF TypeOK, Job
<1>5. /\ job'[w].kind = j.kind /\ job'[w].reference = j.reference /\ job'[w].amount = j.amount
      /\ job'[w].from = j.from /\ job'[w].to = j.to /\ job'[w].began = j.began
      /\ job'[w].straddles = straddles
  BY <1>1, <1>4 DEF Job
<1>6. /\ OnlyCall(w) /\ pc'[w] = "post" /\ locks'[w] = WantedLocks(j)
      /\ job' \in [Workers -> Job] /\ locks' = [v \in Workers |-> locks'[v]]
  BY <1>1, <1>3, <1>4 DEF TypeOK, Goto, OnlyCall
<1>7. TypeOK'
  BY <1>1, <1>6, CallTypes DEF TypeOK, Step
<1>8. WantedLocks(job[w])' = WantedLocks(j)
  BY <1>5 DEF WantedLocks, JobUsers
<1>9. JobWellFormed(w)'
  BY <1>2, <1>5, <1>6 DEF JobWellFormed
<1>10. j.to \in 0..NumUsers /\ j.from \in 0..NumUsers /\ j.amount \in Nat /\ j.began \in Nat
  BY <1>1 DEF Job
<1>11. ASSUME NEW t \in Users, t = j.to, Cap[t] # Null
       PROVE  /\ balance'[t] + j.amount <= Cap[t] + exempt'[t]
              /\ balance'[t] + PendingFunding(t)' + j.amount <= Cap[t]
  <2>1. balance[t] + PendingFunding(t) + j.amount <= Cap[t]
    BY <1>11 DEF LimitsAllow, CapAllows, Users, Nobody
  <2>2. balance[t] \in Int /\ Cap[t] \in Int /\ exempt[t] \in Nat
    BY <1>1, LimitsAssumption DEF TypeOK, Null
  <2>3. PendingFunding(t) \in Int /\ PendingFunding(t) >= 0
    BY <1>1, SumsInt
  <2>4. PendingFunding(t)' = PendingFunding(t)
    BY DEF PendingFunding, Pending
  <2> QED
    BY <1>10, <2>1, <2>2, <2>3, <2>4
<1>12. ASSUME NEW s \in Users, s = j.from, NEW day \in Nat, day = j.began, ~straddles
       PROVE  DebitedOn(s, day)' + j.amount <= DailyLimit[s]
  <2>1. day = today /\ DebitedSince(s, today) + j.amount <= DailyLimit[s]
    BY <1>3, <1>12 DEF LimitsAllow, DailyLimitAllows, Users, Nobody
  <2>2. DebitedOn(s, today) <= DebitedSince(s, today) /\ DebitedSince(s, today) \in Int
    BY <1>1, TodayCounted
  <2>3. DebitedOn(s, day)' = DebitedOn(s, day)
    BY DEF DebitedOn, DebitTerm
  <2>4. DebitedOn(s, day) \in Int /\ DailyLimit[s] \in Int
    BY <1>1, SumsInt, LimitsAssumption
  <2>5. DebitedOn(s, day) <= DebitedSince(s, today)
    BY <2>1, <2>2
  <2> QED
    BY <1>10, <2>1, <2>2, <2>3, <2>4, <2>5
<1>13. (j.to # Nobody => j.to \in Users) /\ (j.from # Nobody => j.from \in Users)
  BY <1>10, LimitsAssumption DEF Users, Nobody
<1>14. JobPromised(w)'
  BY <1>2, <1>5, <1>6, <1>8, <1>10, <1>11, <1>12, <1>13 DEF JobPromised
<1> QED
  BY <1>6, <1>7, <1>9, <1>14, BooksUnchanged

\* A lock is granted; the last one is followed by the check.
LEMMA AcquireStep == ASSUME Inv, NEW w \in Workers, AcquireLock(w) PROVE Inv'
<1> PICK j : job[w] = j
  OBVIOUS
<1> PICK l : NextLock(w) = l
  OBVIOUS
<1>1. TypeOK /\ LocksApart /\ JobWellFormed(w) /\ At(w, "lock")
        /\ UNCHANGED <<balance, rows, exempt, today>>
        /\ \A v \in Workers \ {w} : l \notin locks[v]
  BY DEF Inv, AcquireLock
<1>2. ASSUME \A v \in Workers \ {w} : locks'[v] = locks[v], locks'[w] = locks[w] \cup {l}
      PROVE  LocksApart'
  BY <1>1, <1>2 DEF LocksApart
<1>3. CASE locks' = [locks EXCEPT ![w] = @ \cup {l}] /\ UNCHANGED <<job, pc>>
  <2>1. /\ \A v \in Workers \ {w} : locks'[v] = locks[v]
        /\ locks'[w] = locks[w] \cup {l} /\ locks' = [v \in Workers |-> locks'[v]]
    BY <1>1, <1>3 DEF TypeOK
  <2>2. TypeOK' /\ OnlyCall(w) /\ pc'[w] # "post" /\ JobWellFormed(w)'
    BY <1>1, <1>3, <2>1 DEF TypeOK, OnlyCall, JobWellFormed, At
  <2> QED
    BY <1>1, <1>2, <2>1, <2>2, NoPromise, BooksUnchanged
<1>4. CASE locks[w] \cup {l} = WantedLocks(j) /\ Check(w)
  <2>1. ASSUME locks' = [locks EXCEPT ![w] = WantedLocks(j)] PROVE LocksApart'
    BY <1>1, <1>2, <1>4, <2>1 DEF TypeOK
  <2>2. CASE j.kind = "complete"
    BY <1>1, <1>4, <2>1, <2>2, CheckedCompletion DEF Check
  <2>3. CASE j.kind # "complete" /\ LimitsAllow(j)
    BY <1>1, <1>4, <2>1, <2>3, CheckedRequest DEF Check
  <2>4. CASE j.kind # "complete" /\ ~LimitsAllow(j)
    BY <1>1, <1>4, <2>4, EndStep DEF Check
  <2> QED
    BY <2>2, <2>3, <2>4
<1> QED
  BY <1>3, <1>4 DEF AcquireLock

-----------------------------------------------------------------------------
(* The postings *)

\* A call that ends, or goes on without its locks.
LEMMA LetGo ==
  ASSUME Inv, NEW w \in Workers, Release(w) \/ UNCHANGED locks,
         EndJob(w) \/ (UNCHANGED job /\ \E step \in Step : Goto(w, step))
  PROVE  /\ job' \in [Workers -> Job] /\ pc' \in [Workers -> Step]
         /\ locks' = [v \in Workers |-> locks'[v]]
         /\ OnlyCall(w) /\ LocksApart'
         /\ EndJob(w) => pc'[w] = "idle" /\ JobWellFormed(w)' /\ JobPromised(w)'
<1>1. TypeOK /\ LocksApart
  BY DEF Inv
<1>2. /\ job' \in [Workers -> Job] /\ pc' \in [Workers -> Step]
      /\ locks' = [v \in Workers |-> locks'[v]]
  BY <1>1, CallTypes DEF TypeOK
<1>3. OnlyCall(w)
  BY <1>1 DEF TypeOK, OnlyCall, EndJob, Goto, Release
<1>4. locks'[w] = {} \/ locks'[w] = locks[w]
  BY <1>1 DEF TypeOK, Release
<1>5. LocksApart'
  BY <1>1, <1>3, <1>4 DEF LocksApart, OnlyCall
<1>6. EndJob(w) => pc'[w] = "idle" /\ JobWellFormed(w)' /\ JobPromised(w)'
  BY <1>1, NoPromise DEF EndJob, Goto, TypeOK, JobWellFormed
<1> QED
  BY <1>2, <1>3, <1>5, <1>6

\* No other call past its check has a user of the one that posts.
LEMMA PosterAlone ==
  ASSUME Inv, NEW w \in Workers, At(w, "post"), NEW u, u \in JobUsers(job[w]) \/ u = Nobody
  PROVE  \A v \in Workers \ {w} : At(v, "post") => u \notin JobUsers(job[v])
BY UsersApart DEF JobUsers

\* fundWallet's row: the pending amount takes the room it was promised.
LEMMA FundStep == ASSUME Inv, NEW w \in Workers, PostFundRequest(w) PROVE Inv'
<1> PICK j : job[w] = j
  OBVIOUS
<1>1. /\ TypeOK /\ JobWellFormed(w) /\ JobPromised(w) /\ j \in Job /\ At(w, "post")
      /\ UNCHANGED <<balance, exempt, today>> /\ Release(w) /\ j.kind = "fund"
  BY DEF Inv, TypeOK, PostFundRequest
<1>2. CASE EndJob(w) /\ UNCHANGED rows
  BY <1>1, <1>2, EndStep
<1>3. CASE /\ rows[j.reference].type = "none" /\ Insert(j, "funding", "pending")
           /\ Goto(w, "initiate") /\ UNCHANGED job
  <2> PICK k : j.reference = k
    OBVIOUS
  <2> PICK to : j.to = to
    OBVIOUS
  <2>1. k \in References /\ j.from = Nobody /\ to \in Users /\ j.amount \in Nat
    <3>1. k \in References /\ j.from = Nobody /\ to # Nobody
      BY <1>1 DEF JobWellFormed, At
    <3> QED
      BY <1>1, <3>1 DEF Job, Users, Nobody
  <2>2. /\ rows' \in [References -> Row] /\ OnlyRow(k)
        /\ rows'[k].type = "funding" /\ rows'[k].status = "pending" /\ rows'[k].amount = j.amount
        /\ rows'[k].from = Nobody /\ rows'[k].to = to /\ rows'[k].fresh = TRUE
    BY <1>1, <1>3, <2>1, InsertRow DEF RowStatus
  <2>3. TypeOK' /\ OnlyCall(w) /\ LocksApart'
    BY <1>1, <1>3, <2>2, LetGo DEF TypeOK, Step
  <2>4. rows[k] = NoRow
    BY <1>3, <2>1 DEF Inv, RowTrue
  <2>5. NothingTaken /\ \A r \in References : RowOnward(r)
    BY <1>1, <1>3, <2>2 DEF NothingTaken, TypeOK, RowOnward, OnlyRow, Pending
  <2>6. \A r \in References : RowTrue(r)'
    <3>1. RowTrue(k)'
      BY <2>1, <2>2 DEF RowTrue
    <3> QED
      BY <2>2, <2>3, <2>5, <3>1, RowsStayTrue
  <2>7. \A u \in Users :
          /\ PendingFunding(u)' = PendingFunding(u) + (IF u = to THEN j.amount ELSE 0)
          /\ \A day \in Nat : DebitedOn(u, day)' = DebitedOn(u, day)
          /\ PendingFunding(u) \in Int /\ \A day \in Nat : DebitedOn(u, day) \in Int
    <3> TAKE u \in Users
    <3>1. /\ FundingTerm(k, u) = 0 /\ FundingTerm(k, u)' = IF u = to THEN j.amount ELSE 0
          /\ \A day \in Nat : DebitTerm(k, u, day) = 0 /\ DebitTerm(k, u, day)' = 0
      BY <2>2, <2>4 DEF FundingTerm, DebitTerm, Pending, NoRow, Users, Nobody
    <3>2. PendingFunding(u) \in Int /\ \A day \in Nat : DebitedOn(u, day) \in Int
      BY <1>1, SumsInt
    <3>3. /\ PendingFunding(u)' = PendingFunding(u) + (FundingTerm(k, u)' - FundingTerm(k, u))
          /\ \A day \in Nat :
               DebitedOn(u, day)' =
                 DebitedOn(u, day) + (DebitTerm(k, u, day)' - DebitTerm(k, u, day))
      BY <1>1, <2>1, <2>2, <2>3, OneRow DEF OnlyRow
    <3> QED
      BY <2>1, <3>1, <3>2, <3>3
  <2>8. \A u \in Users : DaysQuiet(u)
    BY <2>7 DEF DaysQuiet
  <2>9. \A u \in Users \ {to} : CapQuiet(u)
    BY <1>1, <2>7 DEF CapQuiet, TypeOK
  <2>10. CapTrue(to)'
    <3> SUFFICES ASSUME Cap[to] # Null
                 PROVE  /\ balance[to] <= Cap[to] + exempt[to]
                        /\ ~Disturbed(to)' => balance[to] + PendingFunding(to)' <= Cap[to]
      BY <1>1 DEF CapTrue
    <3>1. balance[to] <= Cap[to] + exempt[to]
      BY <2>1 DEF Inv, CapTrue
    <3>2. Disturbed(to) => Disturbed(to)'
      BY <1>1, <2>1, <2>3, <2>5, DisturbedStays DEF NothingTaken
    <3>3. ~Disturbed(to) => balance[to] + PendingFunding(to) + j.amount <= Cap[to]
      BY <1>1, <2>1 DEF JobPromised, Users, Nobody
    <3>4. PendingFunding(to)' = PendingFunding(to) + j.amount /\ PendingFunding(to) \in Int
            /\ balance[to] \in Int /\ Cap[to] \in Int
      BY <1>1, <2>1, <2>7, LimitsAssumption DEF TypeOK, Null
    <3> QED
      BY <2>1, <3>1, <3>2, <3>3, <3>4
  <2>11. JobWellFormed(w)' /\ JobPromised(w)'
    <3>1. pc'[w] = "initiate" /\ job'[w] = j
      BY <1>1, <1>3 DEF Goto, TypeOK
    <3> QED
      BY <2>1, <2>2, <3>1, NoPromise DEF JobWellFormed
  <2>12. \A v \in Workers \ {w} : At(v, "post") =>
           to \notin JobUsers(job[v]) /\ Nobody \notin JobUsers(job[v])
    <3>1. to \in JobUsers(job[w])
      BY <2>1 DEF JobUsers, Users, Nobody
    <3> QED
      BY <1>1, <3>1, PosterAlone
  <2>13. Nobody \notin Users
    BY DEF Nobody, Users
  <2> QED
    BY <2>3, <2>5, <2>6, <2>8, <2>9, <2>10, <2>11, <2>12, <2>13, Preserved
<1> QED
  BY <1>2, <1>3 DEF PostFundRequest

\* postTransfer and postWithdrawal: the debit and the credit take what they
\* were promised.
LEMMA DebitStep == ASSUME Inv, NEW w \in Workers, PostDebit(w) PROVE Inv'
<1> PICK j : job[w] = j
  OBVIOUS
<1>1. /\ TypeOK /\ JobWellFormed(w) /\ JobPromised(w) /\ j \in Job /\ At(w, "post")
      /\ UNCHANGED <<exempt, today>> /\ Release(w) /\ EndJob(w)
      /\ j.kind \in {"transfer", "withdrawal"}
  BY DEF Inv, TypeOK, PostDebit
<1>2. CASE UNCHANGED <<balance, rows>>
  BY <1>1, <1>2, EndStep
<1>3. CASE /\ rows[j.reference].type = "none"
           /\ balance' = [u \in Users |-> balance[u] - (IF u = j.from THEN j.amount ELSE 0)
                                                     + (IF u = j.to THEN j.amount ELSE 0)]
           /\ \E type \in {"p2p_transfer", "withdrawal"}, status \in {"completed", "pending"} :
                Insert(j, type, status)
  <2> PICK type \in {"p2p_transfer", "withdrawal"}, status \in {"completed", "pending"} :
        Insert(j, type, status)
    BY <1>3
  <2> PICK k : j.reference = k
    OBVIOUS
  <2> PICK to : j.to = to
    OBVIOUS
  <2> PICK from : j.from = from
    OBVIOUS
  <2> PICK day0 : j.began = day0
    OBVIOUS
  <2>1. /\ k \in References /\ from \in Users /\ to \in 0..NumUsers /\ to # from
        /\ j.amount \in Nat /\ day0 \in Nat
    <3>1. k \in References /\ from # Nobody /\ to # from
      BY <1>1 DEF JobWellFormed, At
    <3> QED
      BY <1>1, <3>1 DEF Job, Users, Nobody
  <2>2. /\ rows' \in [References -> Row] /\ OnlyRow(k)
        /\ rows'[k].type = type /\ rows'[k].status = status /\ rows'[k].amount = j.amount
        /\ rows'[k].from = from /\ rows'[k].to = to /\ rows'[k].created = day0
        /\ rows'[k].straddles = j.straddles /\ rows'[k].fresh = TRUE
    <3>1. type \in {"funding", "p2p_transfer", "withdrawal"} /\ status \in RowStatus
            /\ j.reference \in References
      BY <2>1 DEF RowStatus
    <3>2. /\ rows' \in [References -> Row] /\ OnlyRow(j.reference)
          /\ LET row == rows'[j.reference] IN
             /\ row.type = type /\ row.status = status /\ row.amount = j.amount
             /\ row.from = j.from /\ row.to = j.to /\ row.created = j.began
             /\ row.straddles = j.straddles /\ row.fresh = TRUE
      BY <1>1, <3>1, InsertRow, Zenon
    <3> QED
      BY <3>2, Zenon
  <2>3. balance' \in [Users -> Int]
    BY <1>1, <1>3, <2>1 DEF TypeOK
  <2>4. /\ TypeOK' /\ OnlyCall(w) /\ LocksApart' /\ JobWellFormed(w)' /\ JobPromised(w)'
    BY <1>1, <2>2, <2>3, LetGo DEF TypeOK
  <2>5. rows[k] = NoRow
    BY <1>3, <2>1 DEF Inv, RowTrue
  <2>6. NothingTaken /\ \A r \in References : RowOnward(r)
    BY <1>1, <1>3, <2>2 DEF NothingTaken, TypeOK, RowOnward, OnlyRow, Pending
  <2>7. \A r \in References : RowTrue(r)'
    <3>1. RowTrue(k)'
      BY <2>1, <2>2 DEF RowTrue
    <3> QED
      BY <2>2, <2>4, <2>6, <3>1, RowsStayTrue
  <2>8. \A u \in Users :
          /\ PendingFunding(u)' = PendingFunding(u) /\ PendingFunding(u) \in Int
          /\ \A day \in Nat :
               /\ DebitedOn(u, day) \in Int
               /\ DebitedOn(u, day)' =
                    DebitedOn(u, day) + (IF u = from /\ day = day0 /\ ~j.straddles THEN j.amount ELSE 0)
    <3> TAKE u \in Users
    <3>1. /\ FundingTerm(k, u) = 0 /\ FundingTerm(k, u)' = 0
          /\ \A day \in Nat :
               /\ DebitTerm(k, u, day) = 0
               /\ DebitTerm(k, u, day)' =
                    IF u = from /\ day = day0 /\ ~j.straddles THEN j.amount ELSE 0
      BY <2>2, <2>5 DEF FundingTerm, DebitTerm, Pending, NoRow, Users, Nobody
    <3>2. PendingFunding(u) \in Int /\ \A day \in Nat : DebitedOn(u, day) \in Int
      BY <1>1, SumsInt
    <3>3. /\ PendingFunding(u)' = PendingFunding(u) + (FundingTerm(k, u)' - FundingTerm(k, u))
          /\ \A day \in Nat :
               DebitedOn(u, day)' =
                 DebitedOn(u, day) + (DebitTerm(k, u, day)' - DebitTerm(k, u, day))
      BY <1>1, <2>1, <2>2, <2>4, OneRow DEF OnlyRow
    <3> QED
      BY <2>1, <3>1, <3>2, <3>3
  <2>9. \A u \in Users \ {from} : DaysQuiet(u)
    BY <2>8 DEF DaysQuiet
  <2>10. \A u \in Users \ {to} : CapQuiet(u)
    <3> TAKE u \in Users \ {to}
    <3>1. /\ balance[u] \in Int /\ balance'[u] \in Int /\ balance'[u] <= balance[u]
          /\ exempt[u] \in Int
      BY <1>1, <1>3, <2>1 DEF TypeOK
    <3> QED
      BY <1>1, <2>8, <3>1 DEF CapQuiet
  <2>11. to \in Users => CapTrue(to)'
    <3> SUFFICES ASSUME to \in Users, Cap[to] # Null
                 PROVE  /\ balance'[to] <= Cap[to] + exempt[to]
                        /\ ~Disturbed(to)' => balance'[to] + PendingFunding(to)' <= Cap[to]
      BY <1>1 DEF CapTrue
    <3>1. Disturbed(to) => Disturbed(to)'
      BY <1>1, <2>4, <2>6, DisturbedStays DEF NothingTaken
    <3>2. /\ balance[to] + j.amount <= Cap[to] + exempt[to]
          /\ ~Disturbed(to) => balance[to] + PendingFunding(to) + j.amount <= Cap[to]
      BY <1>1 DEF JobPromised, Users, Nobody
    <3>3. balance[to] \in Int /\ Cap[to] \in Int /\ exempt[to] \in Int
      BY <1>1, LimitsAssumption DEF TypeOK, Null
    <3>4. balance'[to] = balance[to] + j.amount
      BY <1>3, <2>1, <3>3
    <3>5. PendingFunding(to)' = PendingFunding(to) /\ PendingFunding(to) \in Int
      BY <2>8
    <3> QED
      BY <2>1, <3>1, <3>2, <3>3, <3>4, <3>5
  <2>12. DaysTrue(from)'
    <3> SUFFICES ASSUME NEW day \in Nat PROVE DebitedOn(from, day)' <= DailyLimit[from]
      BY DEF DaysTrue
    <3>1. DebitedOn(from, day) <= DailyLimit[from]
      BY <2>1 DEF Inv, DaysTrue
    <3>2. ~j.straddles => DebitedOn(from, day0) + j.amount <= DailyLimit[from]
      BY <1>1, <2>1 DEF JobPromised, Users, Nobody
    <3> QED
      BY <2>1, <2>8, <3>1, <3>2
  <2>13. \A v \in Workers \ {w} : At(v, "post") =>
           to \notin JobUsers(job[v]) /\ from \notin JobUsers(job[v])
    <3>1. (to \in JobUsers(job[w]) \/ to = Nobody) /\ from \in JobUsers(job[w])
      BY <2>1 DEF JobUsers, Users, Nobody
    <3> QED
      BY <1>1, <3>1, PosterAlone
  <2> QED
    BY <2>1, <2>4, <2>6, <2>7, <2>9, <2>10, <2>11, <2>12, <2>13, Preserved
<1> QED
  BY <1>1, <1>2, <1>3 DEF PostDebit

\* A step that rewrites the status or a flag of a funding's row, and moves call
\* w if it is one.
LEMMA FundingRowStep ==
  ASSUME Inv, TypeOK', LocksApart', NEW w, OnlyCall(w), UNCHANGED <<balance, exempt>>,
         w \in Workers => JobWellFormed(w)' /\ JobPromised(w)',
         NEW k \in References, OnlyRow(k), rows[k].type = "funding", RowTrue(k)',
         rows'[k].type = "funding", rows'[k].to = rows[k].to, rows'[k].from = Nobody,
         rows'[k].amount = rows[k].amount, Pending(k)' => Pending(k),
         rows'[k].fresh => rows[k].fresh
  PROVE  Inv'
<1>1. TypeOK /\ RowTrue(k) /\ rows[k] \in Row
  BY DEF Inv, TypeOK
<1>2. rows[k].from = Nobody /\ rows[k].amount \in Nat
  BY <1>1 DEF RowTrue, Row
<1>3. NothingTaken /\ \A r \in References : RowOnward(r)
  BY <1>1 DEF NothingTaken, TypeOK, RowOnward, OnlyRow, Pending
<1>4. \A r \in References : RowTrue(r)'
  BY <1>3, RowsStayTrue
<1>5. \A u \in Users :
        /\ PendingFunding(u)' <= PendingFunding(u)
        /\ PendingFunding(u) \in Int /\ PendingFunding(u)' \in Int
        /\ \A day \in Nat : DebitedOn(u, day)' = DebitedOn(u, day) /\ DebitedOn(u, day) \in Int
  <2> TAKE u \in Users
  <2>1. /\ FundingTerm(k, u)' <= FundingTerm(k, u)
        /\ FundingTerm(k, u) \in Int
        /\ FundingTerm(k, u)' \in Int
    <3>1. Pending(k)' /\ rows'[k].to = u /\ rows'[k].fresh =>
            Pending(k) /\ rows[k].to = u /\ rows[k].fresh
      OBVIOUS
    <3> QED
      BY <1>2, <3>1 DEF FundingTerm
  <2>2. \A day \in Nat : DebitTerm(k, u, day) = 0 /\ DebitTerm(k, u, day)' = 0
    BY <1>2 DEF DebitTerm, Users, Nobody
  <2>3. PendingFunding(u) \in Int /\ \A day \in Nat : DebitedOn(u, day) \in Int
    BY <1>1, SumsInt
  <2>4. /\ PendingFunding(u)' = PendingFunding(u) + (FundingTerm(k, u)' - FundingTerm(k, u))
        /\ \A day \in Nat :
             DebitedOn(u, day)' = DebitedOn(u, day) + (DebitTerm(k, u, day)' - DebitTerm(k, u, day))
    BY <1>1, OneRow DEF OnlyRow
  <2> QED
    BY <2>1, <2>2, <2>3, <2>4
<1>6. \A u \in Users : CapQuiet(u)
  BY <1>1, <1>5 DEF CapQuiet, TypeOK
<1>7. \A u \in Users : DaysQuiet(u)
  BY <1>5 DEF DaysQuiet
<1>8. Nobody \notin Users /\ \A v \in Workers : Nobody \notin JobUsers(job[v])
  BY DEF Users, Nobody, JobUsers
<1> QED
  BY <1>3, <1>4, <1>6, <1>7, <1>8, Preserved

\* claimPendingFunding: a credit takes the room the pending amount had.
LEMMA CompletionStep == ASSUME Inv, NEW w \in Workers, PostCompletion(w) PROVE Inv'
<1> PICK j : job[w] = j
  OBVIOUS
<1> PICK k : j.reference = k
  OBVIOUS
<1> PICK to : j.to = to
  OBVIOUS
<1>1. /\ TypeOK /\ JobWellFormed(w) /\ JobPromised(w) /\ j \in Job /\ At(w, "post")
      /\ UNCHANGED <<exempt, today>> /\ Release(w) /\ EndJob(w) /\ j.kind = "complete"
  BY DEF Inv, TypeOK, PostCompletion
<1>2. /\ k \in References /\ to \in Users /\ rows[k].type = "funding" /\ rows[k].to = to
      /\ j.amount \in Nat /\ rows[k].from = Nobody
  <2>1. k \in References /\ to \in Users /\ rows[k].type = "funding" /\ rows[k].to = to
    BY <1>1 DEF JobWellFormed, At
  <2> QED
    BY <1>1, <2>1 DEF Job, Inv, RowTrue
<1>3. CASE UNCHANGED <<balance, rows>>
  BY <1>1, <1>3, EndStep
<1>4. ASSUME NEW status \in {"completed", "held", "failed"}, Pending(k),
             rows' = [rows EXCEPT ![k].status = status],
             balance' = [balance EXCEPT ![to] = IF status = "completed" THEN @ + j.amount ELSE @],
             status # "failed" => j.amount = rows[k].amount /\ status = j.verdict
      PROVE  Inv'
  <2>1. status \in RowStatus /\ rows[k] \in Row
    BY <1>1, <1>2 DEF RowStatus, TypeOK
  <2>2. /\ rows' \in [References -> Row] /\ OnlyRow(k)
        /\ rows'[k] = [rows[k] EXCEPT !.status = status]
    BY <1>1, <1>2, <1>4, <2>1, RewriteRow
  <2>3. /\ rows'[k].type = "funding" /\ rows'[k].to = to /\ rows'[k].from = Nobody
        /\ rows'[k].amount = rows[k].amount /\ rows'[k].status = status
    BY <1>2, <2>1, <2>2 DEF Row
  <2>4. rows'[k].fresh <=> rows[k].fresh
    <3>1. rows'[k].fresh = rows[k].fresh
      BY <2>1, <2>2, Zenon DEF Row
    <3> QED
      BY <3>1, Zenon
  <2>5. balance' \in [Users -> Int]
    BY <1>1, <1>2, <1>4 DEF TypeOK
  <2>6. /\ TypeOK' /\ OnlyCall(w) /\ LocksApart' /\ JobWellFormed(w)' /\ JobPromised(w)'
    BY <1>1, <2>2, <2>5, LetGo DEF TypeOK
  <2>7. ~Pending(k)'
    BY <1>4, <2>3 DEF Pending
  <2>8. NothingTaken /\ \A r \in References : RowOnward(r)
    <3>1. NothingTaken /\ \A r \in References \ {k} : RowOnward(r)
      BY <1>1, <2>2 DEF NothingTaken, TypeOK, RowOnward, OnlyRow, Pending
    <3>2. RowOnward(k)
      BY <1>2, <2>3, <2>4, <2>7 DEF RowOnward
    <3> QED
      BY <3>1, <3>2
  <2>9. Disturbed(to) => Disturbed(to)'
    BY <1>1, <1>2, <2>6, <2>8, DisturbedStays DEF NothingTaken
  <2>10. RowTrue(k)'
    <3>1. status = "held" => Disturbed(to)
      BY <1>1, <1>2, <1>4 DEF JobPromised
    <3> QED
      BY <1>2, <1>4, <2>3, <2>9, <3>1 DEF RowTrue
  <2>11. CASE status # "completed"
    <3>1. UNCHANGED <<balance, exempt>>
      BY <1>1, <1>2, <1>4, <2>11 DEF TypeOK
    <3>2. /\ rows'[k].to = rows[k].to /\ (Pending(k)' => Pending(k))
          /\ rows'[k].fresh => rows[k].fresh
      BY <1>2, <2>3, <2>4, <2>7
    <3> QED
      BY <1>2, <2>2, <2>3, <2>6, <2>10, <3>1, <3>2, FundingRowStep
  <2>12. CASE status = "completed"
    <3>1. \A r \in References : RowTrue(r)'
      BY <2>2, <2>6, <2>8, <2>10, RowsStayTrue
    <3>2. /\ \A u \in Users : FundingTerm(k, u)' = 0 /\ FundingTerm(k, u) \in Nat
          /\ \A u \in Users \ {to} : FundingTerm(k, u) = 0
          /\ rows[k].fresh => FundingTerm(k, to) = j.amount
          /\ \A u \in Users, day \in Nat : DebitTerm(k, u, day) = 0 /\ DebitTerm(k, u, day)' = 0
      <4>1. \A u \in Users : FundingTerm(k, u)' = 0
        BY <2>7 DEF FundingTerm
      <4>2. /\ \A u \in Users \ {to} : FundingTerm(k, u) = 0
            /\ rows[k].fresh => FundingTerm(k, to) = j.amount
        BY <1>2, <1>4, <2>12 DEF FundingTerm
      <4>3. \A u \in Users, day \in Nat : DebitTerm(k, u, day) = 0 /\ DebitTerm(k, u, day)' = 0
        BY <1>2, <2>3 DEF DebitTerm, Users, Nobody
      <4>4. \A u \in Users : FundingTerm(k, u) \in Nat
        BY <1>1, <1>2, TermsNat
      <4> QED
        BY <4>1, <4>2, <4>3, <4>4
    <3>3. \A u \in Users :
            /\ PendingFunding(u) \in Int
            /\ PendingFunding(u)' = PendingFunding(u) - FundingTerm(k, u)
            /\ \A day \in Nat : DebitedOn(u, day) \in Int /\ DebitedOn(u, day)' = DebitedOn(u, day)
      <4> TAKE u \in Users
      <4>1. PendingFunding(u) \in Int /\ \A day \in Nat : DebitedOn(u, day) \in Int
        BY <1>1, SumsInt
      <4>2. /\ PendingFunding(u)' = PendingFunding(u) + (FundingTerm(k, u)' - FundingTerm(k, u))
            /\ \A day \in Nat :
                 DebitedOn(u, day)' =
                   DebitedOn(u, day) + (DebitTerm(k, u, day)' - DebitTerm(k, u, day))
        BY <1>1, <1>2, <2>2, <2>6, OneRow DEF OnlyRow
      <4> QED
        BY <3>2, <4>1, <4>2
    <3>4. \A u \in Users : DaysQuiet(u)
      BY <3>3 DEF DaysQuiet
    <3>5. \A u \in Users \ {to} : CapQuiet(u)
      <4> TAKE u \in Users \ {to}
      <4>1. balance'[u] = balance[u] /\ balance[u] \in Int /\ exempt[u] \in Int
        BY <1>1, <1>2, <1>4 DEF TypeOK
      <4>2. PendingFunding(u)' = PendingFunding(u) /\ PendingFunding(u) \in Int
        BY <3>2, <3>3
      <4> QED
        BY <1>1, <4>1, <4>2 DEF CapQuiet
    <3>6. CapTrue(to)'
      <4> SUFFICES ASSUME Cap[to] # Null
                   PROVE  /\ balance'[to] <= Cap[to] + exempt[to]
                          /\ ~Disturbed(to)' => balance'[to] + PendingFunding(to)' <= Cap[to]
        BY <1>1 DEF CapTrue
      <4>1. balance[to] \in Int /\ Cap[to] \in Int /\ exempt[to] \in Int
        BY <1>1, <1>2, LimitsAssumption DEF TypeOK, Null
      <4>2. balance'[to] = balance[to] + j.amount
        BY <1>1, <1>2, <1>4, <2>12 DEF TypeOK
      <4>3. balance[to] + j.amount <= Cap[to] + exempt[to]
        BY <1>1, <1>2, <1>4, <2>12 DEF JobPromised, Users, Nobody
      <4>4. ~Disturbed(to) => rows[k].fresh /\ balance[to] + PendingFunding(to) <= Cap[to]
        BY <1>2 DEF Disturbed, Inv, CapTrue
      <4> QED
        BY <1>2, <2>9, <3>2, <3>3, <4>1, <4>2, <4>3, <4>4
    <3>7. \A v \in Workers \ {w} : At(v, "post") =>
            to \notin JobUsers(job[v]) /\ Nobody \notin JobUsers(job[v])
      <4>1. to \in JobUsers(job[w])
        BY <1>2 DEF JobUsers, Users, Nobody
      <4> QED
        BY <1>1, <4>1, PosterAlone
    <3>8. Nobody \notin Users
      BY DEF Nobody, Users
    <3> QED
      BY <2>6, <2>8, <3>1, <3>4, <3>5, <3>6, <3>7, <3>8, Preserved
  <2> QED
    BY <2>11, <2>12
<1>5. CASE Pending(k) /\ ~UNCHANGED <<balance, rows>>
  <2> DEFINE s == IF j.amount = rows[k].amount THEN j.verdict ELSE "failed"
  <2>1. /\ s \in {"completed", "held", "failed"}
        /\ s # "failed" => j.amount = rows[k].amount /\ s = j.verdict
    BY <1>1 DEF JobPromised
  <2>2. /\ rows' = [rows EXCEPT ![k].status = s]
        /\ balance' = [balance EXCEPT ![to] = IF s = "completed" THEN @ + j.amount ELSE @]
    BY <1>5 DEF PostCompletion
  <2> HIDE DEF s
  <2> QED
    BY <1>4, <1>5, <2>1, <2>2
<1>6. CASE ~Pending(k)
  <2>1. UNCHANGED <<balance, rows>>
    BY <1>6 DEF PostCompletion
  <2> QED
    BY <1>3, <2>1
<1> QED
  BY <1>3, <1>5, <1>6

-----------------------------------------------------------------------------
(* The other steps *)

\* initiatePayment touches neither balances nor rows.
LEMMA InitiateStep ==
  ASSUME Inv, NEW w \in Workers, NEW outcome, InitiatePayment(w, outcome)
  PROVE  Inv'
<1>1. PICK step \in {"record", "fail"} : Goto(w, step)
  BY DEF InitiatePayment
<1>2. /\ TypeOK /\ JobWellFormed(w) /\ pc[w] = "initiate"
      /\ UNCHANGED <<balance, rows, job, locks, exempt, today>>
  BY DEF Inv, InitiatePayment, At
<1>3. TypeOK' /\ OnlyCall(w) /\ LocksApart'
  BY <1>1, <1>2, LetGo DEF TypeOK, Step
<1>4. pc'[w] \in {"record", "fail"}
  BY <1>1, <1>2 DEF Goto, TypeOK
<1>5. JobWellFormed(w)'
  BY <1>2, <1>4 DEF JobWellFormed
<1> QED
  BY <1>2, <1>3, <1>4, <1>5, NoPromise, BooksUnchanged

\* The checkout URL is recorded, or the funding is marked failed.
LEMMA RecordStep ==
  ASSUME Inv, NEW w \in Workers, SetFundingCheckoutUrl(w) \/ MarkFundingTransactionFailed(w)
  PROVE  Inv'
<1> PICK k : job[w].reference = k
  OBVIOUS
<1>1. /\ TypeOK /\ JobWellFormed(w) /\ pc[w] \in {"record", "fail"}
      /\ UNCHANGED <<balance, locks, exempt, today>> /\ EndJob(w)
  BY DEF Inv, SetFundingCheckoutUrl, MarkFundingTransactionFailed, At
<1>2. k \in References /\ rows[k].type = "funding" /\ rows[k] \in Row /\ RowTrue(k)
  BY <1>1 DEF JobWellFormed, TypeOK, Inv
<1>3. /\ rows' \in [References -> Row] /\ OnlyRow(k)
      /\ \/ rows'[k] = [rows[k] EXCEPT !.checkout = TRUE]
         \/ rows'[k] = [rows[k] EXCEPT !.status = "failed"]
  BY <1>1, <1>2, RewriteRow DEF SetFundingCheckoutUrl, MarkFundingTransactionFailed, RowStatus
<1>4. /\ TypeOK' /\ OnlyCall(w) /\ LocksApart' /\ JobWellFormed(w)' /\ JobPromised(w)'
  BY <1>1, <1>3, LetGo DEF TypeOK
<1>5. /\ rows'[k].type = "funding" /\ rows'[k].to = rows[k].to /\ rows'[k].from = rows[k].from
      /\ rows'[k].amount = rows[k].amount
      /\ rows'[k].status = rows[k].status \/ rows'[k].status = "failed"
  BY <1>2, <1>3 DEF Row
<1>6. rows'[k].fresh <=> rows[k].fresh
  <2>1. rows'[k].fresh = rows[k].fresh
    BY <1>2, <1>3, Zenon DEF Row
  <2> QED
    BY <2>1, Zenon
<1>7. Pending(k)' => Pending(k)
  BY <1>2, <1>5 DEF Pending
<1>8. rows'[k].status = "held" => Disturbed(rows[k].to)'
  <2>1. NothingTaken /\ \A r \in References \ {k} : RowOnward(r)
    BY <1>1, <1>3 DEF NothingTaken, TypeOK, RowOnward, OnlyRow, Pending
  <2>2. RowOnward(k)
    BY <1>2, <1>5, <1>6, <1>7 DEF RowOnward
  <2>3. \A u \in Users : Disturbed(u) => Disturbed(u)'
    BY <1>1, <1>4, <2>1, <2>2, DisturbedStays DEF NothingTaken
  <2> QED
    BY <1>2, <1>5, <2>3 DEF RowTrue
<1>9. RowTrue(k)' /\ rows'[k].from = Nobody
  BY <1>2, <1>5, <1>8 DEF RowTrue
<1> QED
  BY <1>1, <1>2, <1>3, <1>4, <1>5, <1>6, <1>7, <1>9, FundingRowStep

\* Some value names no worker: a step of the provider or of the clock moves none.
LEMMA Outsider == \E w : w \notin Workers
<1> DEFINE w == {x \in Workers : x \notin x}
<1>1. w \notin Workers
  OBVIOUS
<1> QED
  BY <1>1

\* The payer pays, or a day ends.
LEMMA IdleStep ==
  ASSUME Inv, UNCHANGED <<balance, rows, job, pc, locks, exempt>>,
         UNCHANGED today \/ today' = today + 1
  PROVE  Inv'
<1>1. TypeOK /\ LocksApart
  BY DEF Inv
<1>2. TypeOK' /\ LocksApart' /\ \A w : OnlyCall(w)
  BY <1>1 DEF TypeOK, LocksApart, OnlyCall
<1> QED
  BY <1>2, Outsider, BooksUnchanged

\* A funding is declined, or leaves the 24-hour window.
LEMMA FadeStep ==
  ASSUME Inv, NEW k \in References, FailFunding(k) \/ LeaveWindow(k)
  PROVE  Inv'
<1>1. /\ TypeOK /\ LocksApart /\ RowTrue(k) /\ rows[k] \in Row /\ Pending(k)
      /\ rows[k].type = "funding" /\ rows[k].status = "pending"
      /\ UNCHANGED <<balance, exempt, job, pc, locks, today>>
  BY DEF Inv, TypeOK, FailFunding, LeaveWindow, Pending
<1>2. /\ rows' \in [References -> Row] /\ OnlyRow(k)
      /\ \/ rows'[k] = [rows[k] EXCEPT !.fresh = FALSE]
         \/ rows'[k] = [rows[k] EXCEPT !.status = "failed"]
  BY <1>1, RewriteRow DEF FailFunding, LeaveWindow, RowStatus
<1>3. TypeOK' /\ LocksApart' /\ \A w : OnlyCall(w)
  BY <1>1, <1>2 DEF TypeOK, LocksApart, OnlyCall
<1>4. /\ rows'[k].type = "funding" /\ rows'[k].to = rows[k].to /\ rows'[k].from = rows[k].from
      /\ rows'[k].amount = rows[k].amount /\ rows'[k].status \in {"pending", "failed"}
  BY <1>1, <1>2 DEF Row
<1>5. rows'[k].fresh => rows[k].fresh
  <2>1. rows'[k].fresh = rows[k].fresh \/ rows'[k].fresh = FALSE
    BY <1>1, <1>2, Zenon DEF Row
  <2> QED
    BY <2>1, Zenon
<1>6. RowTrue(k)' /\ rows'[k].from = Nobody
  BY <1>1, <1>4 DEF RowTrue
<1> QED
  BY <1>1, <1>2, <1>3, <1>4, <1>5, <1>6, Outsider, FundingRowStep

\* A movement past the limits on a row that is no pending funding: user u gets
\* no more than what is exempted.
LEMMA MovementStep ==
  ASSUME Inv, TypeOK', UNCHANGED <<job, pc, locks>>, NEW k \in References, OnlyRow(k), RowTrue(k)',
         rows[k].type # "none", ~Pending(k), ~Pending(k)',
         rows'[k].type = rows[k].type, rows'[k].to = rows[k].to, rows'[k].from = rows[k].from,
         rows'[k].amount = rows[k].amount, rows'[k].created = rows[k].created,
         rows'[k].straddles <=> rows[k].straddles, rows'[k].fresh <=> rows[k].fresh,
         rows[k].status = "reversed" => rows'[k].status = "reversed",
         NEW u \in Users,
         \A v \in Users \ {u} : balance'[v] = balance[v] /\ exempt'[v] = exempt[v],
         exempt'[u] >= exempt[u], balance'[u] - exempt'[u] <= balance[u] - exempt[u],
         exempt'[u] > 0 \/ balance'[u] <= balance[u]
  PROVE  Inv'
<1>1. TypeOK /\ LocksApart /\ rows[k] \in Row /\ rows[k].amount \in Nat
  BY DEF Inv, TypeOK, Row
<1>2. LocksApart' /\ \A w : OnlyCall(w)
  BY <1>1 DEF LocksApart, OnlyCall
<1>3. NothingTaken
  <2>1. \A v \in Users : exempt[v] \in Nat
    BY <1>1 DEF TypeOK
  <2> QED
    BY <2>1 DEF NothingTaken
<1>4. \A r \in References : RowOnward(r)
  <2>1. \A r \in References \ {k} : RowOnward(r)
    BY <1>1 DEF RowOnward, OnlyRow, Pending
  <2>2. RowOnward(k)
    BY DEF RowOnward
  <2> QED
    BY <2>1, <2>2
<1>5. \A r \in References : RowTrue(r)'
  BY <1>3, <1>4, RowsStayTrue
<1>6. \A v \in Users :
        /\ PendingFunding(v)' = PendingFunding(v) /\ PendingFunding(v) \in Int
        /\ \A day \in Nat : DebitedOn(v, day)' <= DebitedOn(v, day)
  <2> TAKE v \in Users
  <2>1. FundingTerm(k, v) = 0 /\ FundingTerm(k, v)' = 0
    BY DEF FundingTerm
  <2>2. ASSUME NEW day \in Nat
        PROVE  /\ DebitTerm(k, v, day)' <= DebitTerm(k, v, day)
               /\ DebitTerm(k, v, day)' \in Int /\ DebitTerm(k, v, day) \in Int
    BY <1>1 DEF DebitTerm
  <2>3. PendingFunding(v) \in Int /\ \A day \in Nat : DebitedOn(v, day) \in Int
    BY <1>1, SumsInt
  <2>4. /\ PendingFunding(v)' = PendingFunding(v) + (FundingTerm(k, v)' - FundingTerm(k, v))
        /\ \A day \in Nat :
             DebitedOn(v, day)' = DebitedOn(v, day) + (DebitTerm(k, v, day)' - DebitTerm(k, v, day))
    BY <1>1, OneRow DEF OnlyRow
  <2> QED
    BY <2>1, <2>2, <2>3, <2>4
<1>7. \A v \in Users : CapQuiet(v)
  <2> TAKE v \in Users
  <2>1. /\ balance[v] \in Int /\ balance'[v] \in Int /\ exempt[v] \in Nat /\ exempt'[v] \in Nat
        /\ balance'[v] - exempt'[v] <= balance[v] - exempt[v]
    BY <1>1 DEF TypeOK
  <2>2. ~Disturbed(v)' => balance'[v] <= balance[v]
    BY <2>1 DEF Disturbed
  <2> QED
    BY <1>6, <2>1, <2>2 DEF CapQuiet
<1>8. \A v \in Users : DaysQuiet(v)
  BY <1>6 DEF DaysQuiet
<1>9. Nobody \notin Users /\ \A v \in Workers : Nobody \notin JobUsers(job[v])
  BY DEF Users, Nobody, JobUsers
<1> QED
  BY <1>2, <1>3, <1>4, <1>5, <1>7, <1>8, <1>9, Outsider, Preserved

\* Only the status of row k is rewritten, and its chargeback flag.
LEMMA Rewritten ==
  ASSUME TypeOK, NEW k \in References, NEW status \in RowStatus,
         \/ rows' = [rows EXCEPT ![k].status = status]
         \/ rows' = [rows EXCEPT ![k].status = "disputed", ![k].chargedBack = TRUE]
              /\ status = "disputed"
  PROVE  /\ rows' \in [References -> Row] /\ OnlyRow(k) /\ rows'[k].status = status
         /\ rows'[k].type = rows[k].type /\ rows'[k].to = rows[k].to
         /\ rows'[k].from = rows[k].from /\ rows'[k].amount = rows[k].amount
         /\ rows'[k].created = rows[k].created
         /\ rows'[k].straddles <=> rows[k].straddles
         /\ rows'[k].fresh <=> rows[k].fresh
<1>1. /\ rows' \in [References -> Row] /\ OnlyRow(k) /\ rows[k] \in Row
      /\ \/ rows'[k] = [rows[k] EXCEPT !.status = status]
         \/ rows'[k] = [rows[k] EXCEPT !.status = "disputed", !.chargedBack = TRUE]
              /\ status = "disputed"
  BY RewriteRow DEF TypeOK
<1>2. /\ rows'[k].status = status
      /\ rows'[k].type = rows[k].type /\ rows'[k].to = rows[k].to
      /\ rows'[k].from = rows[k].from /\ rows'[k].amount = rows[k].amount
      /\ rows'[k].created = rows[k].created
  BY <1>1 DEF Row
<1>3. rows'[k].straddles = rows[k].straddles /\ rows'[k].fresh = rows[k].fresh
  BY <1>1, Zenon DEF Row
<1>4. (rows'[k].straddles <=> rows[k].straddles) /\ (rows'[k].fresh <=> rows[k].fresh)
  BY <1>3, Zenon
<1> QED
  BY <1>1, <1>2, <1>4

\* A withdrawal is paid out, or reversed into the wallet.
LEMMA WithdrawalStep ==
  ASSUME Inv, NEW k \in References, NEW status \in {"completed", "reversed"},
         ResolveWithdrawal(k, status)
  PROVE  Inv'
<1> PICK u : rows[k].from = u
  OBVIOUS
<1> PICK back : back = IF status = "reversed" THEN rows[k].amount ELSE 0
  OBVIOUS
<1>1. /\ TypeOK /\ RowTrue(k) /\ rows[k].type = "withdrawal" /\ rows[k].status = "pending"
      /\ u \in Users /\ rows[k].amount \in Nat /\ back \in Nat
      /\ UNCHANGED <<job, pc, locks, today>>
  BY DEF Inv, RowTrue, TypeOK, Row, ResolveWithdrawal
<1>2. /\ balance' = [balance EXCEPT ![u] = @ + back] /\ exempt' = [exempt EXCEPT ![u] = @ + back]
      /\ rows' = [rows EXCEPT ![k].status = status] /\ status \in RowStatus
  BY DEF ResolveWithdrawal, RowStatus
<1>3. /\ rows' \in [References -> Row] /\ OnlyRow(k) /\ rows'[k].status = status
      /\ rows'[k].type = rows[k].type /\ rows'[k].to = rows[k].to
      /\ rows'[k].from = rows[k].from /\ rows'[k].amount = rows[k].amount
      /\ rows'[k].created = rows[k].created
      /\ rows'[k].straddles <=> rows[k].straddles
      /\ rows'[k].fresh <=> rows[k].fresh
  BY <1>1, <1>2, Rewritten
<1>4. TypeOK'
  BY <1>1, <1>2, <1>3 DEF TypeOK
<1>5. /\ balance[u] \in Int /\ exempt[u] \in Nat
      /\ balance'[u] = balance[u] + back /\ exempt'[u] = exempt[u] + back
      /\ \A v \in Users \ {u} : balance'[v] = balance[v] /\ exempt'[v] = exempt[v]
  BY <1>1, <1>2 DEF TypeOK
<1>6. /\ exempt'[u] >= exempt[u] /\ balance'[u] - exempt'[u] <= balance[u] - exempt[u]
      /\ exempt'[u] > 0 \/ balance'[u] <= balance[u]
  BY <1>1, <1>5
<1>7. RowTrue(k)' /\ ~Pending(k) /\ ~Pending(k)'
  BY <1>1, <1>3 DEF RowTrue, Pending
<1> QED
  BY <1>1, <1>3, <1>4, <1>5, <1>6, <1>7, MovementStep

\* A chargeback takes a funding back.
LEMMA ChargebackStep ==
  ASSUME Inv, NEW k \in References, RecordChargeback(k)
  PROVE  Inv'
<1> PICK u : rows[k].to = u
  OBVIOUS
<1> PICK amount : rows[k].amount = amount
  OBVIOUS
<1>1. /\ TypeOK /\ RowTrue(k) /\ rows[k].type = "funding" /\ rows[k].status = "completed"
      /\ u \in Users /\ amount \in Nat
      /\ UNCHANGED <<exempt, job, pc, locks, today>>
  BY DEF Inv, RowTrue, TypeOK, Row, RecordChargeback
<1>2. /\ balance' = [balance EXCEPT ![u] = @ - amount]
      /\ rows' = [rows EXCEPT ![k].status = "disputed", ![k].chargedBack = TRUE]
      /\ "disputed" \in RowStatus
  BY DEF RecordChargeback, RowStatus
<1>3. /\ rows' \in [References -> Row] /\ OnlyRow(k) /\ rows'[k].status = "disputed"
      /\ rows'[k].type = rows[k].type /\ rows'[k].to = rows[k].to
      /\ rows'[k].from = rows[k].from /\ rows'[k].amount = rows[k].amount
      /\ rows'[k].created = rows[k].created
      /\ rows'[k].straddles <=> rows[k].straddles
      /\ rows'[k].fresh <=> rows[k].fresh
  BY <1>1, <1>2, Rewritten
<1>4. TypeOK'
  BY <1>1, <1>2, <1>3 DEF TypeOK
<1>5. /\ balance[u] \in Int /\ exempt[u] \in Nat
      /\ balance'[u] = balance[u] - amount /\ exempt'[u] = exempt[u]
      /\ \A v \in Users \ {u} : balance'[v] = balance[v] /\ exempt'[v] = exempt[v]
  BY <1>1, <1>2 DEF TypeOK
<1>6. /\ exempt'[u] >= exempt[u] /\ balance'[u] - exempt'[u] <= balance[u] - exempt[u]
      /\ balance'[u] <= balance[u]
  BY <1>1, <1>5
<1>7. RowTrue(k)' /\ ~Pending(k) /\ ~Pending(k)'
  BY <1>1, <1>3 DEF RowTrue, Pending
<1> QED
  BY <1>1, <1>3, <1>4, <1>5, <1>6, <1>7, MovementStep

\* A dispute won gives the funding back past the cap.
LEMMA FavorStep ==
  ASSUME Inv, NEW k \in References, ResolveInCliqpaysFavor(k)
  PROVE  Inv'
<1> PICK u : rows[k].to = u
  OBVIOUS
<1> PICK amount : rows[k].amount = amount
  OBVIOUS
<1>1. /\ TypeOK /\ RowTrue(k) /\ rows[k].type = "funding" /\ rows[k].status = "disputed"
      /\ u \in Users /\ amount \in Nat
      /\ UNCHANGED <<job, pc, locks, today>>
  BY DEF Inv, RowTrue, TypeOK, Row, ResolveInCliqpaysFavor
<1>2. /\ /\ balance' = [balance EXCEPT ![u] = @ + amount]
      /\ exempt' = [exempt EXCEPT ![u] = @ + amount]
      /\ rows' = [rows EXCEPT ![k].status = "completed"] /\ "completed" \in RowStatus
  BY DEF ResolveInCliqpaysFavor, RowStatus
<1>3. /\ rows' \in [References -> Row] /\ OnlyRow(k) /\ rows'[k].status = "completed"
      /\ rows'[k].type = rows[k].type /\ rows'[k].to = rows[k].to
      /\ rows'[k].from = rows[k].from /\ rows'[k].amount = rows[k].amount
      /\ rows'[k].created = rows[k].created
      /\ rows'[k].straddles <=> rows[k].straddles
      /\ rows'[k].fresh <=> rows[k].fresh
  BY <1>1, <1>2, Rewritten
<1>4. TypeOK'
  BY <1>1, <1>2, <1>3 DEF TypeOK
<1>5. /\ balance[u] \in Int /\ exempt[u] \in Nat
      /\ balance'[u] = balance[u] + amount /\ exempt'[u] = exempt[u] + amount
      /\ \A v \in Users \ {u} : balance'[v] = balance[v] /\ exempt'[v] = exempt[v]
  BY <1>1, <1>2 DEF TypeOK
<1>6. /\ exempt'[u] >= exempt[u] /\ balance'[u] - exempt'[u] <= balance[u] - exempt[u]
      /\ exempt'[u] > 0 \/ balance'[u] <= balance[u]
  BY <1>1, <1>5
<1>7. RowTrue(k)' /\ ~Pending(k) /\ ~Pending(k)'
  BY <1>1, <1>3 DEF RowTrue, Pending
<1> QED
  BY <1>1, <1>3, <1>4, <1>5, <1>6, <1>7, MovementStep

-----------------------------------------------------------------------------
(* The theorems *)

LEMMA InvInit == Init => Inv
<1> SUFFICES ASSUME Init PROVE Inv
  OBVIOUS
<1>1. NoRow \in Row /\ NoJob \in Job
  BY LimitsAssumption DEF NoRow, Row, RowStatus, NoJob, Job, Nobody
<1>2. TypeOK
  BY <1>1, LimitsAssumption DEF Init, TypeOK, Step
<1>3. LocksApart
  BY DEF Init, LocksApart
<1>4. \A r \in References : rows[r] = NoRow
  BY DEF Init
<1>5. \A r \in References : RowTrue(r)
  <2>1. NoRow.type = "none" /\ NoRow.status = "none"
    BY DEF NoRow
  <2> QED
    BY <1>4, <2>1 DEF RowTrue
<1>6. \A r \in References, u \in Users :
        FundingTerm(r, u) = 0 /\ \A day \in Nat : DebitTerm(r, u, day) = 0
  BY <1>4 DEF FundingTerm, DebitTerm, Pending, NoRow
<1>7. NumReferences \in Nat /\ References = 1..NumReferences
  BY LimitsAssumption DEF References
<1>8. \A u \in Users : PendingFunding(u) = 0
  <2> TAKE u \in Users
  <2> DEFINE f == [r \in References |-> FundingTerm(r, u)]
  <2>1. PendingFunding(u) = SumUpTo(f, NumReferences)
    BY DEF PendingFunding, FundingTerm
  <2>2. f = [i \in 1..NumReferences |-> 0]
    BY <1>6, <1>7
  <2> HIDE DEF f
  <2> QED
    BY <1>7, <2>1, <2>2, SumZero
<1>9. \A u \in Users, day \in Nat : DebitedOn(u, day) = 0
  <2> TAKE u \in Users, day \in Nat
  <2> DEFINE f == [r \in References |-> DebitTerm(r, u, day)]
  <2>1. DebitedOn(u, day) = SumUpTo(f, NumReferences)
    BY DEF DebitedOn
  <2>2. f = [i \in 1..NumReferences |-> 0]
    BY <1>6, <1>7
  <2> HIDE DEF f
  <2> QED
    BY <1>7, <2>1, <2>2, SumZero
<1>10. \A u \in Users : CapTrue(u)
  BY <1>8, LimitsAssumption DEF CapTrue, Init
<1>11. \A u \in Users : DaysTrue(u)
  BY <1>9, LimitsAssumption DEF DaysTrue
<1>12. \A w \in Workers : JobWellFormed(w) /\ JobPromised(w)
  BY DEF Init, JobWellFormed, JobPromised, At
<1> QED
  BY <1>2, <1>3, <1>5, <1>10, <1>11, <1>12 DEF Inv

LEMMA InvStep == Inv /\ [Next]_vars => Inv'
<1> SUFFICES ASSUME Inv, [Next]_vars PROVE Inv'
  OBVIOUS
<1>1. ASSUME NEW w \in Workers, Continue(w) PROVE Inv'
  BY <1>1, AcquireStep, FundStep, DebitStep, CompletionStep, InitiateStep, RecordStep DEF Continue
<1>2. ASSUME NEW w \in Workers, Crash(w) PROVE Inv'
  BY <1>2, EndStep DEF Crash
<1>3. ASSUME NEW r \in References, Elsewhere(r) PROVE Inv'
  <2>1. ASSUME NEW outcome, Pay(r, outcome) PROVE Inv'
    BY <2>1, IdleStep DEF Pay
  <2> QED
    BY <1>3, <2>1, FadeStep, WithdrawalStep, ChargebackStep, FavorStep DEF Elsewhere
<1>4. CASE Midnight
  BY <1>4, IdleStep DEF Midnight
<1>5. CASE UNCHANGED vars
  BY <1>5, IdleStep DEF vars
<1>6. ASSUME NEW w \in Workers, AbortDeadlocked(w) PROVE Inv'
  BY <1>6, EndStep DEF AbortDeadlocked
<1> QED
  BY <1>1, <1>2, <1>3, <1>4, <1>5, <1>6, ArrivalStep DEF Next

\* The inductive invariant holds in every reachable state.
THEOREM InvHolds == Spec => []Inv
BY InvInit, InvStep, PTL DEF Spec

\* For every number of users and overlapping calls, caps and lock keys: a
\* capped wallet never holds more than its cap and what evaluateBalanceCapLocked
\* was never asked about.
THEOREM CapHeld == Spec => []BalanceCapHeld
<1>1. Inv => BalanceCapHeld
  BY DEF Inv, CapTrue, BalanceCapHeld
<1> QED
  BY <1>1, InvHolds, PTL

\* The room fundWallet granted is kept: checkIncomingCredit holds a paid funding
\* only if money came back past the limits or a funding outlived its window.
THEOREM HoldsJustified == Spec => []HeldOnlyIfDisturbed
<1>1. Inv => HeldOnlyIfDisturbed
  BY DEF Inv, RowTrue, Disturbed, HeldOnlyIfDisturbed
<1> QED
  BY <1>1, InvHolds, PTL

\* checkDailyLimitLocked: transfers and withdrawals that race never debit more
\* than the limit on one day, for every number of days.
THEOREM DailyHeld == Spec => []DailyLimitHeld
<1>1. Inv => DailyLimitHeld
  <2> SUFFICES ASSUME Inv, NEW u \in Users, NEW day \in 1..MaxDay
               PROVE  DebitedOn(u, day) <= DailyLimit[u]
    BY DEF DailyLimitHeld, DebitedOn, DebitTerm
  <2>1. day \in Nat
    BY LimitsAssumption
  <2> QED
    BY <2>1 DEF Inv, DaysTrue
<1> QED
  BY <1>1, InvHolds, PTL

-----------------------------------------------------------------------------
(* The order of the locks *)

TookForPair(w, k) == job[w].kind = "transfer" /\ k = PairLock(job[w].from, job[w].to)

\* A call that waits has taken its pair's lock before any other, and those of its
\* users in the order of their keys.
LocksInOrder(w) ==
  /\ pc[w] \notin {"lock", "post"} => locks[w] = {}
  /\ At(w, "lock") =>
       LET missing == WantedLocks(job[w]) \ locks[w] IN
       /\ missing # {} /\ locks[w] \subseteq WantedLocks(job[w])
       /\ locks[w] # {} /\ job[w].kind = "transfer" =>
            PairLock(job[w].from, job[w].to) \in locks[w]
       /\ \A k \in locks[w], m \in missing : TookForPair(w, k) \/ k < m

LEMMA KeysBounded == MaxKey \in Nat /\ \A k \in Keys : k \in Int /\ MaxKey - k \in Nat
BY LimitsAssumption DEF Keys

\* The keys a call may ask for.
LEMMA JobKeys ==
  ASSUME Inv, NEW w \in Workers, At(w, "lock")
  PROVE  /\ JobUsers(job[w]) \subseteq Users /\ JobUsers(job[w]) # {}
         /\ \A u \in Users : UserLock(u) \in Keys
<1>1. JobWellFormed(w) /\ job[w].from \in 0..NumUsers /\ job[w].to \in 0..NumUsers
      /\ NumUsers \in Nat
  BY LimitsAssumption DEF Inv, TypeOK, Job
<1>2. JobUsers(job[w]) \subseteq Users
  BY <1>1 DEF JobUsers, Users, Nobody
<1>3. JobUsers(job[w]) # {}
  BY <1>1 DEF JobUsers, JobWellFormed, At, Users, Nobody
<1>4. \A u \in Users : UserLock(u) \in Keys
  BY LimitsAssumption DEF UserLock
<1> QED
  BY <1>2, <1>3, <1>4

\* What is asked for next: the pair's lock, or the least of the users' that are
\* missing.
LEMMA AskedNext ==
  ASSUME Inv, NEW w \in Workers, At(w, "lock"), WantedLocks(job[w]) \ locks[w] # {}
  PROVE  /\ NextLock(w) \in WantedLocks(job[w]) \ locks[w]
         /\ \/ TookForPair(w, NextLock(w))
            \/ \E u \in JobUsers(job[w]) : NextLock(w) = UserLock(u)
         /\ \/ TookForPair(w, NextLock(w))
            \/ \A k \in WantedLocks(job[w]) \ locks[w] : NextLock(w) <= k
<1> DEFINE missing == WantedLocks(job[w]) \ locks[w]
           pair == PairLock(job[w].from, job[w].to)
<1>1. CASE job[w].kind = "transfer" /\ pair \in missing
  BY <1>1 DEF NextLock, TookForPair
<1>2. CASE ~(job[w].kind = "transfer" /\ pair \in missing)
  <2>1. NextLock(w) = CHOOSE l \in missing : \A k \in missing : l <= k
    BY <1>2 DEF NextLock
  <2>2. missing \subseteq {UserLock(u) : u \in JobUsers(job[w])}
    BY <1>2 DEF WantedLocks
  <2>3. missing \subseteq {UserLock(job[w].from), UserLock(job[w].to)}
    BY <2>2 DEF JobUsers
  <2>4. missing \subseteq Int
    BY <2>2, JobKeys, KeysBounded
  <2> HIDE DEF missing
  <2>5. \E l \in missing : \A k \in missing : l <= k
    <3> DEFINE a == UserLock(job[w].from)
               b == UserLock(job[w].to)
    <3>1. missing # {} /\ missing \subseteq {a, b}
      BY <2>3 DEF missing
    <3> HIDE DEF a, b
    <3> QED
      BY <2>4, <3>1
  <2>6. NextLock(w) \in missing /\ \A k \in missing : NextLock(w) <= k
    BY <2>1, <2>5
  <2> QED
    BY <2>2, <2>6 DEF missing
<1> QED
  BY <1>1, <1>2

LEMMA OrderStep ==
  ASSUME Inv, Inv', [Next]_vars, NEW w \in Workers, LocksInOrder(w)
  PROVE  LocksInOrder(w)'
<1>1. TypeOK /\ TypeOK'
  BY DEF Inv
<1>2. CASE UNCHANGED <<pc, locks, job>>
  BY <1>2 DEF LocksInOrder, TookForPair, At
<1>3. CASE UNCHANGED <<pc[w], locks[w], job[w]>>
  BY <1>3 DEF LocksInOrder, TookForPair, At, WantedLocks, JobUsers
<1>4. CASE pc'[w] # "lock" /\ (locks'[w] = {} \/ pc'[w] = "post")
  BY <1>4 DEF LocksInOrder, At
<1>5. ASSUME NEW v \in Workers, NEW j, Begin(v, j) PROVE LocksInOrder(w)'
  <2>1. CASE v = w
    <3>1. locks'[w] = {} /\ pc'[w] = "lock"
      BY <1>1, <1>5, <2>1 DEF Begin, Goto, At, TypeOK, LocksInOrder
    <3>2. JobUsers(job[w])' # {}
      <4>1. JobWellFormed(w)' /\ job'[w].from \in 0..NumUsers /\ job'[w].to \in 0..NumUsers
            /\ NumUsers \in Nat
        BY <1>1, LimitsAssumption DEF Inv, TypeOK, Job
      <4> QED
        BY <3>1, <4>1 DEF JobUsers, JobWellFormed, Users, Nobody
    <3>3. WantedLocks(job[w])' # {}
      BY <3>2 DEF WantedLocks
    <3> QED
      BY <3>1, <3>3 DEF LocksInOrder, At
  <2>2. CASE v # w
    BY <1>1, <1>3, <1>5, <2>2 DEF Begin, Goto, TypeOK
  <2> QED
    BY <2>1, <2>2
<1>6. ASSUME NEW v \in Workers, EndJob(v), Release(v) \/ (UNCHANGED locks /\ pc[v] \notin {"lock", "post"})
      PROVE  LocksInOrder(w)'
  <2>1. CASE v = w
    BY <1>1, <1>4, <1>6, <2>1 DEF EndJob, Release, Goto, TypeOK, LocksInOrder
  <2>2. CASE v # w
    BY <1>1, <1>3, <1>6, <2>2 DEF EndJob, Release, Goto, TypeOK
  <2> QED
    BY <2>1, <2>2
<1>7. ASSUME NEW v \in Workers, AcquireLock(v) PROVE LocksInOrder(w)'
  <2> DEFINE l == NextLock(v)
  <2>1. CASE v # w
    BY <1>1, <1>3, <1>7, <2>1 DEF AcquireLock, Check, EndJob, Release, Goto, TypeOK
  <2>2. CASE v = w /\ Check(w)
    BY <1>1, <1>4, <2>2 DEF Check, EndJob, Release, Goto, TypeOK
  <2>3. CASE /\ v = w /\ UNCHANGED <<job, pc>> /\ locks' = [locks EXCEPT ![w] = @ \cup {l}]
             /\ locks[w] \cup {l} # WantedLocks(job[w])
    <3> DEFINE wanted == WantedLocks(job[w])
    <3>1. /\ At(w, "lock") /\ wanted \ locks[w] # {} /\ locks[w] \subseteq wanted
          /\ locks[w] # {} /\ job[w].kind = "transfer" =>
               PairLock(job[w].from, job[w].to) \in locks[w]
          /\ \A k \in locks[w], m \in wanted \ locks[w] : TookForPair(w, k) \/ k < m
      BY <1>7, <2>3 DEF AcquireLock, LocksInOrder
    <3>2. /\ l \in wanted \ locks[w]
          /\ TookForPair(w, l) \/ \A k \in wanted \ locks[w] : l <= k
      BY <2>3, <3>1, AskedNext
    <3>3. wanted \subseteq Int
      <4>1. \A u \in JobUsers(job[w]) : UserLock(u) \in Int
        BY <3>1, JobKeys, KeysBounded
      <4>2. job[w].kind = "transfer" => PairLock(job[w].from, job[w].to) \in Int
        <5>1. job[w].from \in 0..NumUsers /\ job[w].to \in 0..NumUsers /\ JobWellFormed(w)
              /\ NumUsers \in Nat
          BY <1>1, LimitsAssumption DEF Inv, TypeOK, Job
        <5>2. job[w].kind = "transfer" => job[w].from \in Users /\ job[w].to \in Users
          BY <3>1, <5>1 DEF JobWellFormed, At, Users, Nobody
        <5> QED
          BY <5>2, LimitsAssumption, KeysBounded DEF PairLock
      <4> QED
        BY <4>1, <4>2 DEF WantedLocks
    <3>4. locks'[w] = locks[w] \cup {l} /\ wanted \ locks'[w] # {}
      BY <1>1, <2>3, <3>1, <3>2 DEF TypeOK
    <3>5. locks[w] = {} /\ job[w].kind = "transfer" => l = PairLock(job[w].from, job[w].to)
      BY <2>3 DEF NextLock, WantedLocks
    <3> HIDE DEF l
    <3>6. \A k \in locks'[w], m \in wanted \ locks'[w] : TookForPair(w, k) \/ k < m
      BY <3>1, <3>2, <3>3, <3>4
    <3>7. job[w].kind = "transfer" => PairLock(job[w].from, job[w].to) \in locks'[w]
      BY <3>1, <3>4, <3>5
    <3>8. /\ job'[w] = job[w] /\ pc'[w] = "lock" /\ WantedLocks(job[w])' = wanted
          /\ \A k : TookForPair(w, k)' <=> TookForPair(w, k)
      BY <2>3, <3>1 DEF At, WantedLocks, JobUsers, TookForPair
    <3> QED
      BY <3>1, <3>2, <3>4, <3>6, <3>7, <3>8 DEF LocksInOrder, At
  <2> QED
    BY <1>7, <2>1, <2>2, <2>3 DEF AcquireLock
<1>8. ASSUME NEW v \in Workers, Continue(v) PROVE LocksInOrder(w)'
  <2>1. ASSUME PostFundRequest(v) PROVE LocksInOrder(w)'
    <3>1. CASE v = w
      BY <1>1, <1>4, <2>1, <3>1 DEF PostFundRequest, EndJob, Release, Goto, TypeOK
    <3>2. CASE v # w
      BY <1>1, <1>3, <2>1, <3>2 DEF PostFundRequest, EndJob, Release, Goto, TypeOK
    <3> QED
      BY <3>1, <3>2
  <2>2. ASSUME PostDebit(v) \/ PostCompletion(v) PROVE LocksInOrder(w)'
    BY <1>6, <2>2 DEF PostDebit, PostCompletion
  <2>3. ASSUME NEW outcome, InitiatePayment(v, outcome) PROVE LocksInOrder(w)'
    <3>1. CASE v = w
      BY <1>1, <1>4, <2>3, <3>1 DEF InitiatePayment, Goto, TypeOK, At, LocksInOrder
    <3>2. CASE v # w
      BY <1>1, <1>3, <2>3, <3>2 DEF InitiatePayment, Goto, TypeOK
    <3> QED
      BY <3>1, <3>2
  <2>4. ASSUME SetFundingCheckoutUrl(v) \/ MarkFundingTransactionFailed(v) PROVE LocksInOrder(w)'
    BY <1>6, <2>4 DEF SetFundingCheckoutUrl, MarkFundingTransactionFailed, At
  <2> QED
    BY <1>7, <1>8, <2>1, <2>2, <2>3, <2>4 DEF Continue
<1>9. ASSUME NEW v \in Workers, AbortDeadlocked(v) \/ Crash(v) PROVE LocksInOrder(w)'
  BY <1>6, <1>9 DEF AbortDeadlocked, Crash
<1>10. ASSUME NEW v \in Workers, NEW r \in References,
              (\E q \in Requests : Receive(v, r, q))
                \/ (\E source \in {"webhook", "poll"} : CompleteFunding(v, r, source))
       PROVE  LocksInOrder(w)'
  BY <1>5, <1>10 DEF Receive, CompleteFunding
<1>11. ASSUME NEW r \in References, Elsewhere(r) PROVE LocksInOrder(w)'
  BY <1>2, <1>11 DEF Elsewhere, Pay, FailFunding, ResolveWithdrawal, RecordChargeback,
                     ResolveInCliqpaysFavor, LeaveWindow
<1>12. CASE Midnight \/ UNCHANGED vars
  BY <1>2, <1>12 DEF Midnight, vars
<1> QED
  BY <1>8, <1>9, <1>10, <1>11, <1>12 DEF Next, Settle

\* Where no call of a circle waits for a user's key that another took for its
\* pair, the keys they wait for would grow for ever.
LEMMA CyclesCollide ==
  ASSUME Inv, \A w \in Workers : LocksInOrder(w)
  PROVE  CyclesNeedCollision
<1> SUFFICES ASSUME NEW S \in SUBSET Workers, Cycle(S)
             PROVE  \E v, w \in S : \E u \in JobUsers(job[w]) :
                      /\ WaitsFor(w, v) /\ NextLock(w) = UserLock(u)
                      /\ job[v].kind = "transfer"
                      /\ UserLock(u) = PairLock(job[v].from, job[v].to)
  BY DEF CyclesNeedCollision
<1>1. ASSUME NEW w \in S
      PROVE  /\ At(w, "lock") /\ NextLock(w) \in WantedLocks(job[w]) \ locks[w]
             /\ \A k \in locks[w] : TookForPair(w, k) \/ k < NextLock(w)
             /\ \E u \in JobUsers(job[w]) : NextLock(w) = UserLock(u)
             /\ NextLock(w) \in Keys
  <2>1. At(w, "lock") /\ locks[w] # {}
    BY DEF Cycle, WaitsFor
  <2>2. /\ NextLock(w) \in WantedLocks(job[w]) \ locks[w]
        /\ TookForPair(w, NextLock(w)) \/ \E u \in JobUsers(job[w]) : NextLock(w) = UserLock(u)
    BY <2>1, AskedNext DEF LocksInOrder
  <2>3. ~TookForPair(w, NextLock(w))
    BY <2>1, <2>2 DEF LocksInOrder, TookForPair
  <2> QED
    BY <2>1, <2>2, <2>3, JobKeys DEF LocksInOrder
<1> DEFINE distance(w) == MaxKey - NextLock(w)
<1>2. \A w \in S : distance(w) \in Nat
  BY <1>1, KeysBounded
<1>3. PICK w \in S : \A x \in S : NextLock(x) <= NextLock(w)
  <2>1. {distance(w) : w \in S} \in SUBSET Nat /\ {distance(w) : w \in S} # {}
    BY <1>2 DEF Cycle
  <2>2. PICK d \in {distance(w) : w \in S} : \A e \in {distance(w) : w \in S} : d <= e
    BY <2>1, NatLeast
  <2>3. PICK w \in S : d = distance(w)
    BY <2>2
  <2>4. \A x \in S : distance(w) <= distance(x)
    BY <2>2, <2>3
  <2>5. \A x \in S : NextLock(x) \in Int
    BY <1>1, KeysBounded
  <2> QED
    BY <2>4, <2>5, KeysBounded
<1>4. PICK v \in S : WaitsFor(w, v)
  BY DEF Cycle
<1>5. NextLock(w) \in locks[v] /\ NextLock(w) \in Int /\ NextLock(v) \in Int
  BY <1>1, <1>4, KeysBounded DEF WaitsFor
<1>6. TookForPair(v, NextLock(w))
  BY <1>1, <1>3, <1>5
<1> QED
  BY <1>1, <1>4, <1>6 DEF TookForPair

\* For every number of users and overlapping calls, and however hashtext maps
\* them to keys: calls wait for each other in a circle only where a user that one
\* of them locks has the key of the pair that another has locked.
THEOREM DeadlocksNeedCollisions == Spec => []CyclesNeedCollision
<1> DEFINE Ordered == \A w \in Workers : LocksInOrder(w)
<1>1. Init => Ordered
  BY DEF Init, LocksInOrder, At
<1>2. Inv /\ Inv' /\ Ordered /\ [Next]_vars => Ordered'
  BY OrderStep
<1>3. Inv /\ Ordered => CyclesNeedCollision
  BY CyclesCollide
<1> QED
  BY <1>1, <1>2, <1>3, InvHolds, PTL DEF Spec
=============================================================================
