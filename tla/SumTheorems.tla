----------------------------- MODULE SumTheorems -----------------------------
(***************************************************************************)
(* What SumUpTo computes.  The induction is by minimal counterexample on   *)
(* the table of partial sums.                                              *)
(***************************************************************************)
EXTENDS Sums, WellFoundedInduction, TLAPS

\* s is the table of the partial sums of f up to n.
IsTable(s, f, n) == s = [i \in 0..n |-> IF i = 0 THEN 0 ELSE s[i-1] + f[i]]

\* A nonempty set of naturals has a least element.
LEMMA NatLeast ==
  ASSUME NEW T \in SUBSET Nat, T # {}
  PROVE  \E m \in T : \A k \in T : m <= k
<1>1. \E x \in T : \A y \in T : ~ (<<y, x>> \in OpToRel(<, Nat))
  BY NatLessThanWellFounded, WFMin
<1>2. PICK x \in T : \A y \in T : ~ (<<y, x>> \in OpToRel(<, Nat))
  BY <1>1
<1>3. \A y \in T : ~(y < x)
  BY <1>2 DEF OpToRel
<1> QED BY <1>3

\* Every finite integer sequence has an integer table of partial sums.
LEMMA TableExists ==
  ASSUME NEW n \in Nat, NEW f \in [1..n -> Int]
  PROVE  \E s \in [0..n -> Int] : IsTable(s, f, n)
<1> DEFINE T == {k \in 0..n : ~ \E s \in [0..k -> Int] : IsTable(s, f, k)}
<1>1. SUFFICES ASSUME T # {} PROVE FALSE
  BY SMT
<1>2. PICK k \in T : \A j \in T : k <= j
  <2>1. T \in SUBSET Nat OBVIOUS
  <2> HIDE DEF T
  <2> QED BY <2>1, <1>1, NatLeast
<1>3. CASE k = 0
  <2> DEFINE s == [i \in 0..0 |-> 0]
  <2>1. s \in [0..0 -> Int] /\ IsTable(s, f, 0) BY DEF IsTable
  <2> QED BY <2>1, <1>3
<1>4. CASE k > 0
  <2>1. k-1 \in 0..n /\ k - 1 \notin T BY <1>2, <1>4
  <2>2. PICK s \in [0..k-1 -> Int] : IsTable(s, f, k-1) BY <2>1
  <2> DEFINE t == [i \in 0..k |-> IF i = k THEN s[k-1] + f[k] ELSE s[i]]
  <2>3. k \in 1..n /\ k-1 \in 0..k-1 BY <1>4
  <2>4. t \in [0..k -> Int] BY <2>2, <2>3
  <2>5. \A i \in 0..k-1 : s[i] = IF i = 0 THEN 0 ELSE s[i-1] + f[i]
    BY <2>2 DEF IsTable
  <2>6. \A i \in 0..k : t[i] = IF i = 0 THEN 0 ELSE t[i-1] + f[i]
    BY <2>5, <2>3
  <2>7. IsTable(t, f, k) BY <2>4, <2>6 DEF IsTable
  <2> QED BY <2>4, <2>7
<1> QED BY <1>2, <1>3, <1>4

\* Two tables of partial sums of one sequence end in the same value.
LEMMA TableUnique ==
  ASSUME NEW n \in Nat, NEW f, NEW s, NEW t, IsTable(s, f, n), IsTable(t, f, n)
  PROVE  s[n] = t[n]
<1> DEFINE T == {k \in 0..n : s[k] # t[k]}
<1>1. SUFFICES ASSUME T # {} PROVE FALSE
  OBVIOUS
<1>2. PICK k \in T : \A j \in T : k <= j
  <2>1. T \in SUBSET Nat OBVIOUS
  <2> HIDE DEF T
  <2> QED BY <2>1, <1>1, NatLeast
<1>3. \A i \in 0..n : s[i] = IF i = 0 THEN 0 ELSE s[i-1] + f[i]
  BY DEF IsTable
<1>4. \A i \in 0..n : t[i] = IF i = 0 THEN 0 ELSE t[i-1] + f[i]
  BY DEF IsTable
<1>5. k # 0 BY <1>3, <1>4
<1>6. k-1 \in 0..n /\ k-1 \notin T BY <1>2, <1>5
<1> QED BY <1>3, <1>4, <1>5, <1>6

\* SumUpTo, the SQL sum of the model, is the last entry of any table.
LEMMA SumIsTable ==
  ASSUME NEW n \in Nat, NEW f \in [1..n -> Int], NEW s, IsTable(s, f, n)
  PROVE  SumUpTo(f, n) = s[n]
<1> DEFINE C == CHOOSE S : S = [i \in 0..n |-> IF i = 0 THEN 0 ELSE S[i-1] + f[i]]
<1>1. IsTable(C, f, n)
  BY DEF IsTable
<1>2. SumUpTo(f, n) = C[n]
  BY DEF SumUpTo
<1> HIDE DEF C
<1> QED BY <1>1, <1>2, TableUnique

\* Changing one term of a sum by d changes the sum by d: what one posting
\* does to a total over accounts or rows.
LEMMA SumUpdate ==
  ASSUME NEW n \in Nat, NEW f \in [1..n -> Int], NEW w \in 1..n, NEW d \in Int
  PROVE  SumUpTo([f EXCEPT ![w] = f[w] + d], n) = SumUpTo(f, n) + d
<1> DEFINE g == [f EXCEPT ![w] = f[w] + d]
<1>1. PICK s \in [0..n -> Int] : IsTable(s, f, n) BY TableExists
<1> DEFINE t == [i \in 0..n |-> IF i >= w THEN s[i] + d ELSE s[i]]
<1>2. \A i \in 0..n : s[i] = IF i = 0 THEN 0 ELSE s[i-1] + f[i]
  BY <1>1 DEF IsTable
<1>3. \A i \in 0..n : t[i] = IF i = 0 THEN 0 ELSE t[i-1] + g[i]
  <2> TAKE i \in 0..n
  <2>1. CASE i = 0 BY <2>1, <1>2
  <2>2. CASE i > 0 /\ i < w BY <2>2, <1>2, <1>1
  <2>3. CASE i > 0 /\ i = w BY <2>3, <1>2, <1>1
  <2>4. CASE i > 0 /\ i > w BY <2>4, <1>2, <1>1
  <2> QED BY <2>1, <2>2, <2>3, <2>4
<1>4. IsTable(t, g, n) BY <1>3 DEF IsTable
<1>5. g \in [1..n -> Int] OBVIOUS
<1>6. SumUpTo(g, n) = t[n] BY <1>4, <1>5, SumIsTable
<1>7. SumUpTo(f, n) = s[n] BY <1>1, SumIsTable
<1> QED BY <1>6, <1>7, <1>1

\* A sum of integers is an integer.
LEMMA SumInt ==
  ASSUME NEW n \in Nat, NEW f \in [1..n -> Int]
  PROVE  SumUpTo(f, n) \in Int
<1>1. PICK s \in [0..n -> Int] : IsTable(s, f, n)
  BY TableExists
<1> QED
  BY <1>1, SumIsTable

\* A sum of zeros is zero: the totals of an empty ledger.
LEMMA SumZero ==
  ASSUME NEW n \in Nat
  PROVE  SumUpTo([i \in 1..n |-> 0], n) = 0
<1> DEFINE f == [i \in 1..n |-> 0]
           s == [i \in 0..n |-> 0]
<1>1. IsTable(s, f, n)
  BY DEF IsTable
<1>2. f \in [1..n -> Int]
  OBVIOUS
<1>3. SumUpTo(f, n) = s[n]
  <2> HIDE DEF f, s
  <2> QED BY <1>1, <1>2, SumIsTable
<1> QED
  BY <1>3

\* Two sums whose terms differ at one index differ as those terms do.
LEMMA SumChange ==
  ASSUME NEW n \in Nat, NEW f \in [1..n -> Int], NEW g \in [1..n -> Int],
         NEW k \in 1..n, \A i \in 1..n : i # k => g[i] = f[i]
  PROVE  SumUpTo(g, n) = SumUpTo(f, n) + (g[k] - f[k])
<1>1. g = [f EXCEPT ![k] = f[k] + (g[k] - f[k])]
  OBVIOUS
<1>2. g[k] - f[k] \in Int
  OBVIOUS
<1> QED
  BY <1>1, <1>2, SumUpdate

\* A sum whose terms are at most another's is at most the other.
LEMMA SumMonotone ==
  ASSUME NEW n \in Nat, NEW f \in [1..n -> Int], NEW g \in [1..n -> Int],
         \A i \in 1..n : f[i] <= g[i]
  PROVE  SumUpTo(f, n) <= SumUpTo(g, n)
<1>1. PICK s \in [0..n -> Int] : IsTable(s, f, n)
  BY TableExists
<1>2. PICK t \in [0..n -> Int] : IsTable(t, g, n)
  BY TableExists
<1>3. SumUpTo(f, n) = s[n] /\ SumUpTo(g, n) = t[n]
  BY <1>1, <1>2, SumIsTable
<1> DEFINE T == {k \in 0..n : ~(s[k] <= t[k])}
<1>4. SUFFICES ASSUME T # {} PROVE FALSE
  BY <1>3
<1>5. PICK k \in T : \A j \in T : k <= j
  <2>1. T \in SUBSET Nat OBVIOUS
  <2> HIDE DEF T
  <2> QED BY <2>1, <1>4, NatLeast
<1>6. \A i \in 0..n : s[i] = IF i = 0 THEN 0 ELSE s[i-1] + f[i]
  BY <1>1 DEF IsTable
<1>7. \A i \in 0..n : t[i] = IF i = 0 THEN 0 ELSE t[i-1] + g[i]
  BY <1>2 DEF IsTable
<1>8. k # 0
  BY <1>6, <1>7
<1>9. k-1 \in 0..n /\ k-1 \notin T /\ k \in 1..n
  BY <1>5, <1>8
<1>10. s[k-1] <= t[k-1]
  BY <1>9
<1>11. /\ s[k] = s[k-1] + f[k] /\ t[k] = t[k-1] + g[k] /\ f[k] <= g[k]
       /\ s[k-1] \in Int /\ t[k-1] \in Int /\ f[k] \in Int /\ g[k] \in Int
  BY <1>1, <1>2, <1>6, <1>7, <1>8, <1>9
<1>12. s[k] <= t[k]
  <2>1. \A a, b, c, d \in Int : a <= b /\ c <= d => a + c <= b + d
    OBVIOUS
  <2> HIDE DEF T
  <2>2. s[k-1] + f[k] <= t[k-1] + g[k]
    BY <1>10, <1>11, <2>1
  <2> QED
    BY <1>11, <2>2
<1> QED
  BY <1>12

\* A sum of naturals is not negative, and none of its terms exceeds it.
LEMMA SumNat ==
  ASSUME NEW n \in Nat, NEW f \in [1..n -> Int], \A i \in 1..n : f[i] >= 0
  PROVE  SumUpTo(f, n) >= 0 /\ \A k \in 1..n : f[k] <= SumUpTo(f, n)
<1> DEFINE zero == [i \in 1..n |-> 0]
<1>1. ASSUME NEW g \in [1..n -> Int], \A i \in 1..n : g[i] >= 0 PROVE SumUpTo(g, n) >= 0
  <2>1. zero \in [1..n -> Int] /\ \A i \in 1..n : zero[i] <= g[i]
    BY <1>1
  <2>2. SumUpTo(zero, n) = 0
    BY SumZero
  <2>3. SumUpTo(zero, n) <= SumUpTo(g, n)
    <3> HIDE DEF zero
    <3> QED BY <1>1, <2>1, SumMonotone
  <2> QED
    BY <1>1, <2>2, <2>3, SumInt
<1>2. ASSUME NEW k \in 1..n PROVE f[k] <= SumUpTo(f, n)
  <2> DEFINE g == [f EXCEPT ![k] = 0]
  <2>1. g \in [1..n -> Int] /\ (\A i \in 1..n : g[i] >= 0) /\ g[k] = 0
          /\ \A i \in 1..n : i # k => g[i] = f[i]
    OBVIOUS
  <2> HIDE DEF g
  <2>2. SumUpTo(g, n) = SumUpTo(f, n) + (g[k] - f[k])
    BY <2>1, SumChange
  <2>3. SumUpTo(g, n) >= 0 /\ SumUpTo(g, n) \in Int /\ SumUpTo(f, n) \in Int
    BY <1>1, <2>1, SumInt
  <2> QED
    BY <2>1, <2>2, <2>3
<1> QED
  BY <1>1, <1>2
=============================================================================
