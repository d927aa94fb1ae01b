---------------------------- MODULE ScannerProofs ----------------------------
(***************************************************************************)
(* What TLAPS proves of the announcement scanner, for all sets of scans,   *)
(* page sizes, worker counts and chains: what the cursor has passed is in  *)
(* the cache or excused, the excuses are recorded and exact, a scan that   *)
(* ends "Up to date" is, and no page waits for a request that is gone.     *)
(***************************************************************************)
EXTENDS Scanner, FiniteSetTheorems, TLAPS

USE ZenonT(20)

-----------------------------------------------------------------------------
(* Two numbers, and finite sets.                                           *)

\* The smaller and the larger of two numbers.
LEMMA MinOfTwo ==
  ASSUME NEW a \in Int, NEW b \in Int
  PROVE  Min({a, b}) = IF a <= b THEN a ELSE b
<1> DEFINE m == IF a <= b THEN a ELSE b
<1>1. m \in {a, b} /\ \A y \in {a, b} : m <= y
  BY SMTT(30)
<1>2. \A x \in {a, b} : (\A y \in {a, b} : x <= y) => x = m
  BY SMTT(30)
<1> HIDE DEF m
<1>3. Min({a, b}) = m
  BY <1>1, <1>2 DEF Min
<1> QED BY <1>3 DEF m

\* The same for the larger.
LEMMA MaxOfTwo ==
  ASSUME NEW a \in Int, NEW b \in Int
  PROVE  Max({a, b}) = IF a >= b THEN a ELSE b
<1> DEFINE m == IF a >= b THEN a ELSE b
<1>1. m \in {a, b} /\ \A y \in {a, b} : m >= y
  BY SMTT(30)
<1>2. \A x \in {a, b} : (\A y \in {a, b} : x >= y) => x = m
  BY SMTT(30)
<1> HIDE DEF m
<1>3. Max({a, b}) = m
  BY <1>1, <1>2 DEF Max
<1> QED BY <1>3 DEF m

\* A set of naturals that has an element has a least one.
LEMMA LeastExists ==
  ASSUME NEW N \in SUBSET Nat, N # {}
  PROVE  \E n \in N : \A m \in N : n <= m
<1> DEFINE Less == OpToRel(<, Nat)
<1>1. IsWellFoundedOn(Less, Nat)
  BY NatLessThanWellFounded
<1> HIDE DEF Less
<1>2. PICK n \in N : \A m \in N : ~ (<<m, n>> \in Less)
  BY <1>1, WFMin
<1>3. ASSUME NEW m \in N PROVE n <= m
  <2>1. <<m, n>> \notin Less
    BY <1>2
  <2>2. ~ (m < n)
    BY <2>1 DEF Less, OpToRel
  <2> QED BY <2>2, SMTT(30)
<1> QED BY <1>3

\* Induction over the subsets of a finite set: P is the set of the subsets for
\* which the claim holds.  A smallest counterexample has smaller subsets only.
LEMMA SubsetInduction ==
  ASSUME NEW S, IsFiniteSet(S), NEW P,
         \A s \in SUBSET S : (\A t \in SUBSET s : t # s => t \in P) => s \in P
  PROVE  SUBSET S \subseteq P
<1>1. SUFFICES ASSUME NEW u \in SUBSET S, u \notin P PROVE FALSE
  OBVIOUS
<1> DEFINE N == {Cardinality(s) : s \in {v \in SUBSET S : v \notin P}}
<1>2. \A s \in SUBSET S : IsFiniteSet(s) /\ Cardinality(s) \in Nat
  BY FS_Subset, FS_CardinalityType
<1>3. N \in SUBSET Nat /\ N # {}
  <2>1. Cardinality(u) \in N
    BY <1>1
  <2>2. ASSUME NEW n \in N PROVE n \in Nat
    <3>1. PICK s \in SUBSET S : n = Cardinality(s)
      BY <2>2
    <3> QED BY <3>1, <1>2
  <2> HIDE DEF N
  <2> QED BY <2>1, <2>2
<1>4. PICK n \in N : \A m \in N : n <= m
  <2> HIDE DEF N
  <2> QED BY <1>3, LeastExists
<1>5. PICK s \in SUBSET S : s \notin P /\ Cardinality(s) = n
  OBVIOUS
<1>6. ASSUME NEW t \in SUBSET s, t # s PROVE t \in P
  <2>1. t \in SUBSET S /\ Cardinality(t) \in Nat /\ n \in Nat
    BY <1>2, <1>5, <1>6
  <2>2. Cardinality(t) <= n /\ Cardinality(t) # n
    BY <1>2, <1>5, <1>6, FS_Subset
  <2>3. ~ (n <= Cardinality(t))
    BY <2>1, <2>2, SMTT(30)
  <2>4. Cardinality(t) \notin N
    <3> HIDE DEF N
    <3> QED BY <1>4, <2>3
  <2> QED BY <2>1, <2>4
<1> QED BY <1>5, <1>6

-----------------------------------------------------------------------------
(* The merge of the recorded ranges.                                       *)

\* The function a merge computes: g gives every subset of S its merged ranges.
Merges(g, S) ==
  g = [s \in SUBSET S |-> IF s = {} THEN <<>>
                          ELSE MergeNext(LastRange(s), g[s \ {LastRange(s)}])]

\* The merged ranges of a set.
Merged(S) == (CHOOSE g : Merges(g, S))[S]

\* A set of ranges of ledgers, none of them empty.
AreRanges(S) == S \in SUBSET (Nat \X Nat) /\ \A r \in S : r[1] <= r[2]

\* The merge of the library's fold is that function.
LEMMA MergeIs ==
  ASSUME NEW ranges, NEW range
  PROVE  mergeUnscannedRanges(ranges, range)
           = Merged({ranges[i] : i \in DOMAIN ranges} \cup {range})
BY SMTT(30) DEF mergeUnscannedRanges, MapThenFoldSet, Merged, Merges

\* A finite set of ranges has one that starts last.
LEMMA LastRangeFacts ==
  ASSUME NEW S, IsFiniteSet(S), AreRanges(S), S # {}
  PROVE  LastRange(S) \in S /\ \A q \in S : q[1] <= LastRange(S)[1]
<1> DEFINE Has(t) == \E r \in t : \A q \in t : q[1] <= r[1]
           P == {t \in SUBSET S : t # {} => Has(t)}
<1>1. ASSUME NEW s \in SUBSET S, \A t \in SUBSET s : t # s => t \in P
      PROVE  s \in P
  <2>1. SUFFICES ASSUME s # {} PROVE Has(s)
    OBVIOUS
  <2>2. PICK m : m \in s
    BY <2>1
  <2> DEFINE u == s \ {m}
  <2>3. u \in SUBSET s /\ u # s /\ \A q \in s : q = m \/ q \in u
    BY <2>2
  <2>4. u # {} => Has(u)
    <3> HIDE DEF Has, u
    <3> QED BY <1>1, <2>3
  <2>5. \A q \in s : q[1] \in Nat
    BY DEF AreRanges
  <2>6. CASE u = {}
    BY <2>2, <2>5, <2>6, SMTT(30)
  <2>7. CASE u # {}
    <3>1. PICK x \in u : \A q \in u : q[1] <= x[1]
      BY <2>4, <2>7
    <3>2. x \in s /\ x[1] \in Nat /\ m[1] \in Nat
      BY <2>2, <2>5, <3>1
    <3> HIDE DEF P, u
    <3>3. CASE m[1] <= x[1]
      <4>1. \A q \in s : q[1] <= x[1]
        BY <2>3, <3>1, <3>3
      <4> QED BY <3>2, <4>1
    <3>4. CASE ~ (m[1] <= x[1])
      <4>1. \A q \in s : q[1] <= m[1]
        BY <2>3, <2>5, <3>1, <3>2, <3>4, SMTT(30)
      <4> QED BY <2>2, <4>1
    <3> QED BY <3>3, <3>4
  <2> QED BY <2>6, <2>7
<1> HIDE DEF P, Has
<1>2. SUBSET S \subseteq P
  BY <1>1, SubsetInduction
<1>3. Has(S)
  BY <1>2 DEF P
<1> QED BY <1>3 DEF LastRange, Has

\* So has every subset of such a set, and the subset is of the same kind.
LEMMA PartFacts ==
  ASSUME NEW S, IsFiniteSet(S), AreRanges(S), NEW s \in SUBSET S
  PROVE  /\ IsFiniteSet(s) /\ AreRanges(s)
         /\ s # {} => /\ LastRange(s) \in s
                      /\ \A q \in s : q[1] <= LastRange(s)[1]
<1>1. IsFiniteSet(s) /\ AreRanges(s)
  BY FS_Subset DEF AreRanges
<1> QED BY <1>1, LastRangeFacts

\* The recursion equation, at one subset.
LEMMA MergesEquation ==
  ASSUME NEW S, NEW g, Merges(g, S), NEW s \in SUBSET S
  PROVE  g[s] = IF s = {} THEN <<>> ELSE MergeNext(LastRange(s), g[s \ {LastRange(s)}])
BY DEF Merges

\* The functions for a set and for a subset of it agree on the subset.
LEMMA MergesAgree ==
  ASSUME NEW S, NEW T, IsFiniteSet(T), AreRanges(T), T \subseteq S,
         NEW g, Merges(g, S), NEW h, Merges(h, T)
  PROVE  g[T] = h[T]
<1> DEFINE P == {t \in SUBSET T : g[t] = h[t]}
<1>1. ASSUME NEW s \in SUBSET T, \A t \in SUBSET s : t # s => t \in P PROVE s \in P
  <2> DEFINE u == s \ {LastRange(s)}
  <2>1. /\ g[s] = IF s = {} THEN <<>> ELSE MergeNext(LastRange(s), g[u])
        /\ h[s] = IF s = {} THEN <<>> ELSE MergeNext(LastRange(s), h[u])
    <3>1. s \in SUBSET S
      OBVIOUS
    <3>2. g[s] = IF s = {} THEN <<>> ELSE MergeNext(LastRange(s), g[u])
      BY <3>1, MergesEquation, SMTT(30)
    <3>3. h[s] = IF s = {} THEN <<>> ELSE MergeNext(LastRange(s), h[u])
      BY MergesEquation, SMTT(30)
    <3> QED BY <3>2, <3>3
  <2>2. s # {} => u \in P
    <3>1. ASSUME s # {} PROVE u \in SUBSET s /\ u # s
      BY <3>1, PartFacts
    <3> HIDE DEF P, u
    <3> QED BY <1>1, <3>1
  <2> QED BY <2>1, <2>2
<1> HIDE DEF P
<1>2. SUBSET T \subseteq P
  BY <1>1, SubsetInduction
<1> QED BY <1>2 DEF P

\* What the merge gives for a set whose function exists.
Fold(s) == IF s = {} THEN <<>> ELSE MergeNext(LastRange(s), Merged(s \ {LastRange(s)}))

\* If the functions exist for a set and its parts, Merged obeys the recursion.
LEMMA MergedRecursion ==
  ASSUME NEW S, IsFiniteSet(S), AreRanges(S),
         \A t \in SUBSET S : \E g : Merges(g, t)
  PROVE  Merged(S) = Fold(S)
<1> DEFINE u == S \ {LastRange(S)}
           g == CHOOSE g : Merges(g, S)
           h == CHOOSE h : Merges(h, u)
<1>1. Merges(g, S) /\ S \in SUBSET S
  OBVIOUS
<1>2. Merges(h, u) /\ u \in SUBSET S
  OBVIOUS
<1>3. IsFiniteSet(u) /\ AreRanges(u)
  BY <1>2, PartFacts
<1>4. Merged(S) = g[S] /\ Merged(u) = h[u]
  BY DEF Merged
<1> HIDE DEF g, h
<1>5. g[S] = IF S = {} THEN <<>> ELSE MergeNext(LastRange(S), g[u])
  BY <1>1, MergesEquation, SMTT(30)
<1> HIDE DEF u
<1>6. g[u] = h[u]
  BY <1>1, <1>2, <1>3, MergesAgree
<1> QED BY <1>4, <1>5, <1>6 DEF Fold, u

\* There is such a function for every finite set of ranges.
LEMMA MergesExist ==
  ASSUME NEW S, IsFiniteSet(S), AreRanges(S)
  PROVE  \A s \in SUBSET S : \E g : Merges(g, s)
<1> DEFINE P == {s \in SUBSET S : \E g : Merges(g, s)}
<1>1. ASSUME NEW s \in SUBSET S, \A t \in SUBSET s : t # s => t \in P PROVE s \in P
  <2>1. ASSUME NEW u \in SUBSET s, u # s PROVE Merged(u) = Fold(u)
    <3>1. \A t \in SUBSET u : t \in SUBSET s /\ t # s
      BY <2>1
    <3>2. \A t \in SUBSET u : \E g : Merges(g, t)
      BY <1>1, <3>1
    <3>3. IsFiniteSet(u) /\ AreRanges(u)
      BY PartFacts
    <3> HIDE DEF P
    <3> QED BY <3>2, <3>3, MergedRecursion
  <2> DEFINE k == [t \in SUBSET s |-> Fold(t)]
             e == [t \in SUBSET s |->
                     IF t = {} THEN <<>>
                     ELSE MergeNext(LastRange(t), k[t \ {LastRange(t)}])]
  <2>2. ASSUME NEW t \in SUBSET s PROVE k[t] = e[t]
    <3> DEFINE u == t \ {LastRange(t)}
    <3>1. CASE t = {}
      BY <3>1 DEF Fold
    <3>2. CASE t # {}
      <4>1. u \in SUBSET s /\ u # s
        BY <3>2, PartFacts
      <4>2. k[u] = Merged(u)
        <5> HIDE DEF u
        <5> QED BY <4>1, <2>1
      <4>3. k[t] = MergeNext(LastRange(t), Merged(u))
        BY <3>2 DEF Fold
      <4>4. e[t] = MergeNext(LastRange(t), k[u])
        <5> HIDE DEF k
        <5> QED BY <3>2
      <4> QED BY <4>2, <4>3, <4>4
    <3> QED BY <3>1, <3>2
  <2>3. k = e
    BY <2>2
  <2>4. Merges(k, s)
    BY <2>3 DEF Merges
  <2> QED BY <2>4
<1> HIDE DEF P
<1>2. SUBSET S \subseteq P
  BY <1>1, SubsetInduction
<1> QED BY <1>2 DEF P

\* So Merged obeys the recursion.
LEMMA MergedIs ==
  ASSUME NEW S, IsFiniteSet(S), AreRanges(S)
  PROVE  Merged(S) = Fold(S)
BY MergesExist, MergedRecursion

\* Ledger l lies in one of the ranges of a list, or of a set.
Listed(m, l) == \E i \in DOMAIN m : m[i][1] <= l /\ l <= m[i][2]
InSome(S, l) == \E r \in S : r[1] <= l /\ l <= r[2]

\* The list is sorted, and its ranges are not empty and do not meet.
Sorted(m) ==
  /\ m \in Seq(Nat \X Nat)
  /\ \A i \in 1 .. Len(m) : m[i][1] <= m[i][2]
  /\ \A i \in 1 .. (Len(m) - 1) : m[i][2] + 1 < m[i + 1][1]

\* The list holds just the ledgers of the set, and starts and ends where the set
\* does.
Lists(m, S) ==
  /\ \A l \in Int : Listed(m, l) <=> InSome(S, l)
  /\ \A i \in 1 .. Len(m) : \E r \in S : m[i][1] = r[1]
  /\ \A i \in 1 .. Len(m) : \E r \in S : m[i][2] = r[2]

\* A range that starts no earlier than the others joins the last one of the list
\* or goes after it.
LEMMA MergeNextFacts ==
  ASSUME NEW S, AreRanges(S), NEW m, Sorted(m), Lists(m, S),
         NEW r \in Nat \X Nat, r[1] <= r[2], \A q \in S : q[1] <= r[1]
  PROVE  Sorted(MergeNext(r, m)) /\ Lists(MergeNext(r, m), S \cup {r})
<1> DEFINE n == Len(m)
<1>1. n \in Nat /\ m \in [1 .. n -> Nat \X Nat] /\ (m = <<>> <=> n = 0)
  BY SMTT(30) DEF Sorted
<1>s. /\ m \in Seq(Nat \X Nat) /\ Len(m) = n
      /\ \A i \in 1 .. n : m[i][1] <= m[i][2]
      /\ \A i \in 1 .. (n - 1) : m[i][2] + 1 < m[i + 1][1]
  BY DEF Sorted
<1>l. /\ \A l \in Int : Listed(m, l) <=> InSome(S, l)
      /\ \A i \in 1 .. n : \E q \in S : m[i][1] = q[1]
      /\ \A i \in 1 .. n : \E q \in S : m[i][2] = q[2]
  BY DEF Lists
<1> HIDE DEF n
<1>2. \A i \in 1 .. n : /\ m[i] = <<m[i][1], m[i][2]>>
                        /\ m[i][1] \in Nat /\ m[i][2] \in Nat /\ m[i][1] <= r[1]
  <2>1. ASSUME NEW i \in 1 .. n
        PROVE  m[i] = <<m[i][1], m[i][2]>> /\ m[i][1] \in Nat /\ m[i][2] \in Nat
    BY <1>1, <2>1, SMTT(30)
  <2>2. ASSUME NEW i \in 1 .. n PROVE m[i][1] <= r[1]
    BY <2>2, <1>l
  <2> QED BY <2>1, <2>2
<1>3. r[1] \in Nat /\ r[2] \in Nat
  BY SMTT(30)
<1>4. \A l : InSome(S \cup {r}, l) <=> InSome(S, l) \/ (r[1] <= l /\ l <= r[2])
  BY DEF InSome
<1>5. CASE n # 0 /\ r[1] <= m[n][2] + 1
  <2> DEFINE top == Max({m[n][2], r[2]})
             x   == <<m[n][1], top>>
             k   == MergeNext(r, m)
  <2>1. n \in 1 .. n /\ m[n][1] \in Nat /\ m[n][2] \in Nat /\ m[n][1] <= r[1]
    BY <1>1, <1>2, <1>5, SMTT(30)
  <2>2. top = IF m[n][2] >= r[2] THEN m[n][2] ELSE r[2]
    <3>1. m[n][2] \in Int /\ r[2] \in Int
      BY <2>1, <1>3, SMTT(30)
    <3> QED BY <3>1, MaxOfTwo
  <2>3. k = [m EXCEPT ![n] = x]
    BY <1>1, <1>s, <1>5, <2>1 DEF MergeNext
  <2>4. /\ top \in Nat /\ top >= m[n][2] /\ top >= r[2]
        /\ top = m[n][2] \/ top = r[2]
    <3> HIDE DEF top
    <3> QED BY <2>1, <2>2, <1>3, SMTT(30)
  <2> HIDE DEF top, k
  <2>5. /\ k \in Seq(Nat \X Nat) /\ Len(k) = n /\ DOMAIN k = 1 .. n
        /\ k[n] = x /\ \A i \in 1 .. n : i # n => k[i] = m[i]
    <3>1. x \in Nat \X Nat
      BY <2>1, <2>4, SMTT(30)
    <3> HIDE DEF x
    <3>2. k \in [1 .. n -> Nat \X Nat]
      BY <1>1, <2>1, <2>3, <3>1
    <3>3. k[n] = x /\ \A i \in 1 .. n : i # n => k[i] = m[i]
      BY <1>1, <2>1, <2>3
    <3>4. k \in Seq(Nat \X Nat) /\ Len(k) = n
      BY <1>1, <3>2, SMTT(30)
    <3> QED BY <3>2, <3>3, <3>4
  <2>6. x[1] = m[n][1] /\ x[2] = top
    OBVIOUS
  <2> HIDE DEF x
  <2>7. Sorted(k)
    <3>1. ASSUME NEW i \in 1 .. n PROVE k[i][1] <= k[i][2]
      <4>1. m[i][1] <= m[i][2]
        BY <1>s
      <4>2. CASE i = n
        BY <4>1, <4>2, <2>1, <2>4, <2>5, <2>6, SMTT(30)
      <4>3. CASE i # n
        BY <4>1, <4>3, <2>5
      <4> QED BY <4>2, <4>3
    <3>2. ASSUME NEW i \in 1 .. (n - 1) PROVE k[i][2] + 1 < k[i + 1][1]
      <4>1. m[i][2] + 1 < m[i + 1][1]
        BY <1>s
      <4>2. i \in 1 .. n /\ i + 1 \in 1 .. n /\ i # n
        BY <1>1, <3>2, SMTT(30)
      <4>3. k[i] = m[i] /\ k[i + 1][1] = m[i + 1][1]
        BY <4>2, <2>5, <2>6
      <4> QED BY <4>1, <4>3
    <3> QED BY <2>5, <3>1, <3>2 DEF Sorted
  <2>8. ASSUME NEW l \in Int PROVE Listed(k, l) <=> InSome(S \cup {r}, l)
    <3>1. Listed(m, l) <=> InSome(S, l)
      BY <1>l
    <3>2. (x[1] <= l /\ l <= x[2])
             <=> (m[n][1] <= l /\ l <= m[n][2]) \/ (r[1] <= l /\ l <= r[2])
      BY <1>3, <1>5, <2>1, <2>4, <2>6, SMTT(30)
    <3>3. DOMAIN m = 1 .. n
      BY <1>1
    <3>4. Listed(k, l) <=> Listed(m, l) \/ (r[1] <= l /\ l <= r[2])
      BY <2>1, <2>5, <3>2, <3>3 DEF Listed
    <3> QED BY <1>4, <3>1, <3>4
  <2>9. ASSUME NEW i \in 1 .. n
        PROVE  (\E q \in S \cup {r} : k[i][1] = q[1]) /\ (\E q \in S \cup {r} : k[i][2] = q[2])
    <3>1. (\E q \in S : m[i][1] = q[1]) /\ (\E q \in S : m[i][2] = q[2])
      BY <1>l
    <3> QED BY <2>4, <2>5, <2>6, <3>1
  <2> QED BY <2>5, <2>7, <2>8, <2>9 DEF Lists, k
<1>6. CASE ~ (n # 0 /\ r[1] <= m[n][2] + 1)
  <2> DEFINE k == MergeNext(r, m)
  <2>1. k = Append(m, r)
    BY <1>1, <1>s, <1>6 DEF MergeNext
  <2> HIDE DEF k
  <2>2. /\ k \in Seq(Nat \X Nat) /\ Len(k) = n + 1 /\ DOMAIN k = 1 .. (n + 1)
        /\ k[n + 1] = r /\ \A i \in 1 .. n : k[i] = m[i]
    BY <1>1, <1>s, <2>1, SMTT(30)
  <2>3. \A i \in 1 .. (n + 1) : i \in 1 .. n \/ i = n + 1
    BY <1>1, SMTT(30)
  <2>4. \A i \in 1 .. n : i \in 1 .. (n + 1)
    BY <1>1, SMTT(30)
  <2>5. n + 1 \in 1 .. (n + 1)
    BY <1>1, SMTT(30)
  <2>6. Sorted(k)
    <3>1. ASSUME NEW i \in 1 .. (n + 1) PROVE k[i][1] <= k[i][2]
      BY <1>s, <2>2, <2>3, <3>1
    <3>2. ASSUME NEW i \in 1 .. n PROVE k[i][2] + 1 < k[i + 1][1]
      <4>1. CASE i = n
        BY <1>1, <1>2, <1>3, <1>6, <2>2, <4>1, SMTT(30)
      <4>2. CASE i # n
        <5>1. i \in 1 .. (n - 1) /\ i + 1 \in 1 .. n
          BY <1>1, <3>2, <4>2, SMTT(30)
        <5>2. m[i][2] + 1 < m[i + 1][1]
          BY <5>1, <1>s
        <5> QED BY <2>2, <5>1, <5>2
      <4> QED BY <4>1, <4>2
    <3>3. (n + 1) - 1 = n
      BY <1>1, SMTT(30)
    <3> QED BY <2>2, <3>1, <3>2, <3>3 DEF Sorted
  <2>7. ASSUME NEW l \in Int PROVE Listed(k, l) <=> InSome(S \cup {r}, l)
    <3>1. Listed(m, l) <=> InSome(S, l)
      BY <1>l
    <3>2. DOMAIN m = 1 .. n
      BY <1>1
    <3>3. Listed(k, l) <=> Listed(m, l) \/ (r[1] <= l /\ l <= r[2])
      BY <2>2, <2>3, <2>4, <2>5, <3>2 DEF Listed
    <3> QED BY <1>4, <3>1, <3>3
  <2>8. ASSUME NEW i \in 1 .. (n + 1)
        PROVE  (\E q \in S \cup {r} : k[i][1] = q[1]) /\ (\E q \in S \cup {r} : k[i][2] = q[2])
    <3>1. CASE i \in 1 .. n
      <4>1. (\E q \in S : m[i][1] = q[1]) /\ (\E q \in S : m[i][2] = q[2])
        BY <3>1, <1>l
      <4> QED BY <2>2, <3>1, <4>1
    <3>2. CASE i = n + 1
      BY <2>2, <3>2
    <3> QED BY <2>3, <3>1, <3>2
  <2> QED BY <2>2, <2>6, <2>7, <2>8 DEF Lists, k
<1> QED BY <1>5, <1>6

\* The merge of a finite set of ranges is a sorted list of just their ledgers.
LEMMA MergedFacts ==
  ASSUME NEW S, IsFiniteSet(S), AreRanges(S)
  PROVE  Sorted(Merged(S)) /\ Lists(Merged(S), S)
<1> DEFINE Good(s) == Sorted(Merged(s)) /\ Lists(Merged(s), s)
           P == {s \in SUBSET S : Good(s)}
<1>1. ASSUME NEW s \in SUBSET S, \A t \in SUBSET s : t # s => t \in P PROVE s \in P
  <2>1. IsFiniteSet(s) /\ AreRanges(s)
    BY PartFacts
  <2>2. CASE s = {}
    <3>1. Merged(s) = <<>>
      BY <2>1, <2>2, MergedIs DEF Fold
    <3>2. Sorted(<<>>)
      BY SMTT(30) DEF Sorted
    <3>3. Lists(<<>>, {})
      <4>1. Len(<<>>) = 0 /\ DOMAIN <<>> = {} /\ 1 .. 0 = {}
        BY SMTT(30)
      <4> QED BY <4>1 DEF Lists, Listed, InSome
    <3> QED BY <2>2, <3>1, <3>2, <3>3
  <2>3. CASE s # {}
    <3> DEFINE r == LastRange(s)
               u == s \ {r}
    <3>1. r \in s /\ \A q \in s : q[1] <= r[1]
      BY <2>3, PartFacts
    <3>2. u \in SUBSET s /\ u # s /\ s = u \cup {r}
      BY <3>1
    <3>3. Merged(s) = MergeNext(r, Merged(u))
      BY <2>1, <2>3, MergedIs DEF Fold
    <3>4. r \in Nat \X Nat /\ r[1] <= r[2] /\ AreRanges(u)
      BY <2>1, <3>1 DEF AreRanges
    <3> HIDE DEF r, u, Good
    <3>5. Good(u)
      BY <1>1, <3>2
    <3>6. \A q \in u : q[1] <= r[1]
      BY <3>1, <3>2
    <3>7. Good(s)
      <4>1. Sorted(Merged(u)) /\ Lists(Merged(u), u)
        BY <3>5 DEF Good
      <4>2. Sorted(MergeNext(r, Merged(u))) /\ Lists(MergeNext(r, Merged(u)), u \cup {r})
        BY <4>1, <3>4, <3>6, MergeNextFacts
      <4> QED BY <4>2, <3>2, <3>3 DEF Good
    <3> QED BY <3>7
  <2> QED BY <2>2, <2>3
<1> HIDE DEF P, Good
<1>2. SUBSET S \subseteq P
  BY <1>1, SubsetInduction
<1>3. Good(S)
  BY <1>2 DEF P
<1> QED BY <1>3 DEF Good

\* The recorded ranges are sorted and lie before the ledger o.
Exact(ranges, o) == Sorted(ranges) /\ \A i \in 1 .. Len(ranges) : ranges[i][2] < o

\* Recording a range adds its ledgers and no others, and keeps the record exact.
LEMMA MergeFacts ==
  ASSUME NEW o \in Nat, NEW ranges, Exact(ranges, o),
         NEW from \in Nat, NEW to \in Nat, from <= to, to < o
  PROVE  LET m == mergeUnscannedRanges(ranges, <<from, to>>)
         IN /\ Exact(m, o)
            /\ \A l \in Int : Listed(m, l) <=> Listed(ranges, l) \/ (from <= l /\ l <= to)
<1> DEFINE n == Len(ranges)
           r == <<from, to>>
           D == {ranges[i] : i \in 1 .. n}
           S == D \cup {r}
           m == mergeUnscannedRanges(ranges, r)
<1>1. /\ n \in Nat /\ DOMAIN ranges = 1 .. n /\ ranges \in [1 .. n -> Nat \X Nat]
      /\ \A i \in 1 .. n : ranges[i] \in Nat \X Nat
  BY SMTT(30) DEF Exact, Sorted
<1>2. \A i \in 1 .. n : ranges[i][1] <= ranges[i][2] /\ ranges[i][2] < o
  BY DEF Exact, Sorted
<1> HIDE DEF n
<1>3. r \in Nat \X Nat /\ r[1] = from /\ r[2] = to
  BY SMTT(30)
<1>4. m = Merged(S)
  BY <1>1, MergeIs
<1>5. IsFiniteSet(S)
  <2>1. IsFiniteSet(1 .. n)
    BY <1>1, FS_Interval, SMTT(30)
  <2>2. IsFiniteSet(D)
    <3>1. ranges \in Surjection(1 .. n, D)
      <4>1. ranges \in [1 .. n -> D]
        BY <1>1
      <4> QED BY <4>1 DEF Surjection
    <3> HIDE DEF D
    <3> QED BY <2>1, <3>1, FS_Surjection
  <2> HIDE DEF D, r
  <2> QED BY <2>2, FS_AddElement
<1>6. AreRanges(S)
  BY <1>1, <1>2, <1>3 DEF AreRanges
<1>7. \A l : InSome(S, l) <=> Listed(ranges, l) \/ (from <= l /\ l <= to)
  BY <1>1, <1>3 DEF InSome, Listed
<1>8. \A q \in S : q[2] < o
  BY <1>2, <1>3
<1> HIDE DEF S, m
<1>9. Sorted(m) /\ Lists(m, S)
  BY <1>4, <1>5, <1>6, MergedFacts
<1>10. Exact(m, o)
  BY <1>8, <1>9 DEF Exact, Lists
<1>11. \A l \in Int : Listed(m, l) <=> Listed(ranges, l) \/ (from <= l /\ l <= to)
  BY <1>7, <1>9 DEF Lists
<1> QED BY <1>10, <1>11 DEF m

-----------------------------------------------------------------------------
(* The pages of a scan.                                                    *)

\* Division by the size of a page.
LEMMA Division ==
  ASSUME NEW x \in Int, NEW k \in Nat, k > 0
  PROVE  /\ x \div k \in Int
         /\ k * (x \div k) <= x
         /\ x < k * (x \div k) + k
BY SMTT(30)

\* Multiples of a natural number are ordered as their factors.
LEMMA Multiples ==
  ASSUME NEW k \in Nat, NEW i \in Int, NEW j \in Int, i <= j
  PROVE  k * i \in Int /\ k * j \in Int /\ k * i <= k * j
BY SMTT(30)

\* The first ledger of page i.
FirstOf(from, i) == from + (i - 1) * (batchSize + 1)

\* The n pages of P follow each other from the first ledger to the last, and none
\* is longer than a batch.
Paging(P, n, from, to) ==
  /\ n \in Nat /\ DOMAIN P = 1 .. n
  /\ n = 0 => to < from
  /\ n # 0 => P[1][1] = from /\ P[n][2] = to
  /\ \A i \in 1 .. n :
       /\ P[i][1] \in Nat /\ P[i][2] \in Nat /\ P[i][1] <= P[i][2]
       /\ P[i][2] <= P[i][1] + batchSize /\ P[i][2] <= to
  /\ \A i \in 1 .. (n - 1) : P[i + 1][1] = P[i][2] + 1

\* buildPageRanges pages the ledgers from the first to the last.
LEMMA PagesFacts ==
  ASSUME NEW from \in Nat, NEW to \in Nat
  PROVE  Paging(buildPageRanges(from, to), Len(buildPageRanges(from, to)), from, to)
<1> DEFINE P == buildPageRanges(from, to)
           k == batchSize + 1
           x == to - from + 1 + batchSize
           q == x \div k
           n == IF q < 0 THEN 0 ELSE q
<1>1. batchSize \in Nat /\ k \in Nat /\ k > 0 /\ k = batchSize + 1 /\ x \in Int
  BY ScannerAssumption, SMTT(30)
<1>2. x = to - from + k
  BY <1>1, SMTT(30)
<1>3. q \in Int /\ k * q <= x /\ x < k * q + k
  <2> HIDE DEF x, k
  <2> QED BY <1>1, Division
<1>4. P = [i \in 1 .. q |-> <<FirstOf(from, i), Min({FirstOf(from, i) + batchSize, to})>>]
  BY DEF buildPageRanges, FirstOf
<1>5. FirstOf(from, 1) = from /\ \A i \in Int : FirstOf(from, i) = from + (k * i - k)
  BY <1>1, SMTT(30) DEF FirstOf
<1> HIDE DEF P, x, k, q
<1>6. n \in Nat /\ 1 .. q = 1 .. n
  BY <1>3, SMTT(30)
<1>7. DOMAIN P = 1 .. n /\ Len(P) = n
  <2> HIDE DEF n
  <2> DEFINE G(i) == <<FirstOf(from, i), Min({FirstOf(from, i) + batchSize, to})>>
  <2>1. P = [i \in 1 .. n |-> G(i)]
    BY <1>4, <1>6
  <2> HIDE DEF G
  <2> QED BY <2>1, <1>6, SMTT(30)
<1>8. \A i \in 1 .. n : i \in Int /\ i <= q /\ 1 <= i
  BY <1>3, SMTT(30)
<1>9. n = 0 => to < from
  <2>1. ASSUME n = 0 PROVE q <= 0
    BY <2>1, <1>3, SMTT(30)
  <2>2. q <= 0 => k * q <= 0
    BY <1>1, <1>3, SMTT(30)
  <2> HIDE DEF n
  <2> QED BY <2>1, <2>2, <1>1, <1>2, <1>3, SMTT(30)
<1>10. n # 0 => n = q /\ 1 <= q
  BY <1>3, SMTT(30)
<1> HIDE DEF n
<1>11. ASSUME NEW i \in 1 .. n
       PROVE  /\ FirstOf(from, i) \in Nat /\ FirstOf(from, i) <= to /\ FirstOf(from, i) >= from
              /\ i # q => FirstOf(from, i + 1) = FirstOf(from, i) + batchSize + 1
                          /\ FirstOf(from, i + 1) <= to
              /\ i = q => FirstOf(from, i) + batchSize >= to
  <2>1. i \in Int /\ i <= q /\ 1 <= i /\ i + 1 \in Int
    BY <1>8, SMTT(30)
  <2>2. FirstOf(from, i) = from + (k * i - k) /\ FirstOf(from, i + 1) = from + (k * (i + 1) - k)
    BY <2>1, <1>5
  <2>3. k * (i + 1) = k * i + k /\ k * 1 = k /\ k * q \in Int /\ k * i \in Int
    BY <2>1, <1>1, <1>3, SMTT(30)
  <2>4. k * i <= k * q /\ k * 1 <= k * i
    BY <2>1, <1>1, <1>3, Multiples, SMTT(30)
  <2>5. i # q => k * (i + 1) <= k * q
    <3>1. i # q => i + 1 <= q
      BY <2>1, <1>3, SMTT(30)
    <3> QED BY <3>1, <2>1, <1>1, <1>3, Multiples
  <2> DEFINE a == k * i
             b == k * q
             c == k * (i + 1)
  <2>6. /\ a \in Int /\ b \in Int /\ c = a + k /\ k <= a /\ a <= b
        /\ i # q => c <= b
        /\ i = q => a = b
        /\ b <= x /\ x < b + k
    BY <2>3, <2>4, <2>5, <1>3
  <2>7. FirstOf(from, i) = from + (a - k) /\ FirstOf(from, i + 1) = from + (c - k)
    BY <2>2
  <2> HIDE DEF a, b, c
  <2> QED BY <2>6, <2>7, <1>1, <1>2, SMTT(30)
<1>12. ASSUME NEW i \in 1 .. n
       PROVE  /\ P[i][1] = FirstOf(from, i)
              /\ P[i][2] = IF FirstOf(from, i) + batchSize <= to
                           THEN FirstOf(from, i) + batchSize ELSE to
  <2> DEFINE f == FirstOf(from, i)
  <2>1. f \in Nat
    BY <1>11
  <2>2. P[i] = <<f, Min({f + batchSize, to})>>
    BY <1>4, <1>6
  <2> HIDE DEF f
  <2>3. f + batchSize \in Int /\ to \in Int
    BY <2>1, <1>1, SMTT(30)
  <2>4. Min({f + batchSize, to}) = IF f + batchSize <= to THEN f + batchSize ELSE to
    BY <2>3, MinOfTwo
  <2> DEFINE m == Min({f + batchSize, to})
  <2>5. P[i] = <<f, m>> /\ m = IF f + batchSize <= to THEN f + batchSize ELSE to
    BY <2>2, <2>4
  <2> HIDE DEF m
  <2>6. P[i][1] = f /\ P[i][2] = m
    BY <2>5, SMTT(30)
  <2> QED BY <2>5, <2>6 DEF f
<1>13. ASSUME NEW i \in 1 .. n
       PROVE  /\ P[i][1] \in Nat /\ P[i][2] \in Nat /\ P[i][1] <= P[i][2]
              /\ P[i][2] <= P[i][1] + batchSize /\ P[i][2] <= to
  BY <1>1, <1>11, <1>12, SMTT(30)
<1>14. ASSUME NEW i \in 1 .. (n - 1) PROVE P[i + 1][1] = P[i][2] + 1
  <2>1. i \in 1 .. n /\ i + 1 \in 1 .. n /\ i # q
    BY <1>6, <1>8, <1>10, <1>14, SMTT(30)
  <2>2. /\ FirstOf(from, i) \in Nat
        /\ FirstOf(from, i + 1) = FirstOf(from, i) + batchSize + 1
        /\ FirstOf(from, i + 1) <= to
    BY <2>1, <1>11
  <2>3. P[i + 1][1] = FirstOf(from, i + 1)
    BY <2>1, <1>12
  <2>4. P[i][2] = IF FirstOf(from, i) + batchSize <= to
                  THEN FirstOf(from, i) + batchSize ELSE to
    BY <2>1, <1>12
  <2> QED BY <2>2, <2>3, <2>4, <1>1, SMTT(30)
<1>15. n # 0 => P[1][1] = from /\ P[n][2] = to
  <2>1. SUFFICES ASSUME n # 0 PROVE P[1][1] = from /\ P[n][2] = to
    OBVIOUS
  <2>2. 1 \in 1 .. n /\ n \in 1 .. n /\ n = q
    BY <2>1, <1>6, <1>10, SMTT(30)
  <2>3. P[1][1] = from
    BY <2>2, <1>5, <1>12
  <2>4. FirstOf(from, n) \in Nat /\ FirstOf(from, n) + batchSize >= to
    BY <2>2, <1>11
  <2>5. P[n][2] = to
    BY <2>2, <2>4, <1>1, <1>12, SMTT(30)
  <2> QED BY <2>3, <2>5
<1>16. Paging(P, n, from, to)
  BY <1>6, <1>7, <1>9, <1>13, <1>14, <1>15 DEF Paging
<1> QED BY <1>7, <1>16 DEF P

-----------------------------------------------------------------------------
(* The shape of a state.  The predicates take what they speak of as        *)
(* arguments, so that they can be stated of the next state as well.        *)

Fields == {"pc", "clear", "seen", "last", "from", "to", "next", "flushed", "waiting",
           "results", "drain", "failed"}

\* The pages of a scan, how many they are, and the one it flushes next.
PagesOf(sc) == buildPageRanges(sc.from, sc.to)
PageCount(sc) == Len(PagesOf(sc))
NextPage(sc) == sc.flushed + 1

\* The types of a scan's fields.
ScanTyped(sc) ==
  /\ DOMAIN sc = Fields
  /\ sc.last \in Nat /\ sc.from \in Nat /\ sc.to \in Nat
  /\ sc.next \in Nat /\ sc.flushed \in Nat
  /\ sc.drain \in {"no", "put", "cursor"}

\* Before and after the fetch a scan waits for nothing and has nothing buffered.
Quiet(sc) ==
  sc.waiting = {} /\ sc.results = {} /\ sc.drain = "no" /\ sc.flushed = 0 /\ ~sc.failed

\* A page once dispatched is flushed, awaited, buffered or being flushed.
Accounted(sc, i) ==
  \/ i <= sc.flushed \/ i \in sc.waiting \/ Ready(sc, i)
  \/ i = NextPage(sc) /\ sc.drain = "cursor"

\* The fetch of the pages up to a ledger that has closed.  Unless it has failed,
\* no page is missing.
Fetching(sc, h) ==
  /\ sc.to <= h
  /\ sc.next <= PageCount(sc) /\ sc.flushed <= PageCount(sc)
  /\ sc.waiting \subseteq 1 .. PageCount(sc)
  /\ \A page \in sc.results : page[1] \in 1 .. PageCount(sc)
  /\ sc.drain = "put" => Ready(sc, NextPage(sc))
  /\ sc.drain = "cursor" => NextPage(sc) <= PageCount(sc)
  /\ ~sc.failed => \A i \in 1 .. sc.next : Accounted(sc, i)

\* A scan, when the head is h and the oldest retained ledger o.
ScanShape(sc, h, o) ==
  /\ ScanTyped(sc)
  /\ sc.pc \notin {"clamp", "fetch"} => sc.next = 0
  /\ sc.pc # "fetch" => Quiet(sc)
  /\ sc.pc = "fetch" => Fetching(sc, h)
  /\ sc.pc \in {"health", "clamp"} => sc.from <= sc.to /\ sc.to <= h
  /\ sc.pc = "clamp" => sc.from < sc.next /\ sc.next <= o

\* A request: it starts where its page does until the window has slid past that.
RequestShape(range, r, h, o) ==
  /\ DOMAIN r = {"st", "start", "listeners"}
  /\ range[1] \in Nat /\ range[2] \in Nat /\ range[1] <= range[2]
  /\ range[2] <= range[1] + batchSize /\ range[2] <= h
  /\ r.start \in Nat
  /\ r.st \in {"get", "gap", "retry"}
  /\ r.st = "get" => r.start = range[1]
  /\ r.st # "get" => range[1] < r.start /\ r.start <= o

\* A page of the scan that waits is this range.
WaitsFor(sc, range) == \E i \in sc.waiting : PagesOf(sc)[i] = range

ScansShape(scs, h, o) ==
  DOMAIN scs = Scans /\ \A s \in Scans : ScanShape(scs[s], h, o)

RequestsShape(req, h, o) ==
  \A range \in DOMAIN req : RequestShape(range, req[range], h, o)

\* Pages wait for requests in flight, and every request has a page waiting.
Awaited(scs, req) ==
  \A s \in Scans : \A i \in scs[s].waiting : PagesOf(scs[s])[i] \in DOMAIN req

Wanted(scs, req) ==
  \A range \in DOMAIN req : \E s \in Scans : WaitsFor(scs[s], range)

SyncShape(sy, o) ==
  /\ DOMAIN sy = {"lastScannedSlot", "unscannedRanges"}
  /\ sy.lastScannedSlot \in Nat
  /\ Exact(sy.unscannedRanges, o)

Shape ==
  /\ announced \subseteq Ledgers
  /\ head \in Nat /\ oldest \in Nat
  /\ SyncShape(sync, oldest)
  /\ ScansShape(scan, head, oldest)
  /\ RequestsShape(requests, head, oldest)
  /\ Awaited(scan, requests) /\ Wanted(scan, requests)

\* The shape of the next state, spelled out.
LEMMA ShapeNext ==
  Shape' <=> /\ announced' \subseteq Ledgers
             /\ head' \in Nat /\ oldest' \in Nat
             /\ SyncShape(sync', oldest')
             /\ ScansShape(scan', head', oldest')
             /\ RequestsShape(requests', head', oldest')
             /\ Awaited(scan', requests') /\ Wanted(scan', requests')
BY DEF Shape

\* What Pages computes is what PagesOf does.
LEMMA PagesSame == \A s : Pages(s) = PagesOf(scan[s])
BY DEF Pages, PagesOf

\* The pages of a scan, from its first ledger to its last.
LEMMA PagesOfFacts ==
  ASSUME NEW sc, ScanTyped(sc)
  PROVE  Paging(PagesOf(sc), PageCount(sc), sc.from, sc.to)
BY PagesFacts DEF ScanTyped, PagesOf, PageCount

-----------------------------------------------------------------------------
(* The shape is kept.                                                      *)

\* Scan s has the record rec next, and the others are as they were.
Moved(s, rec) ==
  /\ DOMAIN scan' = Scans /\ scan'[s] = rec
  /\ \A t \in Scans : t # s => scan'[t] = scan[t]

\* A step of a scan that goes on waiting for the same pages.
LEMMA MoveShape ==
  ASSUME Shape, NEW s \in Scans, NEW rec, Moved(s, rec), ScanShape(rec, head, oldest),
         rec.waiting = scan[s].waiting,
         rec.waiting # {} => PagesOf(rec) = PagesOf(scan[s]),
         SyncShape(sync', oldest), UNCHANGED <<chain, requests>>
  PROVE  Shape'
<1>1. ScansShape(scan', head, oldest)
  BY DEF Moved, Shape, ScansShape
<1>2. ASSUME NEW t \in Scans
      PROVE  /\ scan'[t].waiting = scan[t].waiting
             /\ scan[t].waiting # {} => PagesOf(scan'[t]) = PagesOf(scan[t])
  BY DEF Moved
<1>3. Awaited(scan', requests)
  BY <1>2 DEF Shape, Awaited
<1>4. Wanted(scan', requests)
  <2>1. ASSUME NEW range \in DOMAIN requests
        PROVE  \E t \in Scans : WaitsFor(scan'[t], range)
    <3>1. PICK t \in Scans : WaitsFor(scan[t], range)
      BY DEF Shape, Wanted
    <3>2. WaitsFor(scan'[t], range)
      BY <1>2, <3>1 DEF WaitsFor
    <3> QED BY <3>2
  <2> QED BY <2>1 DEF Wanted
<1>5. UNCHANGED <<announced, head, oldest, requests>>
  BY DEF chain
<1> QED BY <1>1, <1>3, <1>4, <1>5, ShapeNext DEF Shape

\* A step of a scan that is not fetching and waits for nothing afterwards.
LEMMA QuietMove ==
  ASSUME Shape, NEW s \in Scans, scan[s].pc # "fetch", NEW rec, Moved(s, rec),
         ScanShape(rec, head, oldest), rec.waiting = {}, SyncShape(sync', oldest),
         UNCHANGED <<chain, requests>>
  PROVE  Shape'
<1>1. scan[s].waiting = {}
  BY DEF Shape, ScansShape, ScanShape, Quiet
<1> QED BY <1>1, MoveShape

\* The fields of a fetch are as they were.
Kept(rec, sc) ==
  /\ DOMAIN rec = Fields
  /\ rec.waiting = sc.waiting /\ rec.results = sc.results /\ rec.drain = sc.drain
  /\ rec.flushed = sc.flushed /\ rec.failed = sc.failed

\* A scan that is not fetching has the shape if it keeps them.
LEMMA QuietRecord ==
  ASSUME NEW h, NEW o, NEW sc, ScanShape(sc, h, o), sc.pc # "fetch",
         NEW rec, Kept(rec, sc), rec.pc # "fetch",
         rec.last \in Nat, rec.from \in Nat, rec.to \in Nat, rec.next \in Nat,
         rec.pc # "clamp" => rec.next = 0,
         rec.pc \in {"health", "clamp"} => rec.from <= rec.to /\ rec.to <= h,
         rec.pc = "clamp" => rec.from < rec.next /\ rec.next <= o
  PROVE  ScanShape(rec, h, o) /\ rec.waiting = {}
<1>1. Quiet(rec)
  BY DEF Kept, ScanShape, Quiet
<1>2. ScanTyped(rec)
  BY <1>1, SMTT(30) DEF ScanTyped, Kept, Quiet
<1> QED BY <1>1, <1>2 DEF ScanShape, Quiet

\* An idle scan has the shape, and so has one that has just been started or done.
LEMMA IdleRecord ==
  ASSUME NEW h, NEW o, NEW p, p \notin {"clamp", "fetch", "health"}, NEW c, NEW to \in Nat
  PROVE  /\ ScanShape(Idle, h, o) /\ Idle.waiting = {}
         /\ ScanShape([Idle EXCEPT !.pc = p, !.clear = c], h, o)
         /\ [Idle EXCEPT !.pc = p, !.clear = c].waiting = {}
         /\ ScanShape([Idle EXCEPT !.pc = p, !.to = to], h, o)
         /\ [Idle EXCEPT !.pc = p, !.to = to].waiting = {}
<1>1. ASSUME NEW rec, DOMAIN rec = Fields, rec.pc \notin {"clamp", "fetch", "health"},
             rec.last = 0, rec.from = 0, rec.to \in Nat, rec.next = 0, Quiet(rec)
      PROVE  ScanShape(rec, h, o) /\ rec.waiting = {}
  <2>1. ScanTyped(rec)
    BY <1>1, SMTT(30) DEF ScanTyped, Quiet
  <2> QED BY <1>1, <2>1 DEF ScanShape, Quiet
<1>2. ScanShape(Idle, h, o) /\ Idle.waiting = {}
  <2>1. /\ DOMAIN Idle = Fields /\ Idle.pc \notin {"clamp", "fetch", "health"}
        /\ Idle.last = 0 /\ Idle.from = 0 /\ Idle.to \in Nat /\ Idle.next = 0 /\ Quiet(Idle)
    BY SMTT(30) DEF Idle, Fields, Quiet
  <2> QED BY <1>1, <2>1
<1> DEFINE a == [Idle EXCEPT !.pc = p, !.clear = c]
           b == [Idle EXCEPT !.pc = p, !.to = to]
<1>3. ScanShape(a, h, o) /\ a.waiting = {}
  <2>1. /\ DOMAIN a = Fields /\ a.pc = p
        /\ a.last = 0 /\ a.from = 0 /\ a.to \in Nat /\ a.next = 0 /\ Quiet(a)
    BY SMTT(30) DEF Idle, Fields, Quiet
  <2> HIDE DEF a
  <2> QED BY <1>1, <2>1
<1>4. ScanShape(b, h, o) /\ b.waiting = {}
  <2>1. /\ DOMAIN b = Fields /\ b.pc = p
        /\ b.last = 0 /\ b.from = 0 /\ b.to \in Nat /\ b.next = 0 /\ Quiet(b)
    BY SMTT(30) DEF Idle, Fields, Quiet
  <2> HIDE DEF b
  <2> QED BY <1>1, <2>1
<1> QED BY <1>2, <1>3, <1>4

\* What the shape says of one scan.
LEMMA ScanFacts ==
  ASSUME Shape, NEW s \in Scans
  PROVE  /\ DOMAIN scan = Scans /\ ScanShape(scan[s], head, oldest)
         /\ ScanTyped(scan[s]) /\ DOMAIN scan[s] = Fields
         /\ head \in Nat /\ oldest \in Nat
BY DEF Shape, ScansShape, ScanShape, ScanTyped

\* Replacing a scan's record.
LEMMA Replaced ==
  ASSUME Shape, NEW s \in Scans, NEW rec, scan' = [scan EXCEPT ![s] = rec]
  PROVE  Moved(s, rec)
BY ScanFacts DEF Moved

\* A jump changes the place of the scan and nothing else.
LEMMA GotoFacts ==
  ASSUME Shape, NEW s \in Scans, NEW p, Goto(s, p)
  PROVE  /\ Moved(s, scan'[s]) /\ Kept(scan'[s], scan[s]) /\ scan'[s].pc = p
         /\ scan'[s].last = scan[s].last /\ scan'[s].from = scan[s].from
         /\ scan'[s].to = scan[s].to /\ scan'[s].next = scan[s].next
         /\ scan'[s].clear = scan[s].clear
<1>1. DOMAIN scan = Scans /\ DOMAIN scan[s] = Fields
  BY ScanFacts
<1> QED BY <1>1, SMTT(30) DEF Goto, Moved, Kept, Fields

\* An empty sync record, and one with another cursor, have the shape.
LEMMA SyncFacts ==
  ASSUME NEW o \in Nat
  PROVE  /\ SyncShape(NoSync, o) /\ NoSync.lastScannedSlot = 0
         /\ NoSync.unscannedRanges = <<>>
<1>1. /\ DOMAIN NoSync = {"lastScannedSlot", "unscannedRanges"}
      /\ NoSync.lastScannedSlot = 0 /\ NoSync.unscannedRanges = <<>>
  BY SMTT(30) DEF NoSync
<1>2. Exact(<<>>, o)
  BY SMTT(30) DEF Exact, Sorted
<1> QED BY <1>1, <1>2, SMTT(30) DEF SyncShape

\* A jump of a scan that is not fetching, to a place outside of the fetch.
LEMMA GotoShape ==
  ASSUME Shape, NEW s \in Scans, scan[s].pc \notin {"clamp", "fetch"},
         NEW p, p \notin {"health", "clamp", "fetch"}, Goto(s, p),
         SyncShape(sync', oldest), UNCHANGED <<chain, requests>>
  PROVE  Shape'
<1>1. ScanShape(scan[s], head, oldest) /\ ScanTyped(scan[s])
  BY ScanFacts
<1>2. /\ Moved(s, scan'[s]) /\ Kept(scan'[s], scan[s]) /\ scan'[s].pc = p
      /\ scan'[s].last = scan[s].last /\ scan'[s].from = scan[s].from
      /\ scan'[s].to = scan[s].to /\ scan'[s].next = scan[s].next
  BY GotoFacts
<1>3. /\ scan'[s].last \in Nat /\ scan'[s].from \in Nat /\ scan'[s].to \in Nat
      /\ scan'[s].next \in Nat /\ scan'[s].next = 0
  BY <1>1, <1>2 DEF ScanTyped, ScanShape
<1>4. ScanShape(scan'[s], head, oldest) /\ scan'[s].waiting = {}
  BY <1>1, <1>2, <1>3, QuietRecord
<1> QED BY <1>2, <1>4, QuietMove

\* Starting a scan.
LEMMA StartShape ==
  ASSUME Shape, NEW s \in Scans, NEW p, p \notin {"clamp", "fetch", "health"},
         NEW c, Start(s, p, c)
  PROVE  Shape'
<1> DEFINE rec == [Idle EXCEPT !.pc = p, !.clear = c]
<1>1. scan[s].pc # "fetch" /\ sync' = sync /\ UNCHANGED <<chain, requests>>
  BY DEF Start, Active
<1>2. scan' = [scan EXCEPT ![s] = rec]
  BY DEF Start
<1>3. 0 \in Nat
  BY SMTT(30)
<1>4. ScanShape(rec, head, oldest) /\ rec.waiting = {}
  BY <1>3, IdleRecord
<1> HIDE DEF rec
<1>5. Moved(s, rec)
  BY <1>2, Replaced
<1>6. SyncShape(sync', oldest)
  BY <1>1 DEF Shape
<1> QED BY <1>1, <1>4, <1>5, <1>6, QuietMove

\* The mount effect, and the steps of runScan before the fetch.
LEMMA BeforeShape ==
  ASSUME Shape, NEW s \in Scans,
         \/ mountSync(s) \/ mountSlot(s) \/ mountClear(s) \/ clearCache(s)
         \/ clearSync(s) \/ load(s) \/ loadSync(s) \/ resetSync(s) \/ slotFails(s)
  PROVE  Shape'
<1>1. SyncShape(sync, oldest) /\ SyncShape(NoSync, oldest)
  BY SyncFacts DEF Shape
<1>2. ScanShape(scan[s], head, oldest) /\ ScanTyped(scan[s]) /\ DOMAIN scan = Scans
        /\ DOMAIN scan[s] = Fields
  BY ScanFacts
<1>3. CASE mountSlot(s)
  <2> DEFINE p == IF FromBlock(scan[s].last) > head THEN "mountClear" ELSE "load"
  <2>1. /\ scan[s].pc \notin {"clamp", "fetch"} /\ Goto(s, p)
        /\ sync' = sync /\ UNCHANGED <<chain, requests>>
    BY <1>3, SMTT(30) DEF mountSlot
  <2>2. p \notin {"health", "clamp", "fetch"}
    OBVIOUS
  <2> HIDE DEF p
  <2> QED BY <2>1, <2>2, <1>1, GotoShape
<1>4. CASE mountClear(s)
  <2>1. /\ scan[s].pc \notin {"clamp", "fetch"} /\ Goto(s, "load")
        /\ sync' = NoSync /\ UNCHANGED <<chain, requests>>
    BY <1>4 DEF mountClear, clearSyncState
  <2> QED BY <2>1, <1>1, GotoShape
<1>5. CASE clearCache(s)
  <2>1. /\ scan[s].pc \notin {"clamp", "fetch"} /\ Goto(s, "clearSync")
        /\ sync' = sync /\ UNCHANGED <<chain, requests>>
    BY <1>5 DEF clearCache
  <2> QED BY <2>1, <1>1, GotoShape
<1>6. CASE clearSync(s)
  <2> DEFINE p == IF scan[s].pc = "clearSync" THEN "clearSyncAgain" ELSE "load"
  <2>1. /\ scan[s].pc \notin {"clamp", "fetch"} /\ Goto(s, p)
        /\ sync' = NoSync /\ UNCHANGED <<chain, requests>>
    BY <1>6 DEF clearSync, clearSyncState
  <2>2. p \notin {"health", "clamp", "fetch"}
    OBVIOUS
  <2> HIDE DEF p
  <2> QED BY <2>1, <2>2, <1>1, GotoShape
<1>7. CASE resetSync(s)
  <2>1. /\ scan[s].pc \notin {"clamp", "fetch"} /\ Goto(s, "slot")
        /\ sync' = NoSync /\ UNCHANGED <<chain, requests>>
    BY <1>7 DEF resetSync, clearSyncState
  <2> QED BY <2>1, <1>1, GotoShape
<1>8. CASE slotFails(s)
  <2>1. /\ scan[s].pc # "fetch" /\ scan' = [scan EXCEPT ![s] = Idle]
        /\ sync' = sync /\ UNCHANGED <<chain, requests>>
    BY <1>8 DEF slotFails
  <2>2. 0 \in Nat /\ "idle" \notin {"clamp", "fetch", "health"}
    BY SMTT(30)
  <2>3. ScanShape(Idle, head, oldest) /\ Idle.waiting = {}
    BY <2>2, IdleRecord
  <2>4. Moved(s, Idle)
    BY <2>1, Replaced
  <2> QED BY <2>1, <2>3, <2>4, <1>1, QuietMove
<1>9. CASE mountSync(s) \/ load(s) \/ loadSync(s)
  <2>1. /\ scan[s].pc \notin {"clamp", "fetch"}
        /\ sync' = sync /\ UNCHANGED <<chain, requests>>
    BY <1>9 DEF mountSync, load, loadSync
  <2>2. sync.lastScannedSlot \in Nat
    BY <1>1 DEF SyncShape
  <2>3. /\ Moved(s, scan'[s]) /\ Kept(scan'[s], scan[s])
        /\ scan'[s].pc \in {"mountSlot", "loadSync", "resetSync", "slot"}
        /\ scan'[s].last \in {scan[s].last, sync.lastScannedSlot}
        /\ scan'[s].from = scan[s].from /\ scan'[s].to = scan[s].to
        /\ scan'[s].next = scan[s].next
    <3>1. CASE mountSync(s)
      BY <3>1, <1>2, SMTT(30) DEF mountSync, Moved, Kept, Fields
    <3>2. CASE load(s)
      BY <3>2, <1>2, SMTT(30) DEF load, Moved, Kept, Fields
    <3>3. CASE loadSync(s)
      <4>1. PICK p \in {"resetSync", "slot"} :
               scan' = [scan EXCEPT ![s].pc = p, ![s].last = sync.lastScannedSlot,
                                    ![s].seen = {}]
        BY <3>3 DEF loadSync
      <4> QED BY <4>1, <1>2, SMTT(30) DEF Moved, Kept, Fields
    <3> QED BY <1>9, <3>1, <3>2, <3>3
  <2>4. /\ scan'[s].last \in Nat /\ scan'[s].from \in Nat /\ scan'[s].to \in Nat
        /\ scan'[s].next \in Nat /\ scan'[s].next = 0
    BY <1>2, <2>1, <2>2, <2>3 DEF ScanTyped, ScanShape
  <2>5. ScanShape(scan'[s], head, oldest) /\ scan'[s].waiting = {}
    BY <1>2, <2>1, <2>3, <2>4, QuietRecord, SMTT(30)
  <2> QED BY <1>1, <2>1, <2>3, <2>5, QuietMove
<1> QED BY <1>3, <1>4, <1>5, <1>6, <1>7, <1>8, <1>9

\* A fetch begins with no page dispatched.
LEMMA FetchRecord ==
  ASSUME NEW h, NEW o, NEW sc, ScanShape(sc, h, o), sc.pc # "fetch",
         NEW rec, Kept(rec, sc), rec.pc = "fetch",
         rec.last \in Nat, rec.from \in Nat, rec.to \in Nat, rec.next = 0, rec.to <= h
  PROVE  ScanShape(rec, h, o) /\ rec.waiting = {}
<1>1. Quiet(rec)
  BY DEF Kept, ScanShape, Quiet
<1>2. ScanTyped(rec)
  BY <1>1, SMTT(30) DEF ScanTyped, Kept, Quiet
<1>3. PageCount(rec) \in Nat
  BY <1>2, PagesOfFacts DEF Paging
<1>4. rec.next <= PageCount(rec) /\ rec.flushed <= PageCount(rec)
  BY <1>1, <1>3, SMTT(30) DEF Quiet
<1>5. 1 .. rec.next = {}
  BY SMTT(30)
<1>6. Fetching(rec, h)
  BY <1>1, <1>4, <1>5 DEF Fetching, Quiet
<1> QED BY <1>1, <1>2, <1>6 DEF ScanShape, Quiet

\* The first ledger of a scan is at or after the deployment of the contract.
LEMMA FromFacts ==
  ASSUME NEW last \in Nat
  PROVE  /\ startBlock \in Nat /\ startBlock > 0
         /\ FromBlock(last) = IF last + 1 >= startBlock THEN last + 1 ELSE startBlock
<1>1. startBlock \in Nat /\ startBlock > 0 /\ last + 1 \in Int /\ startBlock \in Int
  BY ScannerAssumption, SMTT(30)
<1> QED BY <1>1, MaxOfTwo DEF FromBlock

\* slot fixes the ledgers to scan.
LEMMA SlotShape ==
  ASSUME Shape, NEW s \in Scans, slot(s)
  PROVE  Shape'
<1> DEFINE from == IF scan[s].clear THEN startBlock ELSE FromBlock(scan[s].last)
           p == IF from > head THEN "done" ELSE "health"
<1>1. ScanShape(scan[s], head, oldest) /\ ScanTyped(scan[s]) /\ DOMAIN scan = Scans
        /\ DOMAIN scan[s] = Fields /\ head \in Nat
  BY ScanFacts
<1>2. /\ scan[s].pc = "slot" /\ sync' = sync /\ UNCHANGED <<chain, requests>>
      /\ scan' = [scan EXCEPT ![s].pc = p, ![s].from = from, ![s].to = head, ![s].last = 0]
  BY DEF slot
<1>3. from \in Nat
  <2>1. scan[s].last \in Nat
    BY <1>1 DEF ScanTyped
  <2>2. startBlock \in Nat /\ FromBlock(scan[s].last) \in Nat
    BY <2>1, FromFacts, SMTT(30)
  <2> QED BY <2>2
<1>4. p \in {"done", "health"} /\ (p = "health" => from <= head)
  <2> HIDE DEF from
  <2> QED BY <1>1, <1>3, SMTT(30)
<1> HIDE DEF from, p
<1>5. /\ Moved(s, scan'[s]) /\ Kept(scan'[s], scan[s]) /\ scan'[s].pc = p
      /\ scan'[s].from = from /\ scan'[s].to = head /\ scan'[s].last = 0
      /\ scan'[s].next = scan[s].next
  BY <1>1, <1>2, SMTT(30) DEF Moved, Kept, Fields
<1>6. scan'[s].next = 0 /\ 0 \in Nat /\ head <= head
  BY <1>1, <1>2, <1>5, SMTT(30) DEF ScanShape
<1>7. ScanShape(scan'[s], head, oldest) /\ scan'[s].waiting = {}
  <2> DEFINE rec == scan'[s]
  <2>1. /\ scan[s].pc # "fetch" /\ rec.pc \in {"done", "health"} /\ rec.next = 0
        /\ rec.last \in Nat /\ rec.from \in Nat /\ rec.to \in Nat /\ rec.next \in Nat
        /\ rec.pc = "health" => rec.from <= rec.to /\ rec.to <= head
    BY <1>1, <1>2, <1>3, <1>4, <1>5, <1>6
  <2>2. Kept(rec, scan[s]) /\ ScanShape(scan[s], head, oldest)
    BY <1>1, <1>5
  <2> HIDE DEF rec
  <2>3. /\ rec.pc # "fetch" /\ rec.pc # "clamp"
        /\ rec.pc \in {"health", "clamp"} => rec.from <= rec.to /\ rec.to <= head
    BY <2>1
  <2>4. ScanShape(rec, head, oldest) /\ rec.waiting = {}
    BY <2>1, <2>2, <2>3, QuietRecord
  <2> QED BY <2>4 DEF rec
<1>8. SyncShape(sync', oldest)
  BY <1>2 DEF Shape
<1> QED BY <1>2, <1>5, <1>7, <1>8, QuietMove

\* health begins the fetch, or notes the first ledger that can be read.
LEMMA HealthShape ==
  ASSUME Shape, NEW s \in Scans, health(s)
  PROVE  Shape'
<1>1. ScanShape(scan[s], head, oldest) /\ ScanTyped(scan[s]) /\ DOMAIN scan = Scans
        /\ DOMAIN scan[s] = Fields /\ head \in Nat /\ oldest \in Nat
  BY ScanFacts
<1>2. scan[s].pc = "health" /\ sync' = sync /\ UNCHANGED <<chain, requests>>
  BY DEF health
<1>3. /\ scan[s].next = 0 /\ scan[s].from <= scan[s].to /\ scan[s].to <= head
      /\ scan[s].last \in Nat /\ scan[s].from \in Nat /\ scan[s].to \in Nat
  BY <1>1, <1>2 DEF ScanShape, ScanTyped
<1>4. SyncShape(sync', oldest)
  BY <1>2 DEF Shape
<1>5. CASE Goto(s, "fetch")
  <2>1. /\ Moved(s, scan'[s]) /\ Kept(scan'[s], scan[s]) /\ scan'[s].pc = "fetch"
        /\ scan'[s].last = scan[s].last /\ scan'[s].from = scan[s].from
        /\ scan'[s].to = scan[s].to /\ scan'[s].next = scan[s].next
    BY <1>5, GotoFacts
  <2>2. ScanShape(scan'[s], head, oldest) /\ scan'[s].waiting = {}
    BY <1>1, <1>2, <1>3, <2>1, FetchRecord
  <2> QED BY <1>2, <1>4, <2>1, <2>2, QuietMove
<1>6. ASSUME NEW r \in {0, oldest - 1, oldest}, scan[s].from < r,
             scan' = [scan EXCEPT ![s].pc = "clamp", ![s].next = r]
      PROVE  Shape'
  <2>1. r \in Nat /\ r <= oldest
    BY <1>1, <1>3, <1>6, SMTT(30)
  <2>2. /\ Moved(s, scan'[s]) /\ Kept(scan'[s], scan[s]) /\ scan'[s].pc = "clamp"
        /\ scan'[s].from = scan[s].from /\ scan'[s].to = scan[s].to
        /\ scan'[s].last = scan[s].last /\ scan'[s].next = r
    BY <1>1, <1>6, SMTT(30) DEF Moved, Kept, Fields
  <2>3. ScanShape(scan'[s], head, oldest) /\ scan'[s].waiting = {}
    <3> DEFINE rec == scan'[s]
    <3>1. /\ scan[s].pc # "fetch" /\ rec.pc = "clamp"
          /\ rec.last \in Nat /\ rec.from \in Nat /\ rec.to \in Nat /\ rec.next \in Nat
          /\ rec.from <= rec.to /\ rec.to <= head
          /\ rec.from < rec.next /\ rec.next <= oldest
      BY <1>2, <1>3, <1>6, <2>1, <2>2
    <3>2. Kept(rec, scan[s]) /\ ScanShape(scan[s], head, oldest)
      BY <1>1, <2>2
    <3> HIDE DEF rec
    <3>3. ScanShape(rec, head, oldest) /\ rec.waiting = {}
      BY <3>1, <3>2, QuietRecord
    <3> QED BY <3>3 DEF rec
  <2> QED BY <1>2, <1>4, <2>2, <2>3, QuietMove
<1>7. \/ Goto(s, "fetch")
      \/ \E r \in {0, oldest - 1, oldest} :
           scan[s].from < r /\ scan' = [scan EXCEPT ![s].pc = "clamp", ![s].next = r]
  BY DEF health
<1> QED BY <1>5, <1>6, <1>7

\* Recording a range that the RPC no longer serves.
LEMMA RecordFacts ==
  ASSUME NEW o \in Nat, SyncShape(sync, o), NEW from \in Nat, NEW to \in Nat,
         from <= to, to < o, recordUnscannedRange(<<from, to>>)
  PROVE  /\ SyncShape(sync', o) /\ sync'.lastScannedSlot = sync.lastScannedSlot
         /\ \A l \in Int : Listed(sync'.unscannedRanges, l)
                             <=> Listed(sync.unscannedRanges, l) \/ (from <= l /\ l <= to)
<1> DEFINE m == mergeUnscannedRanges(sync.unscannedRanges, <<from, to>>)
<1>1. Exact(sync.unscannedRanges, o)
  BY DEF SyncShape
<1>2. /\ Exact(m, o)
      /\ \A l \in Int : Listed(m, l) <=> Listed(sync.unscannedRanges, l)
                                           \/ (from <= l /\ l <= to)
  BY <1>1, MergeFacts
<1>3. sync' = [sync EXCEPT !.unscannedRanges = m]
  BY DEF recordUnscannedRange
<1> HIDE DEF m
<1>4. /\ sync'.unscannedRanges = m /\ sync'.lastScannedSlot = sync.lastScannedSlot
      /\ DOMAIN sync' = DOMAIN sync
  BY <1>3, SMTT(30) DEF SyncShape
<1> QED BY <1>2, <1>4 DEF SyncShape

\* The clamp records the ledgers from the scan's first to the first readable one.
LEMMA ClampFacts ==
  ASSUME Shape, NEW s \in Scans, clamp(s)
  PROVE  LET from == scan[s].from
             to   == Min({scan[s].next - 1, scan[s].to})
         IN /\ from \in Nat /\ to \in Nat /\ from <= to /\ to < oldest
            /\ to = IF scan[s].next - 1 <= scan[s].to THEN scan[s].next - 1 ELSE scan[s].to
            /\ recordUnscannedRange(<<from, to>>)
<1> DEFINE to == Min({scan[s].next - 1, scan[s].to})
<1>1. ScanShape(scan[s], head, oldest) /\ ScanTyped(scan[s]) /\ oldest \in Nat
  BY ScanFacts
<1>2. scan[s].pc = "clamp" /\ recordUnscannedRange(<<scan[s].from, to>>)
  BY DEF clamp
<1>3. /\ scan[s].from \in Nat /\ scan[s].to \in Nat /\ scan[s].next \in Nat
      /\ scan[s].from <= scan[s].to /\ scan[s].from < scan[s].next /\ scan[s].next <= oldest
  BY <1>1, <1>2 DEF ScanShape, ScanTyped
<1>4. scan[s].next - 1 \in Int /\ scan[s].to \in Int
  BY <1>3, SMTT(30)
<1>5. to = IF scan[s].next - 1 <= scan[s].to THEN scan[s].next - 1 ELSE scan[s].to
  BY <1>4, MinOfTwo
<1> HIDE DEF to
<1>6. to \in Nat /\ scan[s].from <= to /\ to < oldest
  BY <1>1, <1>3, <1>5, SMTT(30)
<1> QED BY <1>2, <1>3, <1>5, <1>6 DEF to

\* clamp goes on to the fetch.
LEMMA ClampShape ==
  ASSUME Shape, NEW s \in Scans, clamp(s)
  PROVE  Shape'
<1>1. ScanShape(scan[s], head, oldest) /\ ScanTyped(scan[s]) /\ DOMAIN scan = Scans
        /\ DOMAIN scan[s] = Fields /\ head \in Nat /\ oldest \in Nat
  BY ScanFacts
<1>2. /\ scan[s].pc = "clamp" /\ UNCHANGED <<chain, requests>>
      /\ scan' = [scan EXCEPT ![s].pc = "fetch", ![s].from = scan[s].next, ![s].next = 0]
  BY DEF clamp
<1>3. SyncShape(sync', oldest)
  <2> DEFINE from == scan[s].from
             to   == Min({scan[s].next - 1, scan[s].to})
  <2>1. /\ from \in Nat /\ to \in Nat /\ from <= to /\ to < oldest
        /\ recordUnscannedRange(<<from, to>>)
    BY ClampFacts
  <2>2. SyncShape(sync, oldest)
    BY DEF Shape
  <2> HIDE DEF from, to
  <2> QED BY <1>1, <2>1, <2>2, RecordFacts
<1>4. /\ Moved(s, scan'[s]) /\ Kept(scan'[s], scan[s]) /\ scan'[s].pc = "fetch"
      /\ scan'[s].from = scan[s].next /\ scan'[s].to = scan[s].to
      /\ scan'[s].last = scan[s].last /\ scan'[s].next = 0
  BY <1>1, <1>2, SMTT(30) DEF Moved, Kept, Fields
<1>5. /\ scan[s].next \in Nat /\ scan[s].to \in Nat /\ scan[s].last \in Nat
      /\ scan[s].to <= head /\ scan[s].pc # "fetch"
  BY <1>1, <1>2 DEF ScanShape, ScanTyped
<1>6. ScanShape(scan'[s], head, oldest) /\ scan'[s].waiting = {}
  BY <1>1, <1>4, <1>5, FetchRecord
<1> QED BY <1>2, <1>3, <1>4, <1>5, <1>6, QuietMove

\* A fetch that changes neither its first ledger nor its last has the same pages.
LEMMA SamePages ==
  ASSUME NEW rec, NEW sc, rec.from = sc.from, rec.to = sc.to
  PROVE  PagesOf(rec) = PagesOf(sc) /\ PageCount(rec) = PageCount(sc)
BY DEF PagesOf, PageCount

\* A range that a fetching scan pages.
LEMMA PageShape ==
  ASSUME NEW h \in Nat, NEW sc, ScanTyped(sc), Fetching(sc, h), NEW i \in 1 .. PageCount(sc),
         NEW range, range = PagesOf(sc)[i]
  PROVE  /\ range[1] \in Nat /\ range[2] \in Nat /\ range[1] <= range[2]
         /\ range[2] <= range[1] + batchSize /\ range[2] <= h
<1>1. /\ range[1] \in Nat /\ range[2] \in Nat /\ range[1] <= range[2]
      /\ range[2] <= range[1] + batchSize /\ range[2] <= sc.to
  BY PagesOfFacts DEF Paging
<1>2. sc.to \in Nat /\ sc.to <= h
  BY DEF ScanTyped, Fetching
<1> QED BY <1>1, <1>2, SMTT(30)

\* The scan is where it was and fetches the same ledgers, and what it has to flush
\* is the same.
SameFetch(rec, sc) ==
  /\ rec.pc = sc.pc /\ rec.clear = sc.clear /\ rec.last = sc.last
  /\ rec.from = sc.from /\ rec.to = sc.to
SameFlush(rec, sc) ==
  /\ rec.flushed = sc.flushed /\ rec.results = sc.results /\ rec.drain = sc.drain
  /\ rec.failed = sc.failed

\* What a dispatch does: page i is next, and a request for it is in flight.
LEMMA DispatchFacts ==
  ASSUME Shape, NEW s \in Scans, dispatch(s)
  PROVE  LET sc == scan[s]
             i  == sc.next + 1
             range == PagesOf(sc)[i]
         IN /\ sc.pc = "fetch" /\ ~sc.failed /\ i \in 1 .. PageCount(sc)
            /\ Moved(s, scan'[s]) /\ DOMAIN scan'[s] = Fields
            /\ scan'[s].next = i /\ scan'[s].waiting = sc.waiting \cup {i}
            /\ SameFetch(scan'[s], sc) /\ SameFlush(scan'[s], sc)
            /\ DOMAIN requests' = DOMAIN requests \cup {range}
            /\ \A r \in DOMAIN requests :
                 /\ requests'[r].st = requests[r].st /\ requests'[r].start = requests[r].start
                 /\ DOMAIN requests'[r] = DOMAIN requests[r]
            /\ range \notin DOMAIN requests =>
                 requests'[range] = [st |-> "get", start |-> range[1], listeners |-> {s}]
            /\ UNCHANGED <<announced, head, oldest, cached, sync, lost>>
<1> DEFINE sc == scan[s]
           i  == sc.next + 1
           range == PagesOf(sc)[i]
<1>1. /\ ScanTyped(sc) /\ DOMAIN scan = Scans /\ DOMAIN sc = Fields
      /\ RequestsShape(requests, head, oldest)
  BY ScanFacts DEF Shape
<1>2. /\ sc.pc = "fetch" /\ ~sc.failed /\ i <= PageCount(sc)
      /\ scan' = [scan EXCEPT ![s].next = i, ![s].waiting = @ \cup {i}]
      /\ UNCHANGED <<announced, head, oldest, cached, sync, lost>>
  BY PagesSame DEF dispatch, PageCount, chain
<1>3. requests' =
        IF range \notin DOMAIN requests
        THEN [r \in DOMAIN requests \cup {range} |->
                IF r = range THEN [st |-> "get", start |-> range[1], listeners |-> {s}]
                             ELSE requests[r]]
        ELSE IF requests[range].st = "get"
             THEN [requests EXCEPT ![range].listeners = @ \cup {s}]
             ELSE requests
  BY PagesSame DEF dispatch
<1>4. i \in 1 .. PageCount(sc)
  <2>1. sc.next \in Nat /\ PageCount(sc) \in Nat
    BY <1>1, PagesOfFacts DEF ScanTyped, Paging
  <2> QED BY <1>2, <2>1, SMTT(30)
<1> HIDE DEF range
<1>5. /\ Moved(s, scan'[s]) /\ DOMAIN scan'[s] = Fields
      /\ scan'[s].next = i /\ scan'[s].waiting = sc.waiting \cup {i}
      /\ SameFetch(scan'[s], sc) /\ SameFlush(scan'[s], sc)
  <2> HIDE DEF i
  <2> QED BY <1>1, <1>2, SMTT(30) DEF Moved, Fields, SameFetch, SameFlush
<1>6. /\ DOMAIN requests' = DOMAIN requests \cup {range}
      /\ \A r \in DOMAIN requests :
           /\ requests'[r].st = requests[r].st /\ requests'[r].start = requests[r].start
           /\ DOMAIN requests'[r] = DOMAIN requests[r]
      /\ range \notin DOMAIN requests =>
           requests'[range] = [st |-> "get", start |-> range[1], listeners |-> {s}]
  <2>1. CASE range \notin DOMAIN requests
    BY <1>3, <2>1
  <2>2. CASE range \in DOMAIN requests /\ requests[range].st = "get"
    <3>1. requests' = [requests EXCEPT ![range].listeners = @ \cup {s}]
      BY <1>3, <2>2
    <3>2. DOMAIN requests[range] = {"st", "start", "listeners"}
      BY <1>1, <2>2 DEF RequestsShape, RequestShape
    <3> QED BY <2>2, <3>1, <3>2, SMTT(30)
  <2>3. CASE range \in DOMAIN requests /\ requests[range].st # "get"
    BY <1>3, <2>3
  <2> QED BY <2>1, <2>2, <2>3
<1> QED BY <1>2, <1>4, <1>5, <1>6 DEF range

\* dispatch keeps the shape.
LEMMA DispatchShape ==
  ASSUME Shape, NEW s \in Scans, dispatch(s)
  PROVE  Shape'
<1> DEFINE sc  == scan[s]
           rec == scan'[s]
           i   == sc.next + 1
           range == PagesOf(sc)[i]
<1>1. /\ ScanTyped(sc) /\ ScanShape(sc, head, oldest) /\ head \in Nat
      /\ sc.next \in Nat
  BY ScanFacts DEF ScanTyped
<1>2. /\ sc.pc = "fetch" /\ ~sc.failed /\ i \in 1 .. PageCount(sc)
      /\ Moved(s, rec) /\ DOMAIN rec = Fields
      /\ rec.next = i /\ rec.waiting = sc.waiting \cup {i}
      /\ SameFetch(rec, sc) /\ SameFlush(rec, sc)
  BY DispatchFacts
<1>3. /\ DOMAIN requests' = DOMAIN requests \cup {range}
      /\ \A r \in DOMAIN requests :
           /\ requests'[r].st = requests[r].st /\ requests'[r].start = requests[r].start
           /\ DOMAIN requests'[r] = DOMAIN requests[r]
      /\ range \notin DOMAIN requests =>
           requests'[range] = [st |-> "get", start |-> range[1], listeners |-> {s}]
      /\ UNCHANGED <<announced, head, oldest, sync>>
  BY DispatchFacts
<1> HIDE DEF rec, i, range
<1>4. /\ rec.pc = sc.pc /\ rec.from = sc.from /\ rec.to = sc.to /\ rec.last = sc.last
      /\ rec.flushed = sc.flushed /\ rec.results = sc.results /\ rec.drain = sc.drain
      /\ rec.failed = sc.failed
  BY <1>2 DEF SameFetch, SameFlush
<1>5. PagesOf(rec) = PagesOf(sc) /\ PageCount(rec) = PageCount(sc) /\ Fetching(sc, head)
  BY <1>1, <1>2, <1>4, SamePages DEF ScanShape
<1>6. ScanShape(rec, head, oldest)
  <2>1. i \in Nat /\ i <= PageCount(sc) /\ \A j \in 1 .. i : j = i \/ j \in 1 .. sc.next
    BY <1>1, <1>2, <1>5, SMTT(30) DEF i, Fetching
  <2>2. ScanTyped(rec)
    BY <1>1, <1>2, <1>4, <2>1 DEF ScanTyped
  <2>3. \A j : Ready(rec, j) <=> Ready(sc, j)
    BY <1>4 DEF Ready
  <2>4. \A j \in 1 .. i : Accounted(rec, j)
    BY <1>2, <1>4, <1>5, <2>1, <2>3 DEF Fetching, Accounted, NextPage
  <2>5. Fetching(rec, head)
    BY <1>2, <1>4, <1>5, <2>1, <2>3, <2>4 DEF Fetching, NextPage
  <2> QED BY <1>2, <1>4, <2>2, <2>5 DEF ScanShape
<1>7. ScansShape(scan', head, oldest)
  BY <1>2, <1>6 DEF Moved, Shape, ScansShape, rec
<1>8. RequestsShape(requests', head, oldest)
  <2>1. ASSUME NEW r \in DOMAIN requests PROVE RequestShape(r, requests'[r], head, oldest)
    <3>1. RequestShape(r, requests[r], head, oldest)
      BY DEF Shape, RequestsShape
    <3> QED BY <1>3, <3>1 DEF RequestShape
  <2>2. ASSUME range \notin DOMAIN requests
        PROVE  RequestShape(range, requests'[range], head, oldest)
    <3>1. /\ range[1] \in Nat /\ range[2] \in Nat /\ range[1] <= range[2]
          /\ range[2] <= range[1] + batchSize /\ range[2] <= head
      BY <1>1, <1>2, <1>5, PageShape DEF range
    <3>2. /\ DOMAIN requests'[range] = {"st", "start", "listeners"}
          /\ requests'[range].st = "get" /\ requests'[range].start = range[1]
      BY <1>3, <2>2, SMTT(30)
    <3> QED BY <3>1, <3>2 DEF RequestShape
  <2> QED BY <1>3, <2>1, <2>2 DEF RequestsShape
<1>9. Awaited(scan', requests')
  <2>1. ASSUME NEW t \in Scans, NEW j \in scan'[t].waiting
        PROVE  PagesOf(scan'[t])[j] \in DOMAIN requests'
    <3>1. CASE t # s
      BY <1>2, <1>3, <2>1, <3>1 DEF Moved, Shape, Awaited
    <3>2. CASE t = s /\ j = i
      BY <1>3, <1>5, <3>2 DEF range, rec
    <3>3. CASE t = s /\ j # i
      <4>1. j \in sc.waiting
        BY <1>2, <2>1, <3>3 DEF rec
      <4> QED BY <1>3, <1>5, <3>3, <4>1 DEF rec, Shape, Awaited
    <3> QED BY <3>1, <3>2, <3>3
  <2> QED BY <2>1 DEF Awaited
<1>10. Wanted(scan', requests')
  <2>1. ASSUME NEW r \in DOMAIN requests PROVE \E t \in Scans : WaitsFor(scan'[t], r)
    <3>1. PICK t \in Scans : WaitsFor(scan[t], r)
      BY DEF Shape, Wanted
    <3>2. CASE t = s
      BY <1>2, <1>5, <3>1, <3>2 DEF WaitsFor, rec
    <3>3. CASE t # s
      BY <1>2, <3>1, <3>3 DEF Moved
    <3> QED BY <3>2, <3>3
  <2>2. WaitsFor(scan'[s], range)
    BY <1>2, <1>5 DEF WaitsFor, rec, range
  <2> QED BY <1>3, <2>1, <2>2 DEF Wanted
<1> QED BY <1>3, <1>7, <1>8, <1>9, <1>10, ShapeNext DEF Shape

\* The pages that wait for a range, of one scan.
PagesWaiting(sc, range) == {i \in sc.waiting : PagesOf(sc)[i] = range}

\* They are those of Waiting.
LEMMA WaitingSame == \A s, range : Waiting(s, range) = PagesWaiting(scan[s], range)
BY PagesSame DEF Waiting, PagesWaiting

\* A scan that has pages waiting is fetching.
LEMMA WaitersFetch ==
  ASSUME NEW h, NEW o, NEW sc, ScanShape(sc, h, o), sc.waiting # {} \/ sc.drain # "no"
  PROVE  sc.pc = "fetch" /\ Fetching(sc, h) /\ ScanTyped(sc)
BY DEF ScanShape, Quiet

\* What Buffer does to a scan that has pages waiting.
Buffered(rec, sc, pages, logs) ==
  /\ DOMAIN rec = Fields /\ SameFetch(rec, sc)
  /\ rec.next = sc.next /\ rec.flushed = sc.flushed /\ rec.failed = sc.failed
  /\ rec.waiting = sc.waiting \ pages
  /\ rec.results = sc.results \cup {<<i, logs>> : i \in pages}
  /\ rec.drain = IF sc.flushed + 1 \in pages THEN "put" ELSE sc.drain

\* It does so.
LEMMA BufferFacts ==
  ASSUME NEW sc, ScanTyped(sc), NEW pages, pages # {}, NEW logs
  PROVE  Buffered(Buffer(sc, pages, logs), sc, pages, logs)
<1> DEFINE new == {<<i, logs>> : i \in pages}
           d   == IF sc.flushed + 1 \in pages THEN "put" ELSE sc.drain
           rec == Buffer(sc, pages, logs)
<1>1. DOMAIN sc = Fields
  BY DEF ScanTyped
<1>2. rec = [sc EXCEPT !.waiting = @ \ pages, !.results = @ \cup new, !.drain = d]
  BY DEF Buffer
<1> HIDE DEF new, d, rec
<1>3. /\ DOMAIN rec = Fields /\ SameFetch(rec, sc)
      /\ rec.next = sc.next /\ rec.flushed = sc.flushed /\ rec.failed = sc.failed
      /\ rec.waiting = sc.waiting \ pages
      /\ rec.results = sc.results \cup new
      /\ rec.drain = d
  BY <1>1, <1>2, SMTT(30) DEF SameFetch, Fields
<1>4. Buffered(rec, sc, pages, logs)
  BY <1>3 DEF Buffered, new, d
<1> QED BY <1>4 DEF rec

\* The scan no longer waits for the range, and has the shape.
Drops(rec, sc, range, h, o) ==
  /\ ScanShape(rec, h, o)
  /\ rec.waiting = sc.waiting \ PagesWaiting(sc, range)
  /\ PagesOf(rec) = PagesOf(sc)

\* A page that arrives is buffered, and its scan keeps the shape.
LEMMA BufferShape ==
  ASSUME NEW h, NEW o, NEW sc, ScanShape(sc, h, o), NEW range, NEW logs
  PROVE  Drops(Buffer(sc, PagesWaiting(sc, range), logs), sc, range, h, o)
<1> DEFINE pages == PagesWaiting(sc, range)
           rec   == Buffer(sc, pages, logs)
<1>1. CASE pages = {}
  <2>1. rec = sc
    BY <1>1 DEF Buffer
  <2> QED BY <1>1, <2>1 DEF Drops
<1>2. CASE pages # {}
  <2>1. pages \subseteq sc.waiting
    BY DEF PagesWaiting
  <2>2. sc.pc = "fetch" /\ Fetching(sc, h) /\ ScanTyped(sc)
    BY <1>2, <2>1, WaitersFetch
  <2> HIDE DEF pages
  <2>3. /\ DOMAIN rec = Fields /\ SameFetch(rec, sc)
        /\ rec.next = sc.next /\ rec.flushed = sc.flushed /\ rec.failed = sc.failed
        /\ rec.waiting = sc.waiting \ pages
        /\ rec.results = sc.results \cup {<<i, logs>> : i \in pages}
        /\ rec.drain = IF sc.flushed + 1 \in pages THEN "put" ELSE sc.drain
    <3>1. Buffered(rec, sc, pages, logs)
      BY <1>2, <2>2, BufferFacts
    <3> QED BY <3>1 DEF Buffered
  <2> HIDE DEF rec
  <2>4. /\ rec.pc = "fetch" /\ PagesOf(rec) = PagesOf(sc) /\ PageCount(rec) = PageCount(sc)
        /\ NextPage(rec) = NextPage(sc)
    BY <2>2, <2>3, SamePages DEF SameFetch, NextPage
  <2>5. ScanTyped(rec)
    BY <2>2, <2>3 DEF ScanTyped, SameFetch
  <2>6. \A i : Ready(sc, i) \/ i \in pages => Ready(rec, i)
    <3>1. ASSUME NEW i \in pages PROVE Ready(rec, i)
      <4>1. <<i, logs>> \in rec.results /\ <<i, logs>>[1] = i
        BY <2>3
      <4> QED BY <4>1 DEF Ready
    <3>2. ASSUME NEW i, Ready(sc, i) PROVE Ready(rec, i)
      BY <2>3, <3>2 DEF Ready
    <3> QED BY <3>1, <3>2
  <2>7. rec.drain = "put" => Ready(rec, NextPage(rec))
    BY <2>2, <2>3, <2>4, <2>6 DEF Fetching, NextPage
  <2>8. rec.drain = "cursor" => NextPage(rec) <= PageCount(rec)
    BY <2>2, <2>3, <2>4 DEF Fetching
  <2>9. \A page \in rec.results : page[1] \in 1 .. PageCount(rec)
    <3>1. ASSUME NEW page \in rec.results PROVE page[1] \in 1 .. PageCount(rec)
      <4>1. CASE page \in sc.results
        BY <2>2, <2>4, <4>1 DEF Fetching
      <4>2. ASSUME NEW i \in pages, page = <<i, logs>> PROVE page[1] \in 1 .. PageCount(rec)
        <5>1. i \in 1 .. PageCount(sc) /\ page[1] = i
          BY <2>1, <2>2, <4>2 DEF Fetching
        <5> QED BY <2>4, <5>1
      <4> QED BY <2>3, <4>1, <4>2
    <3> QED BY <3>1
  <2>10. ASSUME ~rec.failed, NEW i \in 1 .. rec.next PROVE Accounted(rec, i)
    <3>1. Accounted(sc, i)
      BY <2>2, <2>3, <2>10 DEF Fetching
    <3>2. CASE i = NextPage(sc) /\ sc.drain = "cursor"
      BY <2>3, <2>4, <2>6, <3>2 DEF Accounted, NextPage
    <3>3. CASE i <= sc.flushed \/ i \in sc.waiting \/ Ready(sc, i)
      BY <2>3, <2>6, <3>3 DEF Accounted
    <3> QED BY <3>1, <3>2, <3>3 DEF Accounted
  <2>11. Fetching(rec, h)
    BY <2>2, <2>3, <2>4, <2>7, <2>8, <2>9, <2>10 DEF Fetching, SameFetch
  <2>12. ScanShape(rec, h, o)
    BY <2>4, <2>5, <2>11 DEF ScanShape
  <2> QED BY <2>3, <2>4, <2>12 DEF pages, rec, Drops
<1> QED BY <1>1, <1>2

\* A scan whose request fails stops dispatching and keeps the shape.
LEMMA FailedShape ==
  ASSUME NEW h, NEW o, NEW sc, ScanShape(sc, h, o), NEW range
  PROVE  Drops(Failed(sc, PagesWaiting(sc, range)), sc, range, h, o)
<1> DEFINE pages == PagesWaiting(sc, range)
           rec   == Failed(sc, pages)
<1>1. CASE pages = {}
  <2>1. rec = sc
    BY <1>1 DEF Failed
  <2> QED BY <1>1, <2>1 DEF Drops
<1>2. CASE pages # {}
  <2>1. pages \subseteq sc.waiting
    BY DEF PagesWaiting
  <2>2. sc.pc = "fetch" /\ Fetching(sc, h) /\ ScanTyped(sc) /\ DOMAIN sc = Fields
    BY <1>2, <2>1, WaitersFetch DEF ScanTyped
  <2>3. rec = [sc EXCEPT !.waiting = @ \ pages, !.failed = TRUE]
    BY <1>2 DEF Failed
  <2> HIDE DEF pages, rec
  <2>4. /\ DOMAIN rec = Fields /\ SameFetch(rec, sc) /\ rec.failed = TRUE
        /\ rec.next = sc.next /\ rec.flushed = sc.flushed /\ rec.drain = sc.drain
        /\ rec.waiting = sc.waiting \ pages /\ rec.results = sc.results
    BY <2>2, <2>3, SMTT(30) DEF SameFetch, Fields
  <2>5. /\ rec.pc = "fetch" /\ PagesOf(rec) = PagesOf(sc) /\ PageCount(rec) = PageCount(sc)
    BY <2>2, <2>4, SamePages DEF SameFetch
  <2>6. ScanTyped(rec)
    BY <2>2, <2>4 DEF ScanTyped, SameFetch
  <2>7. Fetching(rec, h)
    BY <2>2, <2>4, <2>5 DEF Fetching, SameFetch, NextPage, Ready
  <2>8. ScanShape(rec, h, o)
    BY <2>5, <2>6, <2>7 DEF ScanShape
  <2> QED BY <2>4, <2>5, <2>8 DEF pages, rec, Drops
<1> QED BY <1>1, <1>2

\* A settled request is gone, and so are the pages that waited for it.
LEMMA SettleShape ==
  ASSUME Shape, NEW range, DOMAIN scan' = Scans, requests' = Settled(range),
         \A s \in Scans : /\ ScanShape(scan'[s], head, oldest)
                          /\ scan'[s].waiting = scan[s].waiting \ PagesWaiting(scan[s], range)
                          /\ PagesOf(scan'[s]) = PagesOf(scan[s]),
         UNCHANGED <<announced, head, oldest, sync>>
  PROVE  Shape'
<1>1. /\ DOMAIN requests' = DOMAIN requests \ {range}
      /\ \A r \in DOMAIN requests' : requests'[r] = requests[r]
  BY DEF Settled
<1>2. ScansShape(scan', head, oldest)
  BY DEF ScansShape
<1>3. RequestsShape(requests', head, oldest)
  BY <1>1 DEF Shape, RequestsShape
<1>4. Awaited(scan', requests')
  <2>1. ASSUME NEW s \in Scans, NEW i \in scan'[s].waiting
        PROVE  PagesOf(scan'[s])[i] \in DOMAIN requests'
    <3>1. i \in scan[s].waiting /\ PagesOf(scan[s])[i] # range
      BY <2>1 DEF PagesWaiting
    <3>2. PagesOf(scan[s])[i] \in DOMAIN requests
      BY <3>1 DEF Shape, Awaited
    <3> QED BY <1>1, <3>1, <3>2
  <2> QED BY <2>1 DEF Awaited
<1>5. Wanted(scan', requests')
  <2>1. ASSUME NEW r \in DOMAIN requests' PROVE \E s \in Scans : WaitsFor(scan'[s], r)
    <3>1. r \in DOMAIN requests /\ r # range
      BY <1>1
    <3>2. PICK s \in Scans : WaitsFor(scan[s], r)
      BY <3>1 DEF Shape, Wanted
    <3>3. PICK i \in scan[s].waiting : PagesOf(scan[s])[i] = r
      BY <3>2 DEF WaitsFor
    <3>4. i \in scan'[s].waiting /\ PagesOf(scan'[s])[i] = r
      BY <3>1, <3>3 DEF PagesWaiting
    <3>5. WaitsFor(scan'[s], r)
      BY <3>4 DEF WaitsFor
    <3> QED BY <3>5
  <2> QED BY <2>1 DEF Wanted
<1> QED BY <1>2, <1>3, <1>4, <1>5, ShapeNext DEF Shape

\* answer keeps the shape.
LEMMA AnswerShape ==
  ASSUME Shape, NEW range, answer(range)
  PROVE  Shape'
<1> DEFINE logs == getEvents(requests[range].start)
<1>1. /\ scan' = [s \in Scans |-> Buffer(scan[s], PagesWaiting(scan[s], range), logs)]
      /\ requests' = Settled(range) /\ UNCHANGED <<announced, head, oldest, sync>>
  BY WaitingSame DEF answer, chain
<1> HIDE DEF logs
<1>2. ASSUME NEW s \in Scans
      PROVE  /\ ScanShape(scan'[s], head, oldest)
             /\ scan'[s].waiting = scan[s].waiting \ PagesWaiting(scan[s], range)
             /\ PagesOf(scan'[s]) = PagesOf(scan[s])
  <2>1. scan'[s] = Buffer(scan[s], PagesWaiting(scan[s], range), logs)
    BY <1>1
  <2>2. ScanShape(scan[s], head, oldest)
    BY ScanFacts
  <2>3. Drops(Buffer(scan[s], PagesWaiting(scan[s], range), logs),
              scan[s], range, head, oldest)
    BY <2>2, BufferShape
  <2> QED BY <2>1, <2>3 DEF Drops
<1>3. DOMAIN scan' = Scans
  BY <1>1
<1> QED BY <1>1, <1>2, <1>3, SettleShape

\* reject keeps the shape.
LEMMA RejectShape ==
  ASSUME Shape, NEW range, reject(range)
  PROVE  Shape'
<1>1. /\ scan' = [s \in Scans |-> Failed(scan[s], PagesWaiting(scan[s], range))]
      /\ requests' = Settled(range) /\ UNCHANGED <<announced, head, oldest, sync>>
  BY WaitingSame DEF reject, chain
<1>2. ASSUME NEW s \in Scans
      PROVE  /\ ScanShape(scan'[s], head, oldest)
             /\ scan'[s].waiting = scan[s].waiting \ PagesWaiting(scan[s], range)
             /\ PagesOf(scan'[s]) = PagesOf(scan[s])
  <2>1. scan'[s] = Failed(scan[s], PagesWaiting(scan[s], range))
    BY <1>1
  <2>2. ScanShape(scan[s], head, oldest)
    BY ScanFacts
  <2>3. Drops(Failed(scan[s], PagesWaiting(scan[s], range)),
              scan[s], range, head, oldest)
    BY <2>2, FailedShape
  <2> QED BY <2>1, <2>3 DEF Drops
<1>3. DOMAIN scan' = Scans
  BY <1>1
<1> QED BY <1>1, <1>2, <1>3, SettleShape

\* A change of one request that leaves its range alone.
LEMMA RequestMove ==
  ASSUME Shape, NEW range \in DOMAIN requests, DOMAIN requests' = DOMAIN requests,
         RequestShape(range, requests'[range], head, oldest),
         \A r \in DOMAIN requests : r # range => requests'[r] = requests[r],
         SyncShape(sync', oldest), UNCHANGED <<announced, head, oldest, scan>>
  PROVE  Shape'
<1>1. RequestsShape(requests', head, oldest)
  BY DEF Shape, RequestsShape
<1>2. Awaited(scan', requests') /\ Wanted(scan', requests')
  BY DEF Shape, Awaited, Wanted
<1> QED BY <1>1, <1>2, ShapeNext DEF Shape

\* rangeError keeps the shape.
LEMMA RangeErrorShape ==
  ASSUME Shape, NEW range, rangeError(range)
  PROVE  Shape'
<1>1. /\ range \in DOMAIN requests /\ requests[range].st = "get"
      /\ requests[range].start < oldest
      /\ requests' = [requests EXCEPT ![range].st = "gap", ![range].start = oldest]
      /\ UNCHANGED <<announced, head, oldest, scan, sync>>
  BY DEF rangeError, chain
<1>2. RequestShape(range, requests[range], head, oldest) /\ oldest \in Nat
  BY <1>1 DEF Shape, RequestsShape
<1>3. /\ DOMAIN requests' = DOMAIN requests
      /\ \A r \in DOMAIN requests : r # range => requests'[r] = requests[r]
  BY <1>1
<1>4. /\ DOMAIN requests'[range] = {"st", "start", "listeners"}
      /\ requests'[range].st = "gap" /\ requests'[range].start = oldest
  <2>1. DOMAIN requests[range] = {"st", "start", "listeners"}
    BY <1>2 DEF RequestShape
  <2>2. requests'[range] = [requests[range] EXCEPT !.st = "gap", !.start = oldest]
    BY <1>1
  <2> QED BY <2>1, <2>2, SMTT(30)
<1>5. range[1] < oldest /\ oldest <= oldest
  BY <1>1, <1>2, SMTT(30) DEF RequestShape
<1>6. RequestShape(range, requests'[range], head, oldest)
  BY <1>2, <1>4, <1>5 DEF RequestShape
<1>7. SyncShape(sync', oldest)
  BY <1>1 DEF Shape
<1> QED BY <1>1, <1>3, <1>6, <1>7, RequestMove

\* What a scan records of a page whose start is gone.
LEMMA ReportFacts ==
  ASSUME Shape, NEW s, NEW range, reportGap(s, range)
  PROVE  LET to == Min({requests[range].start - 1, range[2]})
         IN /\ range \in DOMAIN requests
            /\ range[1] \in Nat /\ to \in Nat /\ range[1] <= to /\ to < oldest
            /\ recordUnscannedRange(<<range[1], to>>)
            /\ DOMAIN requests' = DOMAIN requests
            /\ \A r \in DOMAIN requests : r # range => requests'[r] = requests[r]
            /\ requests'[range].start = requests[range].start
            /\ RequestShape(range, requests'[range], head, oldest)
            /\ UNCHANGED <<announced, head, oldest, cached, scan, lost>>
<1> DEFINE to == Min({requests[range].start - 1, range[2]})
           left == requests[range].listeners \ {s}
           st == IF left = {} THEN "retry" ELSE "gap"
<1>1. /\ range \in DOMAIN requests /\ requests[range].st = "gap"
      /\ recordUnscannedRange(<<range[1], to>>)
      /\ requests' = [requests EXCEPT ![range].listeners = left, ![range].st = st]
      /\ UNCHANGED <<announced, head, oldest, cached, scan, lost>>
  BY DEF reportGap, chain
<1>2. RequestShape(range, requests[range], head, oldest) /\ oldest \in Nat
  BY <1>1 DEF Shape, RequestsShape
<1>3. /\ range[1] \in Nat /\ range[2] \in Nat /\ range[1] <= range[2]
      /\ requests[range].start \in Nat /\ range[1] < requests[range].start
      /\ requests[range].start <= oldest
  BY <1>1, <1>2 DEF RequestShape
<1>4. requests[range].start - 1 \in Int /\ range[2] \in Int
  BY <1>3, SMTT(30)
<1>5. to = IF requests[range].start - 1 <= range[2] THEN requests[range].start - 1 ELSE range[2]
  BY <1>4, MinOfTwo
<1> HIDE DEF to
<1>6. to \in Nat /\ range[1] <= to /\ to < oldest
  BY <1>2, <1>3, <1>5, SMTT(30)
<1>7. st \in {"retry", "gap"}
  OBVIOUS
<1> HIDE DEF left, st
<1>8. /\ DOMAIN requests' = DOMAIN requests
      /\ \A r \in DOMAIN requests : r # range => requests'[r] = requests[r]
  BY <1>1
<1>9. /\ DOMAIN requests'[range] = {"st", "start", "listeners"}
      /\ requests'[range].st = st /\ requests'[range].start = requests[range].start
  <2>1. DOMAIN requests[range] = {"st", "start", "listeners"}
    BY <1>2 DEF RequestShape
  <2>2. requests'[range] = [requests[range] EXCEPT !.listeners = left, !.st = st]
    BY <1>1
  <2> QED BY <2>1, <2>2, SMTT(30)
<1>10. RequestShape(range, requests'[range], head, oldest)
  BY <1>2, <1>3, <1>7, <1>9 DEF RequestShape
<1> QED BY <1>1, <1>3, <1>6, <1>8, <1>9, <1>10 DEF to

\* reportGap keeps the shape.
LEMMA ReportShape ==
  ASSUME Shape, NEW s, NEW range, reportGap(s, range)
  PROVE  Shape'
<1> DEFINE to == Min({requests[range].start - 1, range[2]})
<1>1. /\ range \in DOMAIN requests
      /\ range[1] \in Nat /\ to \in Nat /\ range[1] <= to /\ to < oldest
      /\ recordUnscannedRange(<<range[1], to>>)
      /\ DOMAIN requests' = DOMAIN requests
      /\ \A r \in DOMAIN requests : r # range => requests'[r] = requests[r]
      /\ RequestShape(range, requests'[range], head, oldest)
      /\ UNCHANGED <<announced, head, oldest, scan>>
  BY ReportFacts
<1> HIDE DEF to
<1>2. SyncShape(sync, oldest) /\ oldest \in Nat
  BY DEF Shape
<1>3. SyncShape(sync', oldest)
  BY <1>1, <1>2, RecordFacts
<1> QED BY <1>1, <1>3, RequestMove

\* A scan that flushes: it is fetching, and these are its pages.
LEMMA FlushFacts ==
  ASSUME Shape, NEW s \in Scans, scan[s].drain # "no"
  PROVE  /\ scan[s].pc = "fetch" /\ Fetching(scan[s], head) /\ ScanTyped(scan[s])
         /\ DOMAIN scan = Scans /\ DOMAIN scan[s] = Fields
         /\ scan[s].flushed \in Nat /\ PageCount(scan[s]) \in Nat
<1>1. /\ ScanShape(scan[s], head, oldest) /\ ScanTyped(scan[s]) /\ DOMAIN scan = Scans
      /\ DOMAIN scan[s] = Fields /\ scan[s].flushed \in Nat
  BY ScanFacts DEF ScanTyped
<1>2. PageCount(scan[s]) \in Nat
  BY <1>1, PagesOfFacts DEF Paging
<1> QED BY <1>1, <1>2, WaitersFetch

\* putAnnouncements takes the page out of the buffer.
LEMMA PutFacts ==
  ASSUME Shape, NEW s \in Scans, NEW page \in scan[s].results, scan[s].drain = "put",
         page[1] = scan[s].flushed + 1,
         scan' = [scan EXCEPT ![s].drain = "cursor", ![s].results = @ \ {page}]
  PROVE  /\ Moved(s, scan'[s]) /\ DOMAIN scan'[s] = Fields
         /\ SameFetch(scan'[s], scan[s])
         /\ scan'[s].next = scan[s].next /\ scan'[s].flushed = scan[s].flushed
         /\ scan'[s].failed = scan[s].failed /\ scan'[s].waiting = scan[s].waiting
         /\ scan'[s].drain = "cursor" /\ scan'[s].results = scan[s].results \ {page}
<1>1. DOMAIN scan = Scans /\ DOMAIN scan[s] = Fields
  BY FlushFacts
<1> QED BY <1>1, SMTT(30) DEF Moved, SameFetch, Fields

\* putAnnouncements keeps the shape.
LEMMA PutShape ==
  ASSUME Shape, NEW s \in Scans, putAnnouncements(s)
  PROVE  Shape'
<1> DEFINE sc == scan[s]
           rec == scan'[s]
<1>1. PICK page \in sc.results :
        /\ page[1] = sc.flushed + 1 /\ sc.drain = "put"
        /\ scan' = [scan EXCEPT ![s].drain = "cursor", ![s].results = @ \ {page}]
  BY DEF putAnnouncements
<1>2. sc.pc = "fetch" /\ Fetching(sc, head) /\ ScanTyped(sc) /\ sc.flushed \in Nat
        /\ PageCount(sc) \in Nat
  BY <1>1, FlushFacts
<1>3. /\ Moved(s, rec) /\ DOMAIN rec = Fields /\ SameFetch(rec, sc)
      /\ rec.next = sc.next /\ rec.flushed = sc.flushed
      /\ rec.failed = sc.failed /\ rec.waiting = sc.waiting
      /\ rec.drain = "cursor" /\ rec.results = sc.results \ {page}
  BY <1>1, PutFacts
<1> HIDE DEF rec
<1>4. /\ PagesOf(rec) = PagesOf(sc) /\ PageCount(rec) = PageCount(sc) /\ rec.pc = "fetch"
      /\ NextPage(rec) = NextPage(sc)
  BY <1>2, <1>3, SamePages DEF SameFetch, NextPage
<1>5. ScanTyped(rec)
  BY <1>2, <1>3 DEF ScanTyped, SameFetch
<1>6. NextPage(rec) <= PageCount(rec)
  <2>1. page[1] \in 1 .. PageCount(sc)
    BY <1>2 DEF Fetching
  <2> QED BY <1>1, <1>2, <1>4, <2>1, SMTT(30) DEF NextPage
<1>7. ASSUME ~rec.failed, NEW i \in 1 .. rec.next PROVE Accounted(rec, i)
  <2>1. Accounted(sc, i)
    BY <1>2, <1>3, <1>7 DEF Fetching
  <2>2. ASSUME Ready(sc, i) PROVE Ready(rec, i) \/ i = NextPage(rec)
    BY <1>1, <1>3, <1>4, <2>2 DEF Ready, NextPage
  <2> QED BY <1>3, <1>4, <2>1, <2>2 DEF Accounted
<1>8. Fetching(rec, head)
  BY <1>2, <1>3, <1>4, <1>6, <1>7 DEF Fetching, SameFetch
<1>9. ScanShape(rec, head, oldest)
  BY <1>4, <1>5, <1>8 DEF ScanShape
<1>10. SyncShape(sync', oldest) /\ UNCHANGED <<chain, requests>>
  BY DEF putAnnouncements, Shape
<1> QED BY <1>3, <1>4, <1>9, <1>10, MoveShape

\* moveCursor: the page that has been written is flushed.
LEMMA CursorFacts ==
  ASSUME Shape, NEW s \in Scans, moveCursor(s)
  PROVE  /\ scan[s].drain = "cursor" /\ NextPage(scan[s]) \in 1 .. PageCount(scan[s])
         /\ Moved(s, scan'[s]) /\ DOMAIN scan'[s] = Fields
         /\ SameFetch(scan'[s], scan[s]) /\ scan'[s].results = scan[s].results
         /\ scan'[s].next = scan[s].next /\ scan'[s].flushed = NextPage(scan[s])
         /\ scan'[s].failed = scan[s].failed /\ scan'[s].waiting = scan[s].waiting
         /\ scan'[s].drain = IF Ready(scan[s], NextPage(scan[s]) + 1) THEN "put" ELSE "no"
         /\ DOMAIN sync' = DOMAIN sync /\ sync'.unscannedRanges = sync.unscannedRanges
         /\ sync'.lastScannedSlot = PagesOf(scan[s])[NextPage(scan[s])][2]
<1> DEFINE sc == scan[s]
           i == NextPage(sc)
           d == IF Ready(sc, i + 1) THEN "put" ELSE "no"
           last == PagesOf(sc)[i][2]
<1>1. /\ sc.drain = "cursor" /\ scan' = [scan EXCEPT ![s].flushed = i, ![s].drain = d]
      /\ sync' = [sync EXCEPT !.lastScannedSlot = last]
  BY PagesSame DEF moveCursor, setSyncState, NextPage
<1>2. /\ Fetching(sc, head) /\ DOMAIN scan = Scans /\ DOMAIN sc = Fields
      /\ sc.flushed \in Nat /\ PageCount(sc) \in Nat
  BY <1>1, FlushFacts
<1>3. i \in 1 .. PageCount(sc)
  <2>1. i <= PageCount(sc)
    BY <1>1, <1>2 DEF Fetching
  <2> QED BY <1>2, <2>1, SMTT(30) DEF NextPage
<1> HIDE DEF i, d, last
<1>4. /\ Moved(s, scan'[s]) /\ DOMAIN scan'[s] = Fields
      /\ SameFetch(scan'[s], sc) /\ scan'[s].results = sc.results
      /\ scan'[s].next = sc.next /\ scan'[s].flushed = i
      /\ scan'[s].failed = sc.failed /\ scan'[s].waiting = sc.waiting
      /\ scan'[s].drain = d
  BY <1>1, <1>2, SMTT(30) DEF Moved, SameFetch, Fields
<1>5. DOMAIN sync' = DOMAIN sync /\ sync'.unscannedRanges = sync.unscannedRanges
        /\ sync'.lastScannedSlot = last
  <2>1. DOMAIN sync = {"lastScannedSlot", "unscannedRanges"}
    BY DEF Shape, SyncShape
  <2> QED BY <1>1, <2>1, SMTT(30)
<1> QED BY <1>1, <1>3, <1>4, <1>5 DEF i, d, last

\* moveCursor keeps the shape.
LEMMA CursorShape ==
  ASSUME Shape, NEW s \in Scans, moveCursor(s)
  PROVE  Shape'
<1> DEFINE sc == scan[s]
           rec == scan'[s]
           i == NextPage(sc)
<1>1. /\ sc.drain = "cursor" /\ i \in 1 .. PageCount(sc)
      /\ Moved(s, rec) /\ DOMAIN rec = Fields /\ SameFetch(rec, sc)
      /\ rec.results = sc.results /\ rec.next = sc.next /\ rec.flushed = i
      /\ rec.failed = sc.failed /\ rec.waiting = sc.waiting
      /\ rec.drain = IF Ready(sc, i + 1) THEN "put" ELSE "no"
  BY CursorFacts
<1>2. /\ DOMAIN sync' = DOMAIN sync /\ sync'.unscannedRanges = sync.unscannedRanges
      /\ sync'.lastScannedSlot = PagesOf(sc)[i][2]
  BY CursorFacts
<1>3. /\ sc.pc = "fetch" /\ Fetching(sc, head) /\ ScanTyped(sc)
      /\ sc.flushed \in Nat /\ PageCount(sc) \in Nat
  BY <1>1, FlushFacts
<1> HIDE DEF rec
<1>4. PagesOf(rec) = PagesOf(sc) /\ PageCount(rec) = PageCount(sc) /\ rec.pc = "fetch"
  BY <1>1, <1>3, SamePages DEF SameFetch
<1>5. i \in Nat /\ i <= PageCount(sc) /\ i = sc.flushed + 1
  BY <1>1, <1>3, SMTT(30) DEF NextPage
<1>6. ScanTyped(rec)
  BY <1>1, <1>3, <1>5 DEF ScanTyped, SameFetch
<1>7. \A j : Ready(rec, j) <=> Ready(sc, j)
  BY <1>1 DEF Ready
<1>8. rec.drain # "cursor" /\ (rec.drain = "put" => Ready(rec, NextPage(rec)))
  BY <1>1, <1>7 DEF NextPage
<1>9. ASSUME ~rec.failed, NEW j \in 1 .. rec.next PROVE Accounted(rec, j)
  <2>1. Accounted(sc, j)
    BY <1>1, <1>3, <1>9 DEF Fetching
  <2>2. j \in Int
    BY <1>9, SMTT(30)
  <2>3. j <= sc.flushed \/ j = i => j <= rec.flushed
    BY <1>1, <1>3, <1>5, <2>2, SMTT(30)
  <2> QED BY <1>1, <1>7, <2>1, <2>3 DEF Accounted
<1>10. Fetching(rec, head)
  BY <1>1, <1>3, <1>4, <1>5, <1>8, <1>9 DEF Fetching, SameFetch
<1>11. ScanShape(rec, head, oldest)
  BY <1>4, <1>6, <1>10 DEF ScanShape
<1>12. SyncShape(sync', oldest)
  <2>1. PagesOf(sc)[i][2] \in Nat
    BY <1>1, <1>3, PagesOfFacts DEF Paging
  <2> QED BY <1>2, <2>1 DEF Shape, SyncShape
<1>13. UNCHANGED <<chain, requests>>
  BY DEF moveCursor
<1> QED BY <1>1, <1>4, <1>11, <1>12, <1>13, MoveShape

\* finish gives up, flushes on, or is done with every page.
LEMMA FinishFacts ==
  ASSUME Shape, NEW s \in Scans, finish(s)
  PROVE  /\ scan[s].pc = "fetch" /\ scan[s].waiting = {} /\ scan[s].drain = "no"
         /\ Fetching(scan[s], head) /\ ScanTyped(scan[s])
         /\ \/ Moved(s, Idle)
            \/ ~scan[s].failed /\ Ready(scan[s], NextPage(scan[s]))
                 /\ Moved(s, [scan[s] EXCEPT !.drain = "put"])
            \/ /\ ~scan[s].failed /\ scan[s].next = PageCount(scan[s])
               /\ ~Ready(scan[s], NextPage(scan[s]))
               /\ Moved(s, [Idle EXCEPT !.pc = "done", !.to = scan[s].to])
<1> DEFINE sc == scan[s]
           rec == IF sc.failed THEN Idle
                  ELSE IF Ready(sc, sc.flushed + 1) THEN [sc EXCEPT !.drain = "put"]
                  ELSE [Idle EXCEPT !.pc = "done", !.to = sc.to]
<1>1. /\ sc.pc = "fetch" /\ sc.waiting = {} /\ sc.drain = "no"
      /\ sc.failed \/ sc.next = PageCount(sc)
      /\ scan' = [scan EXCEPT ![s] = rec]
  BY PagesSame DEF finish, PageCount
<1>2. Fetching(sc, head) /\ ScanTyped(sc)
  BY <1>1, ScanFacts DEF ScanShape
<1>3. Moved(s, rec)
  <2> HIDE DEF rec
  <2> QED BY <1>1, Replaced
<1>4. \/ rec = Idle
      \/ ~sc.failed /\ Ready(sc, NextPage(sc)) /\ rec = [sc EXCEPT !.drain = "put"]
      \/ /\ ~sc.failed /\ sc.next = PageCount(sc) /\ ~Ready(sc, NextPage(sc))
         /\ rec = [Idle EXCEPT !.pc = "done", !.to = sc.to]
  BY <1>1 DEF NextPage
<1> HIDE DEF rec
<1> QED BY <1>1, <1>2, <1>3, <1>4

\* finish keeps the shape.
LEMMA FinishShape ==
  ASSUME Shape, NEW s \in Scans, finish(s)
  PROVE  Shape'
<1> DEFINE sc == scan[s]
<1>1. /\ sc.pc = "fetch" /\ sc.waiting = {} /\ sc.drain = "no"
      /\ Fetching(sc, head) /\ ScanTyped(sc) /\ DOMAIN sc = Fields /\ sc.to \in Nat
  BY FinishFacts DEF ScanTyped
<1>2. SyncShape(sync', oldest) /\ UNCHANGED <<chain, requests>>
  BY DEF finish, Shape
<1>3. ASSUME NEW rec, Moved(s, rec), ScanShape(rec, head, oldest), rec.waiting = {}
      PROVE  Shape'
  BY <1>1, <1>2, <1>3, MoveShape
<1>4. "done" \notin {"clamp", "fetch", "health"}
  OBVIOUS
<1>5. CASE Moved(s, Idle)
  BY <1>1, <1>3, <1>4, <1>5, IdleRecord
<1>6. CASE Moved(s, [Idle EXCEPT !.pc = "done", !.to = sc.to])
  <2> DEFINE rec == [Idle EXCEPT !.pc = "done", !.to = sc.to]
  <2>1. ScanShape(rec, head, oldest) /\ rec.waiting = {}
    BY <1>1, <1>4, IdleRecord
  <2> HIDE DEF rec
  <2>2. Moved(s, rec)
    BY <1>6 DEF rec
  <2> QED BY <1>3, <2>1, <2>2
<1>7. CASE Ready(sc, NextPage(sc)) /\ Moved(s, [sc EXCEPT !.drain = "put"])
  <2> DEFINE rec == [sc EXCEPT !.drain = "put"]
  <2>1. /\ DOMAIN rec = Fields /\ SameFetch(rec, sc) /\ rec.drain = "put"
        /\ rec.next = sc.next /\ rec.flushed = sc.flushed /\ rec.failed = sc.failed
        /\ rec.waiting = sc.waiting /\ rec.results = sc.results
    BY <1>1, SMTT(30) DEF SameFetch, Fields
  <2>2. Moved(s, rec)
    BY <1>7
  <2> HIDE DEF rec
  <2>3. PagesOf(rec) = PagesOf(sc) /\ PageCount(rec) = PageCount(sc) /\ rec.pc = "fetch"
    BY <1>1, <2>1, SamePages DEF SameFetch
  <2>4. ScanTyped(rec)
    BY <1>1, <2>1 DEF ScanTyped, SameFetch
  <2>5. \A i : Ready(rec, i) <=> Ready(sc, i)
    BY <2>1 DEF Ready
  <2>6. Fetching(rec, head)
    BY <1>1, <1>7, <2>1, <2>3, <2>5 DEF Fetching, SameFetch, NextPage, Accounted
  <2>7. ScanShape(rec, head, oldest)
    BY <2>3, <2>4, <2>6 DEF ScanShape
  <2> QED BY <1>1, <1>3, <2>1, <2>2, <2>7
<1> QED BY <1>5, <1>6, <1>7, FinishFacts

\* A reload leaves idle scans and no requests.
LEMMA ReloadShape ==
  ASSUME Shape, Reload
  PROVE  Shape'
<1>1. /\ scan' = [s \in Scans |-> Idle] /\ requests' = <<>>
      /\ UNCHANGED <<announced, head, oldest, sync>>
  BY DEF Reload, chain
<1>2. DOMAIN requests' = {}
  BY <1>1, SMTT(30)
<1>3. 0 \in Nat /\ "idle" \notin {"clamp", "fetch", "health"}
  BY SMTT(30)
<1>4. ScanShape(Idle, head, oldest) /\ Idle.waiting = {}
  BY <1>3, IdleRecord
<1>5. ScansShape(scan', head, oldest)
  BY <1>1, <1>4 DEF ScansShape
<1>6. RequestsShape(requests', head, oldest) /\ Wanted(scan', requests')
  BY <1>2 DEF RequestsShape, Wanted
<1>7. Awaited(scan', requests')
  BY <1>1, <1>4 DEF Awaited
<1> QED BY <1>1, <1>5, <1>6, <1>7, ShapeNext DEF Shape

\* A later head and a later retention window keep the shape.
LEMMA ChainShape ==
  ASSUME Shape, CloseLedger \/ Prune
  PROVE  Shape'
<1>1. /\ head' \in Nat /\ oldest' \in Nat /\ head <= head' /\ oldest <= oldest'
      /\ head \in Nat /\ oldest \in Nat
  <2>1. head \in Nat /\ oldest \in Nat
    BY DEF Shape
  <2> QED BY <2>1, SMTT(30) DEF CloseLedger, Prune
<1>2. UNCHANGED <<announced, scan, sync, requests>>
  BY DEF CloseLedger, Prune
<1>3. ASSUME NEW s \in Scans PROVE ScanShape(scan[s], head', oldest')
  <2>1. ScanShape(scan[s], head, oldest) /\ ScanTyped(scan[s])
    BY ScanFacts
  <2>2. /\ scan[s].to \in Nat /\ scan[s].next \in Nat
        /\ scan[s].to <= head => scan[s].to <= head'
        /\ scan[s].next <= oldest => scan[s].next <= oldest'
    BY <1>1, <2>1, SMTT(30) DEF ScanTyped
  <2>3. Fetching(scan[s], head) => Fetching(scan[s], head')
    BY <2>2 DEF Fetching
  <2> QED BY <2>1, <2>2, <2>3 DEF ScanShape
<1>4. ASSUME NEW r \in DOMAIN requests PROVE RequestShape(r, requests[r], head', oldest')
  <2>1. RequestShape(r, requests[r], head, oldest)
    BY DEF Shape, RequestsShape
  <2>2. /\ r[2] \in Nat /\ requests[r].start \in Nat /\ r[2] <= head'
        /\ requests[r].start <= oldest => requests[r].start <= oldest'
    BY <1>1, <2>1, SMTT(30) DEF RequestShape
  <2> QED BY <2>1, <2>2 DEF RequestShape
<1>5. SyncShape(sync, oldest')
  <2>1. SyncShape(sync, oldest)
    BY DEF Shape
  <2> DEFINE gaps == sync.unscannedRanges
  <2>2. Exact(gaps, oldest) /\ Sorted(gaps)
    BY <2>1 DEF SyncShape, Exact
  <2>3. \A i \in 1 .. Len(gaps) : gaps[i][2] \in Nat
    BY <2>2, SMTT(30) DEF Sorted
  <2> HIDE DEF gaps
  <2>4. ASSUME NEW i \in 1 .. Len(gaps) PROVE gaps[i][2] < oldest'
    <3>1. gaps[i][2] < oldest /\ gaps[i][2] \in Nat
      BY <2>2, <2>3 DEF Exact
    <3> QED BY <1>1, <3>1, SMTT(30)
  <2>5. Exact(gaps, oldest')
    BY <2>2, <2>4 DEF Exact
  <2> QED BY <2>1, <2>5 DEF SyncShape, gaps
<1>6. ScansShape(scan', head', oldest') /\ RequestsShape(requests', head', oldest')
  BY <1>2, <1>3, <1>4 DEF Shape, ScansShape, RequestsShape
<1> QED BY <1>1, <1>2, <1>5, <1>6, ShapeNext DEF Shape

\* A new device has nothing cached and no scan.
LEMMA InitShape == Init => Shape
<1>1. SUFFICES ASSUME Init PROVE Shape
  OBVIOUS
<1>2. head \in Nat /\ oldest \in Nat /\ announced \subseteq Ledgers
  BY <1>1, ScannerAssumption, SMTT(30) DEF Init, Ledgers
<1>3. SyncShape(sync, oldest)
  BY <1>1, <1>2, SyncFacts DEF Init
<1>4. DOMAIN requests = {}
  BY <1>1, SMTT(30) DEF Init
<1>5. 0 \in Nat /\ "idle" \notin {"clamp", "fetch", "health"}
  BY SMTT(30)
<1>6. ScanShape(Idle, head, oldest) /\ Idle.waiting = {}
  BY <1>5, IdleRecord
<1>7. ScansShape(scan, head, oldest) /\ Awaited(scan, requests)
  BY <1>1, <1>6 DEF Init, ScansShape, Awaited
<1>8. RequestsShape(requests, head, oldest) /\ Wanted(scan, requests)
  BY <1>4 DEF RequestsShape, Wanted
<1> QED BY <1>2, <1>3, <1>7, <1>8 DEF Shape

\* Every step keeps the shape.
LEMMA StepShape == Shape /\ [Next]_vars => Shape'
<1>1. SUFFICES ASSUME Shape, [Next]_vars PROVE Shape'
  OBVIOUS
<1>2. CASE UNCHANGED vars
  BY <1>1, <1>2, ShapeNext DEF vars, Shape
<1>3. ASSUME NEW s \in Scans, mount(s) \/ refresh(s) \/ retrySync(s) PROVE Shape'
  BY <1>1, <1>3, StartShape DEF mount, refresh, retrySync
<1>4. ASSUME NEW s \in Scans, slotFails(s) PROVE Shape'
  BY <1>1, <1>4, BeforeShape
<1>5. ASSUME NEW s \in Scans, ScanStep(s) PROVE Shape'
  <2>1. CASE \/ mountSync(s) \/ mountSlot(s) \/ mountClear(s) \/ clearCache(s)
             \/ clearSync(s) \/ load(s) \/ loadSync(s) \/ resetSync(s)
    BY <1>1, <2>1, BeforeShape
  <2>2. CASE slot(s) \/ health(s) \/ clamp(s) \/ dispatch(s)
    BY <1>1, <2>2, SlotShape, HealthShape, ClampShape, DispatchShape
  <2>3. CASE putAnnouncements(s) \/ moveCursor(s) \/ finish(s)
    BY <1>1, <2>3, PutShape, CursorShape, FinishShape
  <2>4. CASE \E range \in DOMAIN requests : reportGap(s, range)
    BY <1>1, <2>4, ReportShape
  <2> QED BY <1>5, <2>1, <2>2, <2>3, <2>4 DEF ScanStep
<1>6. CASE RequestStep
  BY <1>1, <1>6, AnswerShape, RangeErrorShape, RejectShape DEF RequestStep
<1>7. CASE CloseLedger \/ Prune \/ Reload
  BY <1>1, <1>7, ChainShape, ReloadShape
<1> QED BY <1>1, <1>2, <1>3, <1>4, <1>5, <1>6, <1>7 DEF Next

\* Every page that a worker waits for has its request in flight, and the page being
\* flushed is there, whichever scans share the requests and in whatever order these
\* are answered or fail (fetchPageShared, the worker pool of fetchLogsAdaptive).
THEOREM NoPageIsOrphanedHolds == Spec => []NoPageIsOrphaned
<1>1. Shape => NoPageIsOrphaned
  <2>1. SUFFICES ASSUME Shape, NEW s \in Scans
                 PROVE  /\ \A i \in scan[s].waiting : Pages(s)[i] \in DOMAIN requests
                        /\ scan[s].drain = "put" => Ready(scan[s], scan[s].flushed + 1)
    BY DEF NoPageIsOrphaned
  <2>2. \A i \in scan[s].waiting : Pages(s)[i] \in DOMAIN requests
    BY <2>1, PagesSame DEF Shape, Awaited
  <2>3. ASSUME scan[s].drain = "put" PROVE Ready(scan[s], scan[s].flushed + 1)
    <3>1. Fetching(scan[s], head)
      BY <2>1, <2>3, FlushFacts
    <3> QED BY <2>3, <3>1 DEF Fetching, NextPage
  <2> QED BY <2>2, <2>3
<1> QED BY <1>1, InitShape, StepShape, PTL DEF Spec

-----------------------------------------------------------------------------
(* What the cursor and the scans have covered.  c is the cache, and E the  *)
(* ledgers that need not be in it: those that the RPC no longer serves, or *)
(* those that are recorded as gaps.  Both are kept by the same argument.   *)

\* The announcements of the ledgers from .. to, of those in an.
Between(an, from, to) == {l \in an : from <= l /\ l <= to}

\* The announcements up to a ledger, or of a page, are known.
Covers(an, known, last) == Between(an, startBlock, last) \subseteq known
Holds(an, known, range) == Between(an, range[1], range[2]) \subseteq known

\* The ledger up to which a scan has come.
Reached(sc) ==
  IF sc.flushed = 0 THEN IF sc.from - 1 <= sc.to THEN sc.from - 1 ELSE sc.to
  ELSE PagesOf(sc)[sc.flushed][2]

\* A scan trusts the cursor it has read, then what it has flushed.  A page that is
\* buffered holds its announcements, and one that is written has them in the cache.
ScanCovered(an, sc, c, E) ==
  /\ sc.pc \in {"resetSync", "slot"} /\ ~sc.clear => Covers(an, c \cup E, sc.last)
  /\ sc.pc \in {"health", "clamp", "fetch"} => Covers(an, c \cup E, Reached(sc))
  /\ \A page \in sc.results : Holds(an, page[2] \cup E, PagesOf(sc)[page[1]])
  /\ sc.drain = "cursor" => Holds(an, c \cup E, PagesOf(sc)[NextPage(sc)])

\* Once its listeners have been told, a request leaves out excused ledgers only.
RequestCovered(an, range, r, E) ==
  r.st # "gap" => \A l \in Between(an, range[1], range[2]) : l < r.start => l \in E

Covered(an, last, scs, req, c, E) ==
  /\ Covers(an, c \cup E, last)
  /\ \A s \in Scans : ScanCovered(an, scs[s], c, E)
  /\ \A range \in DOMAIN req : RequestCovered(an, range, req[range], E)

\* The same in this state and in the next.
Cov(E) == Covered(announced, sync.lastScannedSlot, scan, requests, cached, E)
CovNext(E) == Covered(announced', sync'.lastScannedSlot, scan', requests', cached', E)

\* More in the cache and more excuses cover as much.
LEMMA CoversMore ==
  ASSUME NEW an, NEW c, NEW E, NEW d, NEW F, c \subseteq d, E \subseteq F
  PROVE  /\ \A last : Covers(an, c \cup E, last) => Covers(an, d \cup F, last)
         /\ \A range : Holds(an, c \cup E, range) => Holds(an, d \cup F, range)
         /\ \A sc : ScanCovered(an, sc, c, E) => ScanCovered(an, sc, d, F)
         /\ \A range, r : RequestCovered(an, range, r, E) => RequestCovered(an, range, r, F)
<1>1. \A last : Covers(an, c \cup E, last) => Covers(an, d \cup F, last)
  BY DEF Covers
<1>2. \A range : Holds(an, c \cup E, range) => Holds(an, d \cup F, range)
  BY DEF Holds
<1>3. \A logs, range : Holds(an, logs \cup E, range) => Holds(an, logs \cup F, range)
  BY DEF Holds
<1>4. ASSUME NEW sc, ScanCovered(an, sc, c, E) PROVE ScanCovered(an, sc, d, F)
  BY <1>1, <1>2, <1>3, <1>4 DEF ScanCovered
<1>5. \A range, r : RequestCovered(an, range, r, E) => RequestCovered(an, range, r, F)
  BY DEF RequestCovered
<1> QED BY <1>1, <1>2, <1>4, <1>5

\* A scan that has nothing to do with the cursor covers nothing.
LEMMA IdleCovered ==
  ASSUME NEW h, NEW o, NEW sc, ScanShape(sc, h, o),
         sc.pc \notin {"resetSync", "slot", "health", "clamp", "fetch"}
  PROVE  \A an, c, E : ScanCovered(an, sc, c, E)
<1>1. sc.results = {} /\ sc.drain = "no"
  BY DEF ScanShape, Quiet
<1> QED BY <1>1 DEF ScanCovered

\* A step of one scan that makes no request.
LEMMA ScanMove ==
  ASSUME NEW E, NEW F, E \subseteq F, Cov(E), cached \subseteq cached',
         NEW s \in Scans, NEW rec, Moved(s, rec),
         ScanCovered(announced, rec, cached', F),
         Covers(announced, cached' \cup F, sync'.lastScannedSlot),
         UNCHANGED <<announced, requests>>
  PROVE  CovNext(F)
<1>1. \A t \in Scans : ScanCovered(announced, scan[t], cached', F)
  BY CoversMore DEF Cov, Covered
<1>2. \A t \in Scans : ScanCovered(announced, scan'[t], cached', F)
  BY <1>1 DEF Moved
<1>3. \A range \in DOMAIN requests : RequestCovered(announced, range, requests[range], F)
  BY CoversMore DEF Cov, Covered
<1> QED BY <1>2, <1>3 DEF CovNext, Covered

\* Such a step that leaves the cursor and the cache alone as well.
LEMMA CalmMove ==
  ASSUME NEW E, NEW F, E \subseteq F, Cov(E), NEW s \in Scans, NEW rec, Moved(s, rec),
         ScanCovered(announced, rec, cached, F),
         UNCHANGED <<announced, cached, sync, requests>>
  PROVE  CovNext(F)
<1>1. Covers(announced, cached' \cup F, sync'.lastScannedSlot)
  BY CoversMore DEF Cov, Covered
<1> QED BY <1>1, ScanMove

\* Every scan is covered by what covers the state.
LEMMA CovFacts ==
  ASSUME NEW E, Cov(E)
  PROVE  /\ Covers(announced, cached \cup E, sync.lastScannedSlot)
         /\ \A s \in Scans : ScanCovered(announced, scan[s], cached, E)
         /\ \A range \in DOMAIN requests :
              RequestCovered(announced, range, requests[range], E)
BY DEF Cov, Covered

\* Steps of a scan that has nothing to do with the cursor afterwards.
IdleStep(s) ==
  \/ mount(s) \/ refresh(s) \/ retrySync(s) \/ slotFails(s)
  \/ mountSync(s) \/ mountSlot(s) \/ load(s)

\* Where they lead.
LEMMA IdleStepFacts ==
  ASSUME Shape, NEW s \in Scans, IdleStep(s)
  PROVE  /\ UNCHANGED <<announced, cached, sync, requests>>
         /\ Moved(s, scan'[s])
         /\ scan'[s].pc \in {"mountSync", "load", "clearCache", "idle", "mountSlot",
                             "mountClear", "loadSync"}
<1>1. DOMAIN scan = Scans /\ DOMAIN scan[s] = Fields
  BY ScanFacts
<1>2. UNCHANGED <<announced, cached, sync, requests>>
  BY DEF IdleStep, mount, refresh, retrySync, Start, slotFails, mountSync, mountSlot, load, chain
<1>3. /\ Moved(s, scan'[s])
      /\ scan'[s].pc \in {"mountSync", "load", "clearCache", "idle", "mountSlot",
                          "mountClear", "loadSync"}
  <2>1. ASSUME NEW p, NEW c, Start(s, p, c) PROVE Moved(s, scan'[s]) /\ scan'[s].pc = p
    BY <1>1, <2>1, SMTT(30) DEF Start, Moved, Idle
  <2>2. CASE mount(s) \/ refresh(s) \/ retrySync(s)
    BY <2>1, <2>2 DEF mount, refresh, retrySync
  <2>3. CASE slotFails(s)
    BY <1>1, <2>3, SMTT(30) DEF slotFails, Moved, Idle
  <2>4. CASE mountSync(s)
    BY <1>1, <2>4, SMTT(30) DEF mountSync, Moved, Fields
  <2>5. CASE mountSlot(s)
    <3>1. PICK p \in {"mountClear", "load"} : Goto(s, p)
      BY <2>5 DEF mountSlot
    <3>2. Moved(s, scan'[s]) /\ scan'[s].pc = p
      BY <3>1, GotoFacts
    <3> QED BY <3>2
  <2>6. CASE load(s)
    BY <1>1, <2>6, SMTT(30) DEF load, Moved, Fields
  <2> QED BY <2>2, <2>3, <2>4, <2>5, <2>6 DEF IdleStep
<1> QED BY <1>2, <1>3

\* They cover what was covered.
LEMMA IdleStepCovered ==
  ASSUME Shape, Shape', NEW E, NEW F, E \subseteq F, Cov(E), NEW s \in Scans, IdleStep(s)
  PROVE  CovNext(F)
<1>1. UNCHANGED <<announced, cached, sync, requests>> /\ Moved(s, scan'[s])
  BY IdleStepFacts
<1>2. ScanShape(scan'[s], head', oldest')
  BY ShapeNext DEF ScansShape
<1>3. scan'[s].pc \notin {"resetSync", "slot", "health", "clamp", "fetch"}
  BY IdleStepFacts
<1>4. ScanCovered(announced, scan'[s], cached, F)
  BY <1>2, <1>3, IdleCovered
<1> QED BY <1>1, <1>4, CalmMove

\* Announcements are in ledgers.
LEMMA LedgerFacts ==
  ASSUME Shape
  PROVE  \A l \in announced : l \in Nat /\ l > 0
<1>1. announced \subseteq 1 .. MaxHead /\ MaxHead \in Nat
  BY ScannerAssumption DEF Shape, Ledgers
<1> QED BY <1>1, SMTT(30)

\* Outside of a fetch only the cursor that was read, or the first ledger, counts.
LEMMA QuietCovered ==
  ASSUME NEW h, NEW o, NEW sc, ScanShape(sc, h, o), sc.pc # "fetch", NEW an, NEW c, NEW E
  PROVE  ScanCovered(an, sc, c, E) <=>
           /\ sc.pc \in {"resetSync", "slot"} /\ ~sc.clear => Covers(an, c \cup E, sc.last)
           /\ sc.pc \in {"health", "clamp"} => Covers(an, c \cup E, Reached(sc))
<1>1. sc.results = {} /\ sc.drain = "no"
  BY DEF ScanShape, Quiet
<1> QED BY <1>1 DEF ScanCovered

\* The scan that is about to fetch has come to the ledger before its first.
LEMMA QuietReached ==
  ASSUME NEW sc, sc.flushed = 0, sc.from \in Nat, sc.to \in Nat, sc.from <= sc.to
  PROVE  Reached(sc) = sc.from - 1
<1>1. sc.from - 1 <= sc.to
  BY SMTT(30)
<1> QED BY <1>1 DEF Reached

\* The cursor that loadSync reads is covered.
LEMMA LoadSyncCovered ==
  ASSUME Shape, Shape', NEW E, NEW F, E \subseteq F, Cov(E), NEW s \in Scans, loadSync(s)
  PROVE  CovNext(F)
<1>1. DOMAIN scan = Scans /\ DOMAIN scan[s] = Fields
  BY ScanFacts
<1>2. PICK p \in {"resetSync", "slot"} :
         scan' = [scan EXCEPT ![s].pc = p, ![s].last = sync.lastScannedSlot, ![s].seen = {}]
  BY DEF loadSync
<1>3. /\ Moved(s, scan'[s]) /\ scan'[s].pc \in {"resetSync", "slot"}
      /\ scan'[s].last = sync.lastScannedSlot
  BY <1>1, <1>2, SMTT(30) DEF Moved, Fields
<1>4. UNCHANGED <<announced, cached, sync, requests>>
  BY DEF loadSync, chain
<1>5. ScanShape(scan'[s], head', oldest')
  BY ShapeNext DEF ScansShape
<1>6. Covers(announced, cached \cup F, scan'[s].last)
  BY <1>3, CovFacts, CoversMore
<1>7. ScanCovered(announced, scan'[s], cached, F)
  BY <1>3, <1>5, <1>6, QuietCovered
<1> QED BY <1>3, <1>4, <1>7, CalmMove

\* What slot does.
LEMMA SlotFacts ==
  ASSUME Shape, NEW s \in Scans, slot(s)
  PROVE  LET from == IF scan[s].clear THEN startBlock ELSE FromBlock(scan[s].last)
         IN /\ Moved(s, scan'[s]) /\ scan'[s].from = from /\ scan'[s].to = head
            /\ scan'[s].pc = IF from > head THEN "done" ELSE "health"
            /\ scan[s].pc = "slot" /\ scan[s].last \in Nat
            /\ UNCHANGED <<announced, head, oldest, cached, sync, requests, lost>>
<1> DEFINE from == IF scan[s].clear THEN startBlock ELSE FromBlock(scan[s].last)
           p == IF from > head THEN "done" ELSE "health"
<1>1. DOMAIN scan = Scans /\ DOMAIN scan[s] = Fields /\ scan[s].last \in Nat
  BY ScanFacts DEF ScanTyped
<1>2. /\ scan[s].pc = "slot" /\ UNCHANGED <<announced, head, oldest, cached, sync, requests, lost>>
      /\ scan' = [scan EXCEPT ![s].pc = p, ![s].from = from, ![s].to = head, ![s].last = 0]
  BY DEF slot, chain
<1> HIDE DEF from, p
<1>3. /\ Moved(s, scan'[s]) /\ scan'[s].from = from /\ scan'[s].to = head
      /\ scan'[s].pc = p
  BY <1>1, <1>2, SMTT(30) DEF Moved, Fields
<1> QED BY <1>1, <1>2, <1>3 DEF from, p

\* Everything before the first ledger of the scan is covered: it is before the
\* deployment of the contract, or the cursor has passed it.
LEMMA SlotReach ==
  ASSUME Shape, NEW E, Cov(E), NEW s \in Scans, slot(s)
  PROVE  /\ scan'[s].from \in Nat
         /\ Covers(announced, cached \cup E, scan'[s].from - 1)
<1>1. /\ scan'[s].from = IF scan[s].clear THEN startBlock ELSE FromBlock(scan[s].last)
      /\ scan[s].pc = "slot" /\ scan[s].last \in Nat
  BY SlotFacts
<1>2. /\ startBlock \in Nat /\ startBlock > 0
      /\ FromBlock(scan[s].last)
           = IF scan[s].last + 1 >= startBlock THEN scan[s].last + 1 ELSE startBlock
  BY <1>1, FromFacts
<1>3. ~scan[s].clear => Covers(announced, cached \cup E, scan[s].last)
  BY <1>1, CovFacts DEF ScanCovered
<1>4. scan'[s].from \in Nat
  BY <1>1, <1>2, SMTT(30)
<1>5. ASSUME NEW l \in announced, startBlock <= l, l <= scan'[s].from - 1
      PROVE  ~scan[s].clear /\ l <= scan[s].last
  <2>1. l \in Nat
    BY LedgerFacts
  <2> QED BY <1>1, <1>2, <1>4, <1>5, <2>1, SMTT(30)
<1>6. Covers(announced, cached \cup E, scan'[s].from - 1)
  <2>1. SUFFICES ASSUME NEW l \in announced, startBlock <= l, l <= scan'[s].from - 1
                 PROVE  l \in cached \cup E
    BY DEF Covers, Between
  <2> QED BY <1>3, <1>5, <2>1 DEF Covers, Between
<1> QED BY <1>4, <1>6

\* slot: the ledgers to scan begin after what is covered.
LEMMA SlotCovered ==
  ASSUME Shape, Shape', NEW E, NEW F, E \subseteq F, Cov(E), NEW s \in Scans, slot(s)
  PROVE  CovNext(F)
<1>1. /\ Moved(s, scan'[s]) /\ scan'[s].pc \in {"done", "health"}
      /\ UNCHANGED <<announced, cached, sync, requests>>
  BY SlotFacts
<1>2. ScanShape(scan'[s], head', oldest')
  BY ShapeNext DEF ScansShape
<1>3. Covers(announced, cached \cup F, scan'[s].from - 1)
  <2>1. Covers(announced, cached \cup E, scan'[s].from - 1)
    BY SlotReach
  <2>2. \A last : Covers(announced, cached \cup E, last)
                      => Covers(announced, cached \cup F, last)
    BY CoversMore
  <2> QED BY <2>1, <2>2
<1>4. scan'[s].pc = "health" => Reached(scan'[s]) = scan'[s].from - 1
  BY <1>2, QuietReached DEF ScanShape, ScanTyped, Quiet
<1>5. ScanCovered(announced, scan'[s], cached, F)
  BY <1>1, <1>2, <1>3, <1>4, QuietCovered
<1> QED BY <1>1, <1>5, CalmMove

\* What covers a fetch as it begins.
LEMMA FetchCovered ==
  ASSUME NEW rec, rec.pc = "fetch", rec.results = {}, rec.drain = "no",
         NEW an, NEW c, NEW E, Covers(an, c \cup E, Reached(rec))
  PROVE  ScanCovered(an, rec, c, E)
BY DEF ScanCovered

\* health moves nothing.
LEMMA HealthCovered ==
  ASSUME Shape, Shape', NEW E, NEW F, E \subseteq F, Cov(E), NEW s \in Scans, health(s)
  PROVE  CovNext(F)
<1>1. DOMAIN scan = Scans /\ DOMAIN scan[s] = Fields /\ ScanShape(scan[s], head, oldest)
  BY ScanFacts
<1>2. scan[s].pc = "health" /\ UNCHANGED <<announced, cached, sync, requests>>
  BY DEF health, chain
<1>3. /\ Moved(s, scan'[s]) /\ scan'[s].pc \in {"clamp", "fetch"}
      /\ scan'[s].from = scan[s].from /\ scan'[s].to = scan[s].to
      /\ Kept(scan'[s], scan[s])
  <2>1. CASE Goto(s, "fetch")
    BY <2>1, GotoFacts
  <2>2. ASSUME NEW r, scan' = [scan EXCEPT ![s].pc = "clamp", ![s].next = r]
        PROVE  /\ Moved(s, scan'[s]) /\ scan'[s].pc \in {"clamp", "fetch"}
               /\ scan'[s].from = scan[s].from /\ scan'[s].to = scan[s].to
               /\ Kept(scan'[s], scan[s])
    BY <1>1, <2>2, SMTT(30) DEF Moved, Kept, Fields
  <2> QED BY <2>1, <2>2 DEF health
<1>4. PagesOf(scan'[s]) = PagesOf(scan[s])
  BY <1>3, SamePages
<1>5. scan[s].results = {} /\ scan[s].drain = "no"
  BY <1>1, <1>2 DEF ScanShape, Quiet
<1>6. Reached(scan'[s]) = Reached(scan[s]) /\ scan'[s].results = {} /\ scan'[s].drain = "no"
  BY <1>3, <1>4, <1>5 DEF Reached, Kept
<1>7. Covers(announced, cached \cup F, Reached(scan[s]))
  BY <1>2, CovFacts, CoversMore DEF ScanCovered
<1>8. ScanCovered(announced, scan'[s], cached, F)
  BY <1>3, <1>6, <1>7 DEF ScanCovered
<1> QED BY <1>2, <1>3, <1>8, CalmMove

\* clamp: the ledgers it leaves out are excused.
LEMMA ClampCovered ==
  ASSUME Shape, Shape', NEW E, NEW F, E \subseteq F, Cov(E), NEW s \in Scans, clamp(s),
         Between(announced, scan[s].from, Min({scan[s].next - 1, scan[s].to})) \subseteq F
  PROVE  CovNext(F)
<1> DEFINE sc == scan[s]
           to == Min({sc.next - 1, sc.to})
<1>1. DOMAIN scan = Scans /\ DOMAIN sc = Fields /\ ScanShape(sc, head, oldest)
        /\ ScanTyped(sc)
  BY ScanFacts
<1>2. /\ sc.pc = "clamp" /\ UNCHANGED <<announced, cached, requests>>
      /\ scan' = [scan EXCEPT ![s].pc = "fetch", ![s].from = scan[s].next, ![s].next = 0]
  BY DEF clamp, chain
<1>3. /\ sc.from \in Nat /\ to \in Nat /\ sc.from <= to
      /\ to = IF sc.next - 1 <= sc.to THEN sc.next - 1 ELSE sc.to
      /\ recordUnscannedRange(<<sc.from, to>>)
  BY ClampFacts
<1>4. /\ Moved(s, scan'[s]) /\ Kept(scan'[s], sc) /\ scan'[s].pc = "fetch"
      /\ scan'[s].from = sc.next /\ scan'[s].to = sc.to
  BY <1>1, <1>2, SMTT(30) DEF Moved, Kept, Fields
<1>5. /\ sc.results = {} /\ sc.drain = "no" /\ sc.flushed = 0 /\ sc.from <= sc.to
      /\ sc.to \in Nat
  BY <1>1, <1>2 DEF ScanShape, ScanTyped, Quiet
<1>6. Reached(scan'[s]) = to
  BY <1>3, <1>4, <1>5 DEF Reached, Kept
<1>7. Covers(announced, cached \cup F, sc.from - 1)
  <2>1. Reached(sc) = sc.from - 1
    BY <1>3, <1>5, QuietReached
  <2>2. ScanCovered(announced, sc, cached, E)
    BY CovFacts
  <2>3. Covers(announced, cached \cup E, sc.from - 1)
    BY <1>2, <2>1, <2>2 DEF ScanCovered
  <2> QED BY <2>3 DEF Covers
<1>8. Between(announced, sc.from, to) \subseteq F
  OBVIOUS
<1> HIDE DEF to
<1>9. Covers(announced, cached \cup F, to)
  <2>1. SUFFICES ASSUME NEW l \in announced, startBlock <= l, l <= to
                 PROVE  l \in cached \cup F
    BY DEF Covers, Between
  <2>2. l <= sc.from - 1 \/ sc.from <= l
    BY <1>3, LedgerFacts, SMTT(30)
  <2> QED BY <1>7, <1>8, <2>1, <2>2 DEF Covers, Between
<1>10. ScanCovered(announced, scan'[s], cached, F)
  BY <1>4, <1>5, <1>6, <1>9, FetchCovered DEF Kept
<1>11. sync'.lastScannedSlot = sync.lastScannedSlot
  <2>1. DOMAIN sync = {"lastScannedSlot", "unscannedRanges"}
    BY DEF Shape, SyncShape
  <2> QED BY <1>3, <2>1, SMTT(30) DEF recordUnscannedRange
<1>12. Covers(announced, cached \cup F, sync'.lastScannedSlot)
  BY <1>11, CovFacts, CoversMore
<1> QED BY <1>2, <1>4, <1>10, <1>12, ScanMove

\* A scan that goes on with the same ledgers and the same flush is covered alike.
LEMMA SameCovered ==
  ASSUME NEW rec, NEW sc, SameFetch(rec, sc), rec.flushed = sc.flushed,
         rec.results = sc.results, rec.drain = sc.drain, NEW an, NEW c, NEW E,
         ScanCovered(an, sc, c, E)
  PROVE  ScanCovered(an, rec, c, E)
<1>1. /\ PagesOf(rec) = PagesOf(sc) /\ rec.pc = sc.pc /\ rec.clear = sc.clear
      /\ rec.last = sc.last /\ rec.from = sc.from /\ rec.to = sc.to
  BY SamePages DEF SameFetch
<1>2. Reached(rec) = Reached(sc) /\ NextPage(rec) = NextPage(sc)
  BY <1>1 DEF Reached, NextPage
<1> QED BY <1>1, <1>2 DEF ScanCovered

\* A request that is made starts with its page.
LEMMA DispatchCovered ==
  ASSUME Shape, Shape', NEW E, NEW F, E \subseteq F, Cov(E), NEW s \in Scans, dispatch(s)
  PROVE  CovNext(F)
<1> DEFINE range == PagesOf(scan[s])[scan[s].next + 1]
<1>1. /\ Moved(s, scan'[s])
      /\ SameFetch(scan'[s], scan[s]) /\ SameFlush(scan'[s], scan[s])
      /\ UNCHANGED <<announced, cached, sync>>
  BY DispatchFacts
<1>2. /\ DOMAIN requests' = DOMAIN requests \cup {range}
      /\ \A r \in DOMAIN requests :
           requests'[r].st = requests[r].st /\ requests'[r].start = requests[r].start
      /\ range \notin DOMAIN requests =>
           requests'[range] = [st |-> "get", start |-> range[1], listeners |-> {s}]
  BY DispatchFacts
<1> HIDE DEF range
<1>3. \A t \in Scans : ScanCovered(announced, scan'[t], cached, F)
  <2>1. \A t \in Scans : ScanCovered(announced, scan[t], cached, F)
    BY CovFacts, CoversMore
  <2>2. ScanCovered(announced, scan'[s], cached, F)
    BY <1>1, <2>1, SameCovered DEF SameFlush
  <2> QED BY <1>1, <2>1, <2>2 DEF Moved
<1>4. ASSUME NEW r \in DOMAIN requests' PROVE RequestCovered(announced, r, requests'[r], F)
  <2>1. CASE r \in DOMAIN requests
    <3>1. RequestCovered(announced, r, requests[r], F)
      BY <2>1, CovFacts, CoversMore
    <3> QED BY <1>2, <2>1, <3>1 DEF RequestCovered
  <2>2. CASE r \notin DOMAIN requests
    <3>1. r = range /\ requests'[r].start = r[1]
      <4>1. r = range
        BY <1>2, <2>2
      <4>2. requests'[r] = [st |-> "get", start |-> r[1], listeners |-> {s}]
        BY <1>2, <2>2, <4>1
      <4> QED BY <4>1, <4>2, SMTT(30)
    <3>2. RequestsShape(requests', head', oldest')
      BY ShapeNext
    <3>3. r[1] \in Nat
      BY <3>2 DEF RequestsShape, RequestShape
    <3>4. \A l \in announced : ~(r[1] <= l /\ l < r[1])
      BY <3>3, LedgerFacts, SMTT(30)
    <3> QED BY <3>1, <3>4 DEF RequestCovered, Between
  <2> QED BY <2>1, <2>2
<1>5. Covers(announced, cached \cup F, sync.lastScannedSlot)
  BY CovFacts, CoversMore
<1> QED BY <1>1, <1>3, <1>4, <1>5 DEF CovNext, Covered

\* The answer to a request holds what the request covers of its page.
LEMMA AnswerHolds ==
  ASSUME Shape, NEW E, Cov(E), NEW range, answer(range)
  PROVE  Holds(announced, getEvents(requests[range].start) \cup E, range)
<1> DEFINE r == requests[range]
           last == Min({r.start + batchSize, head})
<1>1. range \in DOMAIN requests /\ r.st \in {"get", "retry"}
  BY DEF answer
<1>2. RequestShape(range, r, head, oldest) /\ head \in Nat /\ batchSize \in Nat
  BY <1>1, ScannerAssumption DEF Shape, RequestsShape
<1>3. RequestCovered(announced, range, r, E)
  BY <1>1, CovFacts
<1>4. /\ range[1] \in Nat /\ range[2] \in Nat /\ range[2] <= range[1] + batchSize
      /\ range[2] <= head /\ r.start \in Nat
      /\ r.st = "get" => r.start = range[1]
      /\ r.st # "get" => range[1] < r.start
  BY <1>2 DEF RequestShape
<1>5. last = IF r.start + batchSize <= head THEN r.start + batchSize ELSE head
  <2>1. r.start + batchSize \in Int /\ head \in Int
    BY <1>2, <1>4, SMTT(30)
  <2> QED BY <2>1, MinOfTwo
<1>6. getEvents(r.start) = {l \in announced : r.start <= l /\ l <= last}
  BY DEF getEvents
<1> HIDE DEF r, last
<1>7. ASSUME NEW l \in announced, range[1] <= l, l <= range[2]
      PROVE  l < r.start \/ (r.start <= l /\ l <= last)
  <2>1. l \in Nat
    BY LedgerFacts
  <2>2. range[1] <= r.start
    BY <1>4, SMTT(30)
  <2> QED BY <1>2, <1>4, <1>5, <1>7, <2>1, <2>2, SMTT(30)
<1>8. ASSUME NEW l \in announced, range[1] <= l, l <= range[2], l < r.start
      PROVE  l \in E
  BY <1>1, <1>3, <1>8 DEF RequestCovered, Between
<1>9. \A l \in Between(announced, range[1], range[2]) : l \in getEvents(r.start) \cup E
  BY <1>6, <1>7, <1>8 DEF Between
<1> QED BY <1>9 DEF Holds, r

\* A page that is buffered holds its announcements.
LEMMA BufferCovered ==
  ASSUME NEW h, NEW o, NEW sc, ScanShape(sc, h, o), NEW range, NEW logs,
         NEW an, NEW c, NEW E, ScanCovered(an, sc, c, E), Holds(an, logs \cup E, range)
  PROVE  ScanCovered(an, Buffer(sc, PagesWaiting(sc, range), logs), c, E)
<1> DEFINE pages == PagesWaiting(sc, range)
           rec   == Buffer(sc, pages, logs)
<1>1. CASE pages = {}
  BY <1>1 DEF Buffer
<1>2. CASE pages # {}
  <2>1. pages \subseteq sc.waiting /\ \A i \in pages : PagesOf(sc)[i] = range
    BY DEF PagesWaiting
  <2>2. sc.pc = "fetch" /\ ScanTyped(sc)
    BY <1>2, <2>1, WaitersFetch
  <2> HIDE DEF pages
  <2>3. Buffered(rec, sc, pages, logs)
    BY <1>2, <2>2, BufferFacts
  <2> HIDE DEF rec
  <2>4. PagesOf(rec) = PagesOf(sc) /\ rec.pc = "fetch" /\ rec.from = sc.from /\ rec.to = sc.to
    BY <2>2, <2>3, SamePages DEF Buffered, SameFetch
  <2>5. Reached(rec) = Reached(sc) /\ NextPage(rec) = NextPage(sc)
    BY <2>3, <2>4 DEF Reached, NextPage, Buffered
  <2>6. ASSUME NEW page \in rec.results
        PROVE  Holds(an, page[2] \cup E, PagesOf(sc)[page[1]])
    <3>1. CASE page \in sc.results
      BY <3>1 DEF ScanCovered
    <3>2. CASE page \notin sc.results
      <4>1. PICK i \in pages : page = <<i, logs>>
        BY <2>3, <3>2 DEF Buffered
      <4>2. page[1] = i /\ page[2] = logs
        BY <4>1, SMTT(30)
      <4> QED BY <2>1, <4>2
    <3> QED BY <3>1, <3>2
  <2>7. rec.drain = "cursor" => sc.drain = "cursor"
    BY <2>3 DEF Buffered
  <2> QED BY <2>2, <2>4, <2>5, <2>6, <2>7 DEF ScanCovered, rec, pages
<1> QED BY <1>1, <1>2

\* When a request is settled every scan that waits for it moves.
LEMMA SettleCovered ==
  ASSUME NEW E, NEW F, E \subseteq F, Cov(E), NEW range,
         \A s \in Scans : ScanCovered(announced, scan'[s], cached, E),
         requests' = Settled(range), UNCHANGED <<announced, cached, sync>>
  PROVE  CovNext(F)
<1>1. \A s \in Scans : ScanCovered(announced, scan'[s], cached, F)
  BY CoversMore
<1>2. \A r \in DOMAIN requests' : r \in DOMAIN requests /\ requests'[r] = requests[r]
  BY DEF Settled
<1>3. \A r \in DOMAIN requests' : RequestCovered(announced, r, requests'[r], F)
  BY <1>2, CovFacts, CoversMore
<1>4. Covers(announced, cached \cup F, sync.lastScannedSlot)
  BY CovFacts, CoversMore
<1> QED BY <1>1, <1>3, <1>4 DEF CovNext, Covered

\* answer: every scan that waits for the page gets it.
LEMMA AnswerCovered ==
  ASSUME Shape, Shape', NEW E, NEW F, E \subseteq F, Cov(E), NEW range, answer(range)
  PROVE  CovNext(F)
<1> DEFINE logs == getEvents(requests[range].start)
<1>1. Holds(announced, logs \cup E, range)
  BY AnswerHolds
<1>2. /\ scan' = [s \in Scans |-> Buffer(scan[s], Waiting(s, range), logs)]
      /\ requests' = Settled(range) /\ UNCHANGED <<announced, cached, sync>>
  BY DEF answer, chain
<1> HIDE DEF logs
<1>3. ASSUME NEW s \in Scans PROVE ScanCovered(announced, scan'[s], cached, E)
  <2>1. scan'[s] = Buffer(scan[s], PagesWaiting(scan[s], range), logs)
    BY <1>2, WaitingSame
  <2>2. ScanShape(scan[s], head, oldest) /\ ScanCovered(announced, scan[s], cached, E)
    BY ScanFacts, CovFacts
  <2> QED BY <1>1, <2>1, <2>2, BufferCovered
<1> QED BY <1>2, <1>3, SettleCovered

\* reject: the scans that wait for the page fail and flush as before.
LEMMA RejectCovered ==
  ASSUME Shape, Shape', NEW E, NEW F, E \subseteq F, Cov(E), NEW range, reject(range)
  PROVE  CovNext(F)
<1>1. /\ scan' = [s \in Scans |-> Failed(scan[s], Waiting(s, range))]
      /\ requests' = Settled(range) /\ UNCHANGED <<announced, cached, sync>>
  BY DEF reject, chain
<1>2. ASSUME NEW s \in Scans PROVE ScanCovered(announced, scan'[s], cached, E)
  <2> DEFINE pages == Waiting(s, range)
             rec == scan'[s]
  <2>1. rec = IF pages = {} THEN scan[s]
              ELSE [scan[s] EXCEPT !.waiting = @ \ pages, !.failed = TRUE]
    BY <1>1 DEF Failed
  <2>2. DOMAIN scan[s] = Fields /\ ScanCovered(announced, scan[s], cached, E)
    BY ScanFacts, CovFacts
  <2> HIDE DEF pages, rec
  <2>3. /\ SameFetch(rec, scan[s]) /\ rec.flushed = scan[s].flushed
        /\ rec.results = scan[s].results /\ rec.drain = scan[s].drain
    BY <2>1, <2>2, SMTT(30) DEF SameFetch, Fields
  <2>4. ScanCovered(announced, rec, cached, E)
    BY <2>2, <2>3, SameCovered
  <2> QED BY <2>4 DEF rec
<1> QED BY <1>1, <1>2, SettleCovered

\* A step that moves one request and no scan.
LEMMA RequestMoveCovered ==
  ASSUME NEW E, NEW F, E \subseteq F, Cov(E), NEW range \in DOMAIN requests,
         DOMAIN requests' = DOMAIN requests,
         \A r \in DOMAIN requests : r # range => requests'[r] = requests[r],
         RequestCovered(announced, range, requests'[range], F),
         sync'.lastScannedSlot = sync.lastScannedSlot, UNCHANGED <<announced, cached, scan>>
  PROVE  CovNext(F)
<1>1. \A r \in DOMAIN requests' : RequestCovered(announced, r, requests'[r], F)
  BY CovFacts, CoversMore
<1>2. /\ Covers(announced, cached \cup F, sync.lastScannedSlot)
      /\ \A s \in Scans : ScanCovered(announced, scan[s], cached, F)
  BY CovFacts, CoversMore
<1> QED BY <1>1, <1>2 DEF CovNext, Covered

\* rangeError: nothing is left out before the listeners have been told.
LEMMA RangeErrorCovered ==
  ASSUME Shape, Shape', NEW E, NEW F, E \subseteq F, Cov(E), NEW range, rangeError(range)
  PROVE  CovNext(F)
<1>1. /\ range \in DOMAIN requests
      /\ requests' = [requests EXCEPT ![range].st = "gap", ![range].start = oldest]
      /\ UNCHANGED <<announced, cached, sync, scan>>
  BY DEF rangeError, chain
<1>2. DOMAIN requests[range] = {"st", "start", "listeners"}
  BY <1>1 DEF Shape, RequestsShape, RequestShape
<1>3. /\ DOMAIN requests' = DOMAIN requests
      /\ \A r \in DOMAIN requests : r # range => requests'[r] = requests[r]
      /\ requests'[range] = [requests[range] EXCEPT !.st = "gap", !.start = oldest]
  BY <1>1
<1>4. requests'[range].st = "gap"
  BY <1>2, <1>3, SMTT(30)
<1>5. RequestCovered(announced, range, requests'[range], F)
  BY <1>4 DEF RequestCovered
<1> QED BY <1>1, <1>3, <1>5, RequestMoveCovered

\* reportGap: the ledgers that the request leaves out are excused.
LEMMA ReportCovered ==
  ASSUME Shape, Shape', NEW E, NEW F, E \subseteq F, Cov(E), NEW s, NEW range,
         reportGap(s, range),
         Between(announced, range[1], Min({requests[range].start - 1, range[2]})) \subseteq F
  PROVE  CovNext(F)
<1> DEFINE to == Min({requests[range].start - 1, range[2]})
<1>1. /\ range \in DOMAIN requests
      /\ range[1] \in Nat /\ to \in Nat
      /\ DOMAIN requests' = DOMAIN requests
      /\ \A r \in DOMAIN requests : r # range => requests'[r] = requests[r]
      /\ requests'[range].start = requests[range].start
      /\ UNCHANGED <<announced, cached, scan>>
  BY ReportFacts
<1>2. range[2] \in Nat /\ requests[range].start \in Nat
  BY <1>1 DEF Shape, RequestsShape, RequestShape
<1>3. to = IF requests[range].start - 1 <= range[2] THEN requests[range].start - 1 ELSE range[2]
  <2>1. requests[range].start - 1 \in Int /\ range[2] \in Int
    BY <1>2, SMTT(30)
  <2> QED BY <2>1, MinOfTwo
<1>4. Between(announced, range[1], to) \subseteq F
  OBVIOUS
<1> HIDE DEF to
<1>5. ASSUME NEW l \in Between(announced, range[1], range[2]), l < requests'[range].start
      PROVE  l \in F
  <2>1. l \in announced /\ range[1] <= l /\ l <= range[2]
    BY <1>5 DEF Between
  <2>2. l <= to
    <3>1. l \in Nat
      BY <2>1, LedgerFacts
    <3> QED BY <1>1, <1>2, <1>3, <1>5, <2>1, <3>1, SMTT(30)
  <2> QED BY <1>4, <2>1, <2>2 DEF Between
<1>6. RequestCovered(announced, range, requests'[range], F)
  BY <1>5 DEF RequestCovered
<1>7. sync'.lastScannedSlot = sync.lastScannedSlot
  <2>1. DOMAIN sync = {"lastScannedSlot", "unscannedRanges"}
    BY DEF Shape, SyncShape
  <2> DEFINE m == mergeUnscannedRanges(sync.unscannedRanges, <<range[1], to>>)
  <2>2. sync' = [sync EXCEPT !.unscannedRanges = m]
    BY DEF reportGap, recordUnscannedRange, to
  <2> HIDE DEF m
  <2> QED BY <2>1, <2>2, SMTT(30)
<1> QED BY <1>1, <1>6, <1>7, RequestMoveCovered

\* putAnnouncements: the page that was buffered is in the cache.
LEMMA PutCovered ==
  ASSUME Shape, Shape', NEW E, NEW F, E \subseteq F, Cov(E), NEW s \in Scans,
         putAnnouncements(s)
  PROVE  CovNext(F)
<1> DEFINE sc == scan[s]
           rec == scan'[s]
<1>1. PICK page \in sc.results :
         /\ page[1] = sc.flushed + 1 /\ cached' = cached \cup page[2] /\ sc.drain = "put"
         /\ scan' = [scan EXCEPT ![s].drain = "cursor", ![s].results = @ \ {page}]
         /\ UNCHANGED <<announced, sync, requests>>
  BY DEF putAnnouncements, chain
<1>2. /\ Moved(s, rec) /\ SameFetch(rec, sc) /\ rec.flushed = sc.flushed
      /\ rec.drain = "cursor" /\ rec.results = sc.results \ {page}
  BY <1>1, PutFacts
<1>3. sc.pc = "fetch"
  BY <1>1, FlushFacts
<1>4. ScanCovered(announced, sc, cached, E)
  BY CovFacts
<1> HIDE DEF sc, rec
<1>5. PagesOf(rec) = PagesOf(sc) /\ rec.pc = "fetch" /\ rec.from = sc.from /\ rec.to = sc.to
  BY <1>2, <1>3, SamePages DEF SameFetch
<1>6. Reached(rec) = Reached(sc) /\ NextPage(rec) = page[1]
  BY <1>1, <1>2, <1>5 DEF Reached, NextPage
<1>7. Covers(announced, cached' \cup E, Reached(rec))
  BY <1>1, <1>3, <1>4, <1>6 DEF ScanCovered, Covers
<1>8. Holds(announced, cached' \cup E, PagesOf(rec)[NextPage(rec)])
  BY <1>1, <1>4, <1>5, <1>6 DEF ScanCovered, Holds
<1>9. ScanCovered(announced, rec, cached', E)
  BY <1>2, <1>4, <1>5, <1>7, <1>8 DEF ScanCovered
<1>10. ScanCovered(announced, rec, cached', F)
  BY <1>9, CoversMore
<1>11. cached \subseteq cached'
  BY <1>1
<1>12. Covers(announced, cached' \cup F, sync'.lastScannedSlot)
  <2>1. Covers(announced, cached \cup E, sync.lastScannedSlot)
    BY CovFacts
  <2>2. \A last : Covers(announced, cached \cup E, last)
                      => Covers(announced, cached' \cup F, last)
    BY <1>11, CoversMore
  <2> QED BY <1>1, <2>1, <2>2
<1> QED BY <1>1, <1>2, <1>10, <1>11, <1>12, ScanMove

\* The next page to flush begins after the ledger that has been reached, and the
\* last ends with the scan.
LEMMA ReachedNext ==
  ASSUME NEW sc, ScanTyped(sc)
  PROVE  /\ NextPage(sc) \in 1 .. PageCount(sc) =>
              /\ PagesOf(sc)[NextPage(sc)][1] = Reached(sc) + 1
              /\ Reached(sc) \in Int /\ PagesOf(sc)[NextPage(sc)][2] \in Int
         /\ sc.flushed = PageCount(sc) => Reached(sc) = sc.to
<1> DEFINE P == PagesOf(sc)
           n == PageCount(sc)
           f == sc.flushed
<1>1. Paging(P, n, sc.from, sc.to) /\ f \in Nat /\ sc.from \in Nat /\ sc.to \in Nat
  BY PagesOfFacts DEF ScanTyped
<1>2. Reached(sc) = IF f = 0 THEN IF sc.from - 1 <= sc.to THEN sc.from - 1 ELSE sc.to
                    ELSE P[f][2]
  BY DEF Reached
<1>3. NextPage(sc) = f + 1
  BY DEF NextPage
<1> HIDE DEF P, n, f
<1>4. /\ n \in Nat /\ (n = 0 => sc.to < sc.from)
      /\ n # 0 => P[1][1] = sc.from /\ P[n][2] = sc.to
      /\ \A i \in 1 .. n : P[i][1] \in Nat /\ P[i][2] \in Nat
                             /\ P[i][1] <= P[i][2] /\ P[i][2] <= sc.to
      /\ \A i \in 1 .. (n - 1) : P[i + 1][1] = P[i][2] + 1
  BY <1>1 DEF Paging
<1>5. ASSUME f + 1 \in 1 .. n
      PROVE  P[f + 1][1] = Reached(sc) + 1 /\ Reached(sc) \in Int /\ P[f + 1][2] \in Int
  <2>1. CASE f = 0
    <3>1. 1 \in 1 .. n /\ n # 0 /\ f + 1 = 1
      BY <1>4, <1>5, <2>1, SMTT(30)
    <3>2. P[1][1] = sc.from /\ P[1][2] \in Nat /\ P[1][1] <= P[1][2] /\ P[1][2] <= sc.to
      BY <3>1, <1>4
    <3>3. Reached(sc) = sc.from - 1
      BY <1>1, <1>2, <2>1, <3>2, SMTT(30)
    <3> QED BY <1>1, <3>1, <3>2, <3>3, SMTT(30)
  <2>2. CASE f # 0
    <3>1. f \in 1 .. n /\ f \in 1 .. (n - 1)
      BY <1>1, <1>4, <1>5, <2>2, SMTT(30)
    <3>2. P[f + 1][1] = P[f][2] + 1 /\ P[f][2] \in Nat /\ P[f + 1][2] \in Nat
      BY <1>4, <1>5, <3>1
    <3>3. Reached(sc) = P[f][2]
      BY <1>2, <2>2
    <3> QED BY <3>2, <3>3, SMTT(30)
  <2> QED BY <2>1, <2>2
<1>6. ASSUME f = n PROVE Reached(sc) = sc.to
  <2>1. CASE n = 0
    BY <1>1, <1>2, <1>4, <1>6, <2>1, SMTT(30)
  <2>2. CASE n # 0
    BY <1>2, <1>4, <1>6, <2>2
  <2> QED BY <2>1, <2>2
<1> QED BY <1>3, <1>5, <1>6 DEF P, n, f

\* What is covered up to a ledger and in the page after it is covered up to the end
\* of the page.
LEMMA CoversPage ==
  ASSUME NEW an, \A l \in an : l \in Nat, NEW known, NEW last \in Int, NEW page,
         page[1] = last + 1, page[2] \in Int,
         Covers(an, known, last), Holds(an, known, page)
  PROVE  Covers(an, known, page[2])
<1>1. SUFFICES ASSUME NEW l \in an, startBlock <= l, l <= page[2]
               PROVE  l \in known
  BY DEF Covers, Between
<1>2. l <= last \/ page[1] <= l
  BY <1>1, SMTT(30)
<1> QED BY <1>1, <1>2 DEF Covers, Holds, Between

\* moveCursor: the cursor passes a page that is in the cache.
LEMMA MoveCursorCovered ==
  ASSUME Shape, Shape', NEW E, NEW F, E \subseteq F, Cov(E), NEW s \in Scans, moveCursor(s)
  PROVE  CovNext(F)
<1> DEFINE sc == scan[s]
           rec == scan'[s]
           page == PagesOf(sc)[NextPage(sc)]
<1>1. /\ sc.drain = "cursor" /\ NextPage(sc) \in 1 .. PageCount(sc)
      /\ Moved(s, rec) /\ SameFetch(rec, sc) /\ rec.results = sc.results
      /\ rec.flushed = NextPage(sc)
      /\ rec.drain = IF Ready(sc, NextPage(sc) + 1) THEN "put" ELSE "no"
      /\ sync'.lastScannedSlot = page[2]
  BY CursorFacts
<1>2. sc.pc = "fetch" /\ ScanTyped(sc) /\ sc.flushed \in Nat
  BY <1>1, FlushFacts
<1>3. UNCHANGED <<announced, cached, requests>>
  BY DEF moveCursor, chain
<1>4. ScanCovered(announced, sc, cached, F)
  BY CovFacts, CoversMore
<1> HIDE DEF sc, rec
<1>5. PagesOf(rec) = PagesOf(sc) /\ rec.pc = "fetch" /\ rec.from = sc.from /\ rec.to = sc.to
  BY <1>1, <1>2, SamePages DEF SameFetch
<1>6. page[1] = Reached(sc) + 1 /\ Reached(sc) \in Int /\ page[2] \in Int
  BY <1>1, <1>2, ReachedNext
<1>7. Reached(rec) = page[2]
  <2>1. NextPage(sc) # 0
    BY <1>2, SMTT(30) DEF NextPage
  <2> QED BY <1>1, <1>5, <2>1 DEF Reached
<1>8. Covers(announced, cached \cup F, Reached(sc)) /\ Holds(announced, cached \cup F, page)
  BY <1>1, <1>2, <1>4 DEF ScanCovered
<1>9. Covers(announced, cached \cup F, page[2])
  <2> HIDE DEF page
  <2> QED BY <1>6, <1>8, CoversPage, LedgerFacts
<1>10. rec.drain # "cursor"
  BY <1>1
<1>11. ScanCovered(announced, rec, cached, F)
  BY <1>1, <1>4, <1>5, <1>7, <1>9, <1>10 DEF ScanCovered
<1> HIDE DEF page
<1> QED BY <1>1, <1>3, <1>9, <1>11, ScanMove

\* finish leaves the fetch, or flushes on.
LEMMA FinishCovered ==
  ASSUME Shape, Shape', NEW E, NEW F, E \subseteq F, Cov(E), NEW s \in Scans, finish(s)
  PROVE  CovNext(F)
<1> DEFINE sc == scan[s]
           rec == scan'[s]
<1>1. UNCHANGED <<announced, cached, sync, requests>>
  BY DEF finish, chain
<1>2. \/ Moved(s, Idle)
      \/ Moved(s, [sc EXCEPT !.drain = "put"])
      \/ Moved(s, [Idle EXCEPT !.pc = "done", !.to = sc.to])
  BY FinishFacts
<1>3. Moved(s, rec) /\ ScanShape(rec, head', oldest')
  BY <1>2, ShapeNext DEF Moved, ScansShape
<1>4. sc.drain = "no" /\ sc.pc = "fetch" /\ DOMAIN sc = Fields
  BY FinishFacts DEF ScanTyped
<1>5. CASE Moved(s, [sc EXCEPT !.drain = "put"])
  <2>1. rec = [sc EXCEPT !.drain = "put"]
    BY <1>5 DEF Moved
  <2>2. ScanCovered(announced, sc, cached, F)
    BY CovFacts, CoversMore
  <2> HIDE DEF sc, rec
  <2>3. /\ SameFetch(rec, sc) /\ rec.flushed = sc.flushed /\ rec.results = sc.results
        /\ rec.drain = "put"
    BY <1>4, <2>1, SMTT(30) DEF Fields, SameFetch
  <2>4. PagesOf(rec) = PagesOf(sc) /\ Reached(rec) = Reached(sc) /\ rec.pc = "fetch"
    BY <1>4, <2>3, SamePages DEF Reached, SameFetch
  <2>5. ScanCovered(announced, rec, cached, F)
    BY <1>4, <2>2, <2>3, <2>4 DEF ScanCovered
  <2> QED BY <1>1, <1>3, <2>5, CalmMove
<1>6. CASE Moved(s, Idle) \/ Moved(s, [Idle EXCEPT !.pc = "done", !.to = sc.to])
  <2>1. rec = Idle \/ rec = [Idle EXCEPT !.pc = "done", !.to = sc.to]
    BY <1>6 DEF Moved
  <2> HIDE DEF sc, rec
  <2>2. rec.pc \in {"idle", "done"}
    <3>1. Idle.pc = "idle" /\ DOMAIN Idle = Fields
      BY SMTT(30) DEF Idle, Fields
    <3>2. ASSUME rec = [Idle EXCEPT !.pc = "done", !.to = sc.to] PROVE rec.pc = "done"
      BY <3>1, <3>2, SMTT(30) DEF Fields
    <3> QED BY <2>1, <3>1, <3>2
  <2>3. ScanCovered(announced, rec, cached, F)
    BY <1>3, <2>2, IdleCovered
  <2> QED BY <1>1, <1>3, <2>3, CalmMove
<1> QED BY <1>2, <1>5, <1>6

-----------------------------------------------------------------------------
(* Resets of the sync record.                                              *)

\* A cursor at 0 covers nothing.
LEMMA CoversZero ==
  ASSUME Shape
  PROVE  \A known : Covers(announced, known, 0)
<1>1. \A l \in announced : ~(startBlock <= l /\ l <= 0)
  BY LedgerFacts, ScannerAssumption, SMTT(30)
<1> QED BY <1>1 DEF Covers, Between

\* The cursor after a reset, and the gaps.
LEMMA ResetFacts ==
  ASSUME NEW dropped, clearSyncState(dropped)
  PROVE  /\ sync'.lastScannedSlot = 0 /\ sync'.unscannedRanges = <<>>
         /\ lost' = lost \cup dropped
BY SMTT(30) DEF clearSyncState, NoSync

\* A reset when no other scan is active leaves no request and nothing to cover.
LEMMA Afresh ==
  ASSUME Shape, Shape', NEW s \in Scans, ~OthersActive(s), Moved(s, scan'[s]),
         scan'[s].pc \in {"load", "clearSyncAgain"}, sync'.lastScannedSlot = 0,
         UNCHANGED announced, NEW F
  PROVE  CovNext(F)
<1>1. ASSUME NEW t \in Scans
      PROVE  /\ ScanShape(scan'[t], head', oldest')
             /\ scan'[t].pc \in {"load", "clearSyncAgain", "idle", "done"}
  <2>1. t # s => scan'[t].pc \in {"idle", "done"}
    BY DEF Moved, OthersActive, Active
  <2> QED BY <2>1, ShapeNext DEF ScansShape
<1>2. \A t \in Scans : ScanCovered(announced', scan'[t], cached', F)
  BY <1>1, IdleCovered
<1>3. \A t \in Scans : scan'[t].waiting = {}
  BY <1>1 DEF ScanShape, Quiet
<1>4. DOMAIN requests' = {}
  <2>1. Wanted(scan', requests')
    BY ShapeNext
  <2> QED BY <1>3, <2>1 DEF Wanted, WaitsFor
<1>5. Covers(announced', cached' \cup F, sync'.lastScannedSlot)
  BY CoversZero
<1> QED BY <1>2, <1>4, <1>5 DEF CovNext, Covered

\* mountClear and resetSync keep the cache, so that what the scans have read still
\* covers what it did.
LEMMA ResetCovered ==
  ASSUME Shape, Shape', NEW E, Cov(E), NEW s \in Scans, mountClear(s) \/ resetSync(s)
  PROVE  CovNext(E)
<1> DEFINE rec == scan'[s]
<1>1. PICK p \in {"load", "slot"} : Goto(s, p) /\ (mountClear(s) => p = "load")
  BY DEF mountClear, resetSync
<1>2. Moved(s, rec) /\ rec.pc = p /\ UNCHANGED <<announced, cached, requests>>
  BY <1>1, GotoFacts DEF mountClear, resetSync, chain
<1>3. sync'.lastScannedSlot = 0
  BY ResetFacts DEF mountClear, resetSync
<1>4. ScanShape(rec, head', oldest')
  BY ShapeNext DEF ScansShape
<1>5. rec.clear = scan[s].clear /\ rec.last = scan[s].last
  <2>1. DOMAIN scan = Scans /\ DOMAIN scan[s] = Fields
    BY ScanFacts
  <2> QED BY <1>1, <2>1, SMTT(30) DEF Goto, Fields
<1>6. resetSync(s) => (~rec.clear => Covers(announced, cached \cup E, rec.last))
  BY <1>5, CovFacts DEF resetSync, ScanCovered
<1>7. CASE mountClear(s)
  <2>1. rec.pc = "load"
    BY <1>1, <1>2, <1>7
  <2>2. ScanCovered(announced, rec, cached', E)
    BY <1>4, <2>1, IdleCovered
  <2> QED BY <1>2, <1>3, <2>2, CoversZero, ScanMove
<1>8. CASE resetSync(s)
  <2>1. rec.pc \in {"load", "slot"}
    BY <1>2
  <2>2. ScanCovered(announced, rec, cached, E)
    BY <1>4, <1>6, <1>8, <2>1, QuietCovered
  <2> QED BY <1>2, <1>3, <2>2, CoversZero, ScanMove
<1> QED BY <1>7, <1>8

\* A reload keeps the cursor and the cache and ends scans and requests.
LEMMA ReloadCovered ==
  ASSUME Shape, Shape', NEW E, Cov(E), Reload
  PROVE  CovNext(E)
<1>1. /\ scan' = [s \in Scans |-> Idle] /\ requests' = <<>>
      /\ UNCHANGED <<announced, cached, sync>>
  BY DEF Reload, chain
<1>2. DOMAIN requests' = {} /\ Idle.pc = "idle"
  BY <1>1, SMTT(30) DEF Idle
<1>3. ASSUME NEW s \in Scans PROVE ScanCovered(announced, scan'[s], cached, E)
  <2>1. scan'[s].pc = "idle" /\ ScanShape(scan'[s], head', oldest')
    BY <1>1, <1>2, ShapeNext DEF ScansShape
  <2> QED BY <2>1, IdleCovered
<1>4. Covers(announced, cached \cup E, sync.lastScannedSlot)
  BY CovFacts
<1> QED BY <1>1, <1>2, <1>3, <1>4 DEF CovNext, Covered

\* Only its own next step, or a reload, takes a scan out of the pause between the
\* two transactions of a full rescan.
LEMMA PauseLasts ==
  ASSUME Shape, Next, ~Reload, NEW s \in Scans, scan[s].pc = "clearSync", ~clearSync(s)
  PROVE  scan'[s].pc = "clearSync"
<1>1. scan[s].drain = "no" /\ scan[s].waiting = {} /\ DOMAIN scan = Scans
  BY ScanFacts DEF ScanShape, Quiet
<1>2. ASSUME NEW t \in Scans, mount(t) \/ refresh(t) \/ retrySync(t) \/ slotFails(t)
      PROVE  scan'[s].pc = "clearSync"
  BY <1>1, <1>2 DEF mount, refresh, retrySync, Start, slotFails, Active
<1>3. ASSUME NEW t \in Scans, ScanStep(t)
      PROVE  scan'[s].pc = "clearSync"
  <2>1. CASE mountSync(t) \/ mountSlot(t) \/ mountClear(t) \/ clearCache(t) \/ load(t)
    BY <1>1, <2>1 DEF mountSync, mountSlot, mountClear, clearCache, load, Goto
  <2>2. CASE clearSync(t) \/ loadSync(t) \/ resetSync(t) \/ slot(t) \/ health(t) \/ clamp(t)
    BY <1>1, <2>2 DEF clearSync, loadSync, resetSync, slot, health, clamp, Goto
  <2>3. CASE dispatch(t) \/ putAnnouncements(t) \/ moveCursor(t) \/ finish(t)
    BY <1>1, <2>3 DEF dispatch, putAnnouncements, moveCursor, finish
  <2>4. CASE \E range \in DOMAIN requests : reportGap(t, range)
    BY <2>4 DEF reportGap
  <2> QED BY <1>3, <2>1, <2>2, <2>3, <2>4 DEF ScanStep
<1>4. CASE RequestStep
  <2>1. \A range : Waiting(s, range) = {}
    BY <1>1 DEF Waiting
  <2>2. \A range, logs : /\ Buffer(scan[s], Waiting(s, range), logs) = scan[s]
                         /\ Failed(scan[s], Waiting(s, range)) = scan[s]
    BY <2>1 DEF Buffer, Failed
  <2>3. PICK range \in DOMAIN requests : answer(range) \/ rangeError(range) \/ reject(range)
    BY <1>4 DEF RequestStep
  <2>4. CASE answer(range)
    BY <2>2, <2>4 DEF answer
  <2>5. CASE rangeError(range)
    BY <2>5 DEF rangeError
  <2>6. CASE reject(range)
    BY <2>2, <2>6 DEF reject
  <2> QED BY <2>3, <2>4, <2>5, <2>6
<1>5. CASE CloseLedger \/ Prune
  BY <1>5 DEF CloseLedger, Prune
<1> QED BY <1>2, <1>3, <1>4, <1>5 DEF Next

-----------------------------------------------------------------------------
(* Every other step.                                                       *)

\* A later head or a later retention window changes nothing that is covered.
LEMMA ChainCovered ==
  ASSUME NEW E, NEW F, E \subseteq F, Cov(E), CloseLedger \/ Prune \/ UNCHANGED vars
  PROVE  CovNext(F)
<1>1. UNCHANGED <<announced, cached, sync, scan, requests>>
  BY DEF CloseLedger, Prune, vars
<1>2. Covers(announced, cached \cup F, sync.lastScannedSlot)
  BY CovFacts, CoversMore
<1>3. /\ \A s \in Scans : ScanCovered(announced, scan[s], cached, F)
      /\ \A r \in DOMAIN requests : RequestCovered(announced, r, requests[r], F)
  BY CovFacts, CoversMore
<1> QED BY <1>1, <1>2, <1>3 DEF CovNext, Covered

\* Steps that reset the sync record or end every scan.
Resets == Reload \/ \E s \in Scans : mountClear(s) \/ clearCache(s) \/ clearSync(s) \/ resetSync(s)

\* Steps that record ledgers as unscanned, and those they record.
Records(s, from, to) ==
  \/ clamp(s) /\ from = scan[s].from /\ to = Min({scan[s].next - 1, scan[s].to})
  \/ \E range \in DOMAIN requests :
       /\ reportGap(s, range)
       /\ from = range[1] /\ to = Min({requests[range].start - 1, range[2]})

\* A range that is recorded is gone from the RPC, and is in the sync record next.
LEMMA RecordsFacts ==
  ASSUME Shape, NEW s \in Scans, NEW from, NEW to, Records(s, from, to)
  PROVE  /\ from \in Nat /\ to \in Nat /\ to < oldest
         /\ \A l \in Int : Listed(sync'.unscannedRanges, l)
                             <=> Listed(sync.unscannedRanges, l) \/ (from <= l /\ l <= to)
         /\ UNCHANGED <<announced, oldest, lost>>
<1>1. /\ from \in Nat /\ to \in Nat /\ from <= to /\ to < oldest
      /\ recordUnscannedRange(<<from, to>>) /\ UNCHANGED <<announced, oldest, lost>>
  <2>1. CASE clamp(s) /\ from = scan[s].from /\ to = Min({scan[s].next - 1, scan[s].to})
    <3>1. UNCHANGED <<announced, oldest, lost>>
      BY <2>1 DEF clamp, chain
    <3> QED BY <2>1, <3>1, ClampFacts
  <2>2. ASSUME NEW range \in DOMAIN requests, reportGap(s, range),
               from = range[1], to = Min({requests[range].start - 1, range[2]})
        PROVE  /\ from \in Nat /\ to \in Nat /\ from <= to /\ to < oldest
               /\ recordUnscannedRange(<<from, to>>) /\ UNCHANGED <<announced, oldest, lost>>
    BY <2>2, ReportFacts
  <2> QED BY <2>1, <2>2 DEF Records
<1>2. SyncShape(sync, oldest) /\ oldest \in Nat
  BY DEF Shape
<1> QED BY <1>1, <1>2, RecordFacts

\* A step that is no reset keeps what is covered, if the ledgers it records are
\* excused.
LEMMA StepCovered ==
  ASSUME Shape, Shape', [Next]_vars, ~Resets, NEW E, NEW F, E \subseteq F, Cov(E),
         \A s \in Scans : \A from, to : Records(s, from, to) =>
           Between(announced, from, to) \subseteq F
  PROVE  CovNext(F)
<1>1. CASE CloseLedger \/ Prune \/ UNCHANGED vars
  BY <1>1, ChainCovered
<1>2. ASSUME NEW s \in Scans, IdleStep(s) PROVE CovNext(F)
  BY <1>2, IdleStepCovered
<1>3. ASSUME NEW s \in Scans, loadSync(s) \/ slot(s) \/ health(s) \/ dispatch(s)
      PROVE  CovNext(F)
  BY <1>3, LoadSyncCovered, SlotCovered, HealthCovered, DispatchCovered
<1>4. ASSUME NEW s \in Scans, putAnnouncements(s) \/ moveCursor(s) \/ finish(s)
      PROVE  CovNext(F)
  BY <1>4, PutCovered, MoveCursorCovered, FinishCovered
<1>5. ASSUME NEW s \in Scans, clamp(s) PROVE CovNext(F)
  <2> DEFINE to == Min({scan[s].next - 1, scan[s].to})
  <2>1. Records(s, scan[s].from, to)
    BY <1>5 DEF Records
  <2>2. Between(announced, scan[s].from, to) \subseteq F
    BY <2>1
  <2> QED BY <1>5, <2>2, ClampCovered
<1>6. ASSUME NEW s \in Scans, NEW range \in DOMAIN requests, reportGap(s, range)
      PROVE  CovNext(F)
  <2> DEFINE to == Min({requests[range].start - 1, range[2]})
  <2>1. Records(s, range[1], to)
    BY <1>6 DEF Records
  <2>2. Between(announced, range[1], to) \subseteq F
    BY <2>1
  <2> QED BY <1>6, <2>2, ReportCovered
<1>7. ASSUME NEW s \in Scans, ScanStep(s) PROVE CovNext(F)
  BY <1>2, <1>3, <1>4, <1>5, <1>6, <1>7 DEF ScanStep, Resets, IdleStep
<1>8. CASE RequestStep
  BY <1>8, AnswerCovered, RangeErrorCovered, RejectCovered DEF RequestStep
<1>9. CASE Reload
  BY <1>9 DEF Resets
<1> QED BY <1>1, <1>2, <1>7, <1>8, <1>9 DEF Next, IdleStep

\* What a step that is no reset does to the record of what is lost, to the window
\* and to the gaps.
LEMMA StepRecord ==
  ASSUME Shape, [Next]_vars, ~Resets
  PROVE  /\ lost' = lost /\ oldest' \in Nat /\ oldest <= oldest' /\ announced' = announced
         /\ \/ sync'.unscannedRanges = sync.unscannedRanges
            \/ \E s \in Scans : \E from, to : Records(s, from, to)
<1> DEFINE P == /\ lost' = lost /\ oldest' \in Nat /\ oldest <= oldest' /\ announced' = announced
                /\ \/ sync'.unscannedRanges = sync.unscannedRanges
                   \/ \E s \in Scans : \E from, to : Records(s, from, to)
<1> SUFFICES P
  OBVIOUS
<1>1. oldest \in Nat /\ oldest <= oldest
  <2>1. oldest \in Nat
    BY DEF Shape
  <2> QED BY <2>1, SMTT(30)
<1>2. ASSUME UNCHANGED <<lost, oldest, announced, sync>> PROVE P
  BY <1>1, <1>2
<1>3. CASE CloseLedger \/ UNCHANGED vars
  BY <1>2, <1>3 DEF CloseLedger, vars
<1>4. CASE Prune
  <2>1. UNCHANGED <<lost, announced, sync>> /\ oldest' = oldest + 1
    BY <1>4 DEF Prune
  <2>2. oldest' \in Nat /\ oldest <= oldest'
    BY <1>1, <2>1, SMTT(30)
  <2> QED BY <2>1, <2>2
<1>5. ASSUME NEW s \in Scans, \/ mount(s) \/ refresh(s) \/ retrySync(s) \/ slotFails(s)
                              \/ mountSync(s) \/ mountSlot(s) \/ load(s) \/ loadSync(s)
                              \/ slot(s) \/ health(s) \/ dispatch(s)
                              \/ putAnnouncements(s) \/ finish(s)
      PROVE  P
  <2>1. CASE mount(s) \/ refresh(s) \/ retrySync(s) \/ slotFails(s)
    BY <1>2, <2>1 DEF mount, refresh, retrySync, Start, slotFails, chain
  <2>2. CASE mountSync(s) \/ mountSlot(s) \/ load(s) \/ loadSync(s) \/ slot(s) \/ health(s)
    BY <1>2, <2>2 DEF mountSync, mountSlot, load, loadSync, slot, health, chain
  <2>3. CASE dispatch(s) \/ putAnnouncements(s) \/ finish(s)
    BY <1>2, <2>3 DEF dispatch, putAnnouncements, finish, chain
  <2> QED BY <1>5, <2>1, <2>2, <2>3
<1>6. ASSUME NEW s \in Scans, moveCursor(s) PROVE P
  <2>1. UNCHANGED <<lost, oldest, announced>>
    BY <1>6 DEF moveCursor, chain
  <2>2. sync'.unscannedRanges = sync.unscannedRanges
    BY <1>6, CursorFacts
  <2> QED BY <1>1, <2>1, <2>2
<1>7. ASSUME NEW s \in Scans, clamp(s) \/ \E range \in DOMAIN requests : reportGap(s, range)
      PROVE  P
  <2>1. \E from, to : Records(s, from, to)
    BY <1>7 DEF Records
  <2>2. UNCHANGED <<lost, oldest, announced>>
    BY <2>1, RecordsFacts
  <2> QED BY <1>1, <2>1, <2>2
<1>8. CASE RequestStep
  BY <1>2, <1>8 DEF RequestStep, answer, rangeError, reject, chain
<1>9. ASSUME NEW s \in Scans, ScanStep(s) PROVE P
  <2> HIDE DEF P
  <2> QED BY <1>5, <1>6, <1>7, <1>9 DEF ScanStep, Resets
<1>10. CASE Reload
  BY <1>10 DEF Resets
<1> HIDE DEF P
<1> QED BY <1>3, <1>4, <1>5, <1>8, <1>9, <1>10 DEF Next

\* Outside of a full rescan's pause now, if not at its end, outside of it before.
LEMMA NoPauseBefore ==
  ASSUME Shape, [Next]_vars, ~Reload, \A s \in Scans : ~clearSync(s), NoClear'
  PROVE  NoClear
<1>1. SUFFICES ASSUME NEW s \in Scans, scan[s].pc = "clearSync" PROVE FALSE
  BY DEF NoClear
<1>2. scan'[s].pc = "clearSync"
  <2>1. CASE UNCHANGED vars
    BY <1>1, <2>1 DEF vars
  <2>2. CASE Next
    BY <1>1, <2>2, PauseLasts
  <2> QED BY <2>1, <2>2
<1> QED BY <1>2 DEF NoClear

\* The resets of the sync record alone are not steps of a full rescan.
LEMMA NoPauseAtReset ==
  ASSUME Shape, NEW s \in Scans, mountClear(s) \/ resetSync(s), NoClear'
  PROVE  NoClear
<1>1. DOMAIN scan = Scans
  BY ScanFacts
<1>2. scan[s].pc # "clearSync" /\ \A t \in Scans : t # s => scan'[t] = scan[t]
  BY <1>1 DEF mountClear, resetSync, Goto
<1> QED BY <1>2 DEF NoClear

\* clearCache begins the pause, and clearSync ends it with nothing left to cover
\* unless another scan is active.
LEMMA RescanCovered ==
  ASSUME Shape, Shape', NEW s \in Scans, clearCache(s) \/ clearSync(s),
         "cache" \notin lost', NoClear', NEW F
  PROVE  CovNext(F)
<1>1. DOMAIN scan = Scans
  BY ScanFacts
<1>2. ~clearCache(s)
  <2>1. ASSUME clearCache(s) PROVE FALSE
    <3>1. Goto(s, "clearSync")
      BY <2>1 DEF clearCache
    <3>2. scan'[s].pc = "clearSync"
      BY <3>1, GotoFacts
    <3> QED BY <3>2 DEF NoClear
  <2> QED BY <2>1
<1>3. PICK p \in {"load", "clearSyncAgain"} : Goto(s, p)
  BY <1>2 DEF clearSync
<1>4. Moved(s, scan'[s]) /\ scan'[s].pc \in {"load", "clearSyncAgain"}
  BY <1>3, GotoFacts
<1>5. clearSyncState(IF OthersActive(s) THEN {"cache", "gaps"} ELSE {}) /\ UNCHANGED announced
  BY <1>2 DEF clearSync, chain
<1>6. sync'.lastScannedSlot = 0 /\ ~OthersActive(s)
  <2> DEFINE dropped == IF OthersActive(s) THEN {"cache", "gaps"} ELSE {}
  <2>1. clearSyncState(dropped)
    BY <1>5
  <2>2. OthersActive(s) => "cache" \in dropped
    OBVIOUS
  <2> HIDE DEF dropped
  <2> QED BY <2>1, <2>2, ResetFacts
<1> QED BY <1>4, <1>5, <1>6, Afresh

\* The ledgers that the RPC no longer serves, and those that are recorded.
Old(o) == {l \in Ledgers : l < o}
Recorded(ranges) == {l \in Ledgers : Listed(ranges, l)}

\* The cursor has passed ledgers that are cached or no longer served.
CursorInv == "cache" \notin lost /\ NoClear => Cov(Old(oldest))

\* The cursor has passed ledgers that are cached or recorded.
GapsInv == lost = {} /\ NoClear => Cov(Recorded(sync.unscannedRanges))

\* The same of the next state.
LEMMA InvNext ==
  /\ CursorInv' <=> ("cache" \notin lost' /\ NoClear' => CovNext(Old(oldest')))
  /\ GapsInv' <=> (lost' = {} /\ NoClear' => CovNext(Recorded(sync'.unscannedRanges)))
BY DEF CursorInv, GapsInv, Cov, CovNext

\* A new device has a cursor at 0.
LEMMA InitInv == Init => CursorInv /\ GapsInv
<1>1. SUFFICES ASSUME Init, NEW E PROVE Cov(E)
  BY DEF CursorInv, GapsInv
<1>2. Shape /\ sync.lastScannedSlot = 0
  BY <1>1, InitShape, SMTT(30) DEF Init, NoSync
<1>3. DOMAIN requests = {} /\ Idle.pc = "idle"
  BY <1>1, SMTT(30) DEF Init, Idle
<1>4. ASSUME NEW s \in Scans PROVE ScanCovered(announced, scan[s], cached, E)
  <2>1. scan[s].pc = "idle" /\ ScanShape(scan[s], head, oldest)
    BY <1>1, <1>2, <1>3, ScanFacts DEF Init
  <2> QED BY <2>1, IdleCovered
<1> QED BY <1>2, <1>3, <1>4, CoversZero DEF Cov, Covered

\* What cannot be read is excused in both ways: a recorded range is no longer
\* served, and it is recorded.
LEMMA Excuses ==
  ASSUME Shape, NEW s \in Scans, NEW from, NEW to, Records(s, from, to)
  PROVE  /\ Between(announced, from, to) \subseteq Old(oldest')
         /\ Between(announced, from, to) \subseteq Recorded(sync'.unscannedRanges)
<1>1. /\ from \in Nat /\ to \in Nat /\ to < oldest /\ oldest' = oldest
      /\ \A l \in Int : Listed(sync'.unscannedRanges, l)
                          <=> Listed(sync.unscannedRanges, l) \/ (from <= l /\ l <= to)
  BY RecordsFacts
<1>2. SUFFICES ASSUME NEW l \in Between(announced, from, to)
               PROVE  l \in Old(oldest') /\ l \in Recorded(sync'.unscannedRanges)
  OBVIOUS
<1>3. l \in announced /\ from <= l /\ l <= to /\ l \in Ledgers
  BY <1>2 DEF Between, Shape
<1>4. l \in Nat /\ l \in Int /\ oldest \in Nat
  BY <1>3, LedgerFacts, SMTT(30) DEF Shape
<1>5. l < oldest
  BY <1>1, <1>3, <1>4, SMTT(30)
<1> QED BY <1>1, <1>3, <1>4, <1>5 DEF Old, Recorded

\* More ledgers are excused after a step that is no reset.
LEMMA ExcusesGrow ==
  ASSUME Shape, [Next]_vars, ~Resets
  PROVE  /\ Old(oldest) \subseteq Old(oldest')
         /\ Recorded(sync.unscannedRanges) \subseteq Recorded(sync'.unscannedRanges)
<1>1. /\ oldest \in Nat /\ oldest' \in Nat /\ oldest <= oldest'
      /\ \/ sync'.unscannedRanges = sync.unscannedRanges
         \/ \E s \in Scans : \E from, to : Records(s, from, to)
  BY StepRecord DEF Shape
<1>2. \A l \in Ledgers : l \in Int /\ (l < oldest => l < oldest')
  BY <1>1, SMTT(30) DEF Ledgers
<1>3. ASSUME NEW s \in Scans, NEW from, NEW to, Records(s, from, to)
      PROVE  \A l \in Int : Listed(sync.unscannedRanges, l) => Listed(sync'.unscannedRanges, l)
  BY <1>3, RecordsFacts
<1>4. \A l \in Int : Listed(sync.unscannedRanges, l) => Listed(sync'.unscannedRanges, l)
  BY <1>1, <1>3
<1> QED BY <1>2, <1>4 DEF Old, Recorded

\* Every step keeps what the cursor has passed covered by what is no longer served.
LEMMA StepCursor ==
  ASSUME Shape, Shape', [Next]_vars, CursorInv
  PROVE  CursorInv'
<1>1. SUFFICES ASSUME "cache" \notin lost', NoClear' PROVE CovNext(Old(oldest'))
  BY InvNext
<1>2. CASE ~Resets
  <2>1. NoClear
    BY <1>1, <1>2, NoPauseBefore DEF Resets
  <2>2. Cov(Old(oldest))
    BY <1>1, <1>2, <2>1, StepRecord DEF CursorInv
  <2>3. Old(oldest) \subseteq Old(oldest')
    BY <1>2, ExcusesGrow
  <2>4. \A s \in Scans : \A from, to : Records(s, from, to) =>
           Between(announced, from, to) \subseteq Old(oldest')
    BY Excuses
  <2> QED BY <1>2, <2>2, <2>3, <2>4, StepCovered
<1>3. ASSUME NEW s \in Scans, clearCache(s) \/ clearSync(s) PROVE CovNext(Old(oldest'))
  BY <1>1, <1>3, RescanCovered
<1>4. ASSUME NEW s \in Scans, mountClear(s) \/ resetSync(s) PROVE CovNext(Old(oldest'))
  <2>1. NoClear
    BY <1>1, <1>4, NoPauseAtReset
  <2>2. "cache" \notin lost /\ oldest' = oldest
    BY <1>1, <1>4 DEF mountClear, resetSync, clearSyncState, chain
  <2>3. Cov(Old(oldest))
    BY <2>1, <2>2 DEF CursorInv
  <2>4. CovNext(Old(oldest))
    BY <1>4, <2>3, ResetCovered
  <2> QED BY <2>2, <2>4
<1>5. CASE Reload
  <2>1. "cache" \notin lost /\ NoClear /\ oldest' = oldest
    BY <1>1, <1>5 DEF Reload, NoClear, chain
  <2>2. CovNext(Old(oldest))
    BY <1>5, <2>1, ReloadCovered DEF CursorInv
  <2> QED BY <2>1, <2>2
<1> QED BY <1>2, <1>3, <1>4, <1>5 DEF Resets

\* Every step keeps what the cursor has passed covered by what is recorded.
LEMMA StepGaps ==
  ASSUME Shape, Shape', [Next]_vars, GapsInv
  PROVE  GapsInv'
<1> DEFINE E == Recorded(sync.unscannedRanges)
           F == Recorded(sync'.unscannedRanges)
<1>1. SUFFICES ASSUME lost' = {}, NoClear' PROVE CovNext(F)
  BY InvNext
<1>2. CASE ~Resets
  <2>1. NoClear
    BY <1>1, <1>2, NoPauseBefore DEF Resets
  <2>2. Cov(E)
    BY <1>1, <1>2, <2>1, StepRecord DEF GapsInv
  <2>3. E \subseteq F
    BY <1>2, ExcusesGrow
  <2>4. \A s \in Scans : \A from, to : Records(s, from, to) =>
           Between(announced, from, to) \subseteq F
    BY Excuses
  <2> QED BY <1>2, <2>2, <2>3, <2>4, StepCovered
<1>3. ASSUME NEW s \in Scans, clearCache(s) \/ clearSync(s) PROVE CovNext(F)
  BY <1>1, <1>3, RescanCovered
<1>4. ASSUME NEW s \in Scans, mountClear(s) PROVE CovNext(F)
  <2>1. Moved(s, scan'[s]) /\ scan'[s].pc \in {"load", "clearSyncAgain"}
    BY <1>4, GotoFacts DEF mountClear
  <2>2. clearSyncState(IF OthersActive(s) THEN {"gaps"} ELSE {}) /\ UNCHANGED announced
    BY <1>4 DEF mountClear, chain
  <2>3. sync'.lastScannedSlot = 0 /\ ~OthersActive(s)
    <3> DEFINE dropped == IF OthersActive(s) THEN {"gaps"} ELSE {}
    <3>1. clearSyncState(dropped)
      BY <2>2
    <3>2. OthersActive(s) => "gaps" \in dropped
      OBVIOUS
    <3> HIDE DEF dropped
    <3> QED BY <1>1, <3>1, <3>2, ResetFacts
  <2> QED BY <2>1, <2>2, <2>3, Afresh
<1>5. ASSUME NEW s \in Scans, resetSync(s) PROVE CovNext(F)
  <2>1. NoClear
    BY <1>1, <1>5, NoPauseAtReset
  <2>2. lost = {} /\ sync.unscannedRanges = <<>> /\ sync'.unscannedRanges = <<>>
    <3> DEFINE dropped == IF sync.unscannedRanges # <<>> \/ OthersActive(s)
                          THEN {"gaps"} ELSE {}
    <3>1. clearSyncState(dropped)
      BY <1>5 DEF resetSync
    <3>2. sync.unscannedRanges # <<>> => "gaps" \in dropped
      OBVIOUS
    <3> HIDE DEF dropped
    <3> QED BY <1>1, <3>1, <3>2, ResetFacts
  <2>3. Cov(E)
    BY <2>1, <2>2 DEF GapsInv
  <2>4. CovNext(E)
    BY <1>5, <2>3, ResetCovered
  <2> QED BY <2>2, <2>4
<1>6. CASE Reload
  <2>1. lost = {} /\ NoClear /\ sync' = sync
    BY <1>1, <1>6 DEF Reload, NoClear, chain
  <2>2. CovNext(E)
    BY <1>6, <2>1, ReloadCovered DEF GapsInv
  <2> QED BY <2>1, <2>2
<1> QED BY <1>2, <1>3, <1>4, <1>5, <1>6 DEF Resets

-----------------------------------------------------------------------------
(* The theorems.                                                           *)

\* A scan comes to its end in slot or in finish.
LEMMA DoneBy ==
  ASSUME Shape, Next, NEW s \in Scans, scan[s].pc # "done", scan'[s].pc = "done"
  PROVE  slot(s) \/ finish(s)
<1>1. DOMAIN scan = Scans
  BY ScanFacts
<1>2. ASSUME NEW t \in Scans, IdleStep(t) PROVE FALSE
  <2>1. Moved(t, scan'[t]) /\ scan'[t].pc # "done"
    BY <1>2, IdleStepFacts
  <2> QED BY <2>1 DEF Moved
<1>3. ASSUME NEW t \in Scans, NEW p, Goto(t, p), p # "done" PROVE FALSE
  <2>1. Moved(t, scan'[t]) /\ scan'[t].pc # "done"
    BY <1>3, GotoFacts
  <2> QED BY <2>1 DEF Moved
<1>4. ASSUME NEW t \in Scans, mountClear(t) \/ clearCache(t) \/ clearSync(t) \/ resetSync(t)
      PROVE  FALSE
  BY <1>3, <1>4 DEF mountClear, clearCache, clearSync, resetSync
<1>5. ASSUME NEW t \in Scans, loadSync(t) \/ health(t) \/ clamp(t) PROVE FALSE
  <2>1. DOMAIN scan[t] = Fields
    BY ScanFacts
  <2>2. Moved(t, scan'[t]) /\ scan'[t].pc # "done"
    <3>1. CASE loadSync(t)
      <4>1. PICK p \in {"resetSync", "slot"} :
               scan' = [scan EXCEPT ![t].pc = p, ![t].last = sync.lastScannedSlot,
                                    ![t].seen = {}]
        BY <3>1 DEF loadSync
      <4>2. Moved(t, scan'[t]) /\ scan'[t].pc = p
        BY <1>1, <2>1, <4>1, SMTT(30) DEF Moved, Fields
      <4> QED BY <4>2
    <3>2. CASE health(t)
      <4>1. CASE Goto(t, "fetch")
        BY <1>3, <4>1
      <4>2. ASSUME NEW r, scan' = [scan EXCEPT ![t].pc = "clamp", ![t].next = r]
            PROVE  Moved(t, scan'[t]) /\ scan'[t].pc = "clamp"
        BY <1>1, <2>1, <4>2, SMTT(30) DEF Moved, Fields
      <4> QED BY <3>2, <4>1, <4>2 DEF health
    <3>3. CASE clamp(t)
      BY <1>1, <2>1, <3>3, SMTT(30) DEF clamp, Moved, Fields
    <3> QED BY <1>5, <3>1, <3>2, <3>3
  <2> QED BY <2>2 DEF Moved
<1>6. ASSUME NEW t \in Scans, dispatch(t) \/ putAnnouncements(t) \/ moveCursor(t)
      PROVE  FALSE
  <2>1. Moved(t, scan'[t]) /\ SameFetch(scan'[t], scan[t])
    <3>1. CASE dispatch(t)
      BY <3>1, DispatchFacts
    <3>2. CASE putAnnouncements(t)
      BY <3>2, PutFacts DEF putAnnouncements
    <3>3. CASE moveCursor(t)
      BY <3>3, CursorFacts
    <3> QED BY <1>6, <3>1, <3>2, <3>3
  <2> QED BY <2>1 DEF Moved, SameFetch
<1>7. ASSUME NEW t \in Scans, slot(t) \/ finish(t), t # s PROVE FALSE
  BY <1>7, SlotFacts, FinishFacts DEF Moved
<1>8. ASSUME NEW t \in Scans, ScanStep(t) PROVE t = s /\ (slot(t) \/ finish(t))
  <2>1. CASE \E range \in DOMAIN requests : reportGap(t, range)
    BY <2>1 DEF reportGap
  <2> QED BY <1>2, <1>4, <1>5, <1>6, <1>7, <1>8, <2>1 DEF ScanStep, IdleStep
<1>9. ASSUME RequestStep PROVE FALSE
  <2>1. PICK range \in DOMAIN requests : answer(range) \/ rangeError(range) \/ reject(range)
    BY <1>9 DEF RequestStep
  <2>2. DOMAIN scan[s] = Fields
    BY ScanFacts
  <2>3. \A pages, logs : /\ Buffer(scan[s], pages, logs).pc = scan[s].pc
                         /\ Failed(scan[s], pages).pc = scan[s].pc
    <3>1. ASSUME NEW pages, NEW logs
          PROVE  Buffer(scan[s], pages, logs).pc = scan[s].pc
      <4> DEFINE new == {<<i, logs>> : i \in pages}
                 d == IF scan[s].flushed + 1 \in pages THEN "put" ELSE scan[s].drain
      <4>1. \/ Buffer(scan[s], pages, logs) = scan[s]
            \/ Buffer(scan[s], pages, logs)
                 = [scan[s] EXCEPT !.waiting = @ \ pages, !.results = @ \cup new, !.drain = d]
        BY DEF Buffer
      <4> HIDE DEF new, d
      <4>2. [scan[s] EXCEPT !.waiting = @ \ pages, !.results = @ \cup new, !.drain = d].pc
              = scan[s].pc
        BY <2>2, SMTT(30) DEF Fields
      <4> QED BY <4>1, <4>2
    <3>2. ASSUME NEW pages PROVE Failed(scan[s], pages).pc = scan[s].pc
      BY <2>2, SMTT(30) DEF Failed, Fields
    <3> QED BY <3>1, <3>2
  <2>4. CASE answer(range)
    BY <2>3, <2>4 DEF answer
  <2>5. CASE rangeError(range)
    BY <2>5 DEF rangeError
  <2>6. CASE reject(range)
    BY <2>3, <2>6 DEF reject
  <2> QED BY <2>1, <2>4, <2>5, <2>6
<1>10. ASSUME CloseLedger \/ Prune PROVE FALSE
  BY <1>10 DEF CloseLedger, Prune
<1>11. ASSUME Reload PROVE FALSE
  <2>1. Idle.pc = "idle"
    BY SMTT(30) DEF Idle
  <2> QED BY <1>11, <2>1 DEF Reload
<1> QED BY <1>2, <1>8, <1>9, <1>10, <1>11 DEF Next, IdleStep

\* A scan that finishes up to date has flushed its last page.
LEMMA DoneReached ==
  ASSUME Shape, NEW s \in Scans, finish(s), scan'[s].pc = "done"
  PROVE  scan'[s].to = scan[s].to /\ Reached(scan[s]) = scan[s].to
<1> DEFINE sc == scan[s]
<1>1. /\ sc.pc = "fetch" /\ sc.waiting = {} /\ sc.drain = "no"
      /\ Fetching(sc, head) /\ ScanTyped(sc) /\ DOMAIN sc = Fields
  BY FinishFacts DEF ScanTyped
<1>2. \/ Moved(s, Idle)
      \/ Moved(s, [sc EXCEPT !.drain = "put"])
      \/ /\ ~sc.failed /\ sc.next = PageCount(sc) /\ ~Ready(sc, NextPage(sc))
         /\ Moved(s, [Idle EXCEPT !.pc = "done", !.to = sc.to])
  BY FinishFacts
<1> HIDE DEF sc
<1>3. ~Moved(s, Idle) /\ ~Moved(s, [sc EXCEPT !.drain = "put"])
  <2>1. Idle.pc = "idle" /\ [sc EXCEPT !.drain = "put"].pc = "fetch"
    BY <1>1, SMTT(30) DEF Idle, Fields
  <2> QED BY <2>1 DEF Moved
<1>4. scan'[s].to = sc.to
  <2>1. scan'[s] = [Idle EXCEPT !.pc = "done", !.to = sc.to]
    BY <1>2, <1>3 DEF Moved
  <2>2. DOMAIN Idle = Fields
    BY SMTT(30) DEF Idle, Fields
  <2> QED BY <2>1, <2>2, SMTT(30) DEF Fields
<1>5. /\ sc.flushed \in Nat /\ PageCount(sc) \in Nat /\ sc.flushed <= PageCount(sc)
      /\ NextPage(sc) = sc.flushed + 1
  BY <1>1, PagesOfFacts DEF ScanTyped, Paging, Fetching, NextPage
<1>6. ASSUME NextPage(sc) \in 1 .. PageCount(sc) PROVE FALSE
  <2>1. Accounted(sc, NextPage(sc))
    BY <1>1, <1>2, <1>3, <1>6 DEF Fetching
  <2>2. ~(NextPage(sc) <= sc.flushed)
    BY <1>5, SMTT(30)
  <2> QED BY <1>1, <1>2, <1>3, <2>1, <2>2 DEF Accounted
<1>7. sc.flushed = PageCount(sc)
  BY <1>5, <1>6, SMTT(30)
<1> QED BY <1>1, <1>4, <1>7, ReachedNext DEF sc

\* What ends a scan is covered by what its state is.
LEMMA DoneCovered ==
  ASSUME Shape, NEW E, Cov(E), NEW s \in Scans, slot(s) \/ finish(s), scan'[s].pc = "done"
  PROVE  Covers(announced, cached \cup E, scan'[s].to)
<1>1. CASE slot(s)
  <2>1. scan'[s].from > head /\ scan'[s].to = head /\ head \in Nat
    BY <1>1, SlotFacts DEF Shape
  <2>2. scan'[s].from \in Nat /\ Covers(announced, cached \cup E, scan'[s].from - 1)
    BY <1>1, SlotReach
  <2>3. \A l \in announced : l <= scan'[s].to => l <= scan'[s].from - 1
    BY <2>1, <2>2, LedgerFacts, SMTT(30)
  <2> QED BY <2>2, <2>3 DEF Covers, Between
<1>2. CASE finish(s)
  <2>1. scan'[s].to = Reached(scan[s]) /\ scan[s].pc = "fetch"
    BY <1>2, DoneReached, FinishFacts
  <2>2. Covers(announced, cached \cup E, Reached(scan[s]))
    BY <2>1, CovFacts DEF ScanCovered
  <2> QED BY <2>1, <2>2
<1> QED BY <1>1, <1>2

\* What is covered but not excused is in the cache.
LEMMA CoveredIsKnown ==
  ASSUME Shape, NEW E, NEW last, Covers(announced, cached \cup E, last)
  PROVE  \A l \in Upto(last) : l \in cached \/ l \in E
BY DEF Covers, Between, Upto

\* The inductive invariant of the scanner.
ScannerInv == Shape /\ CursorInv /\ GapsInv

\* It holds of every behaviour: of concurrent scans, requests they share, answers in
\* any order, failures, a sliding window, reloads and resets.
LEMMA ScannerInvHolds == Spec => []ScannerInv
<1>1. Init => ScannerInv
  BY InitShape, InitInv DEF ScannerInv
<1>2. ScannerInv /\ [Next]_vars => ScannerInv'
  <2>1. SUFFICES ASSUME ScannerInv, [Next]_vars PROVE Shape' /\ CursorInv' /\ GapsInv'
    BY DEF ScannerInv
  <2>2. Shape /\ CursorInv /\ GapsInv
    BY <2>1 DEF ScannerInv
  <2>3. Shape'
    BY <2>1, <2>2, StepShape
  <2> QED BY <2>1, <2>2, <2>3, StepCursor, StepGaps
<1> QED BY <1>1, <1>2, PTL DEF Spec

\* The cursor never passes an announcement that the RPC still serves and that is not
\* in the cache: the pages are flushed in order and written before the cursor moves
\* (useScanner.ts fetchLogsAdaptive, runChunkedRpcSync), whatever number of scans run
\* and of pages are fetched at once.
THEOREM CursorIsCoveredHolds == Spec => []CursorIsCovered
<1>1. ScannerInv => CursorIsCovered
  <2>1. SUFFICES ASSUME ScannerInv, "cache" \notin lost, NoClear,
                        NEW l \in Upto(sync.lastScannedSlot)
                 PROVE  l \in cached \/ l < oldest
    BY DEF CursorIsCovered
  <2>2. Covers(announced, cached \cup Old(oldest), sync.lastScannedSlot)
    BY <2>1, CovFacts DEF ScannerInv, CursorInv
  <2>3. l \in cached \/ l \in Old(oldest)
    BY <2>1, <2>2, CoveredIsKnown DEF ScannerInv
  <2> QED BY <2>3 DEF Old
<1> QED BY <1>1, ScannerInvHolds, PTL

\* The gaps in the sync record are sorted, do not meet and are no longer served, and
\* every ledger behind the cursor was read or lies in one of them, in whatever order
\* the scans report what they could not read (opaqueCache.ts mergeUnscannedRanges).
THEOREM GapsAreReportedHolds == Spec => []GapsAreReported
<1>1. ScannerInv => GapsAreExact
  <2>1. SUFFICES ASSUME ScannerInv PROVE GapsAreExact
    OBVIOUS
  <2> DEFINE gaps == sync.unscannedRanges
  <2>2. Exact(gaps, oldest) /\ Sorted(gaps)
    BY <2>1 DEF ScannerInv, Shape, SyncShape, Exact
  <2> HIDE DEF gaps
  <2>3. DOMAIN gaps = 1 .. Len(gaps)
    BY <2>2, SMTT(30) DEF Sorted
  <2>4. \A i \in DOMAIN gaps : gaps[i][1] <= gaps[i][2] /\ gaps[i][2] < oldest
    BY <2>2, <2>3 DEF Exact, Sorted
  <2>5. \A i \in 1 .. Len(gaps) - 1 : gaps[i][2] + 1 < gaps[i + 1][1]
    BY <2>2 DEF Sorted
  <2> QED BY <2>4, <2>5 DEF GapsAreExact, gaps
<1>2. ASSUME ScannerInv, lost = {}, NoClear, NEW l \in Upto(sync.lastScannedSlot)
      PROVE  \/ l \in cached
             \/ \E i \in DOMAIN sync.unscannedRanges :
                  sync.unscannedRanges[i][1] <= l /\ l <= sync.unscannedRanges[i][2]
  <2> DEFINE gaps == sync.unscannedRanges
  <2>1. Covers(announced, cached \cup Recorded(gaps), sync.lastScannedSlot)
    BY <1>2, CovFacts DEF ScannerInv, GapsInv
  <2>2. l \in cached \/ l \in Recorded(gaps)
    BY <1>2, <2>1, CoveredIsKnown DEF ScannerInv
  <2>3. Sorted(gaps)
    BY <1>2 DEF ScannerInv, Shape, SyncShape, Exact
  <2> HIDE DEF gaps
  <2>4. DOMAIN gaps = 1 .. Len(gaps)
    BY <2>3, SMTT(30) DEF Sorted
  <2>5. l \in Recorded(gaps) => \E i \in DOMAIN gaps : gaps[i][1] <= l /\ l <= gaps[i][2]
    BY <2>4 DEF Recorded, Listed
  <2> QED BY <2>2, <2>5 DEF gaps
<1>3. ScannerInv => GapsAreReported
  BY <1>1, <1>2 DEF GapsAreReported
<1> QED BY <1>3, ScannerInvHolds, PTL

\* A scan that ends "Up to date" leaves every announcement up to the head it has read
\* in the cache, save those the RPC no longer serves: every page is flushed when the
\* workers return, and the early return trusts a cursor that is covered (runScan).
THEOREM UpToDateHolds == Spec => UpToDateIsTrue
<1> DEFINE Step == \A s \in Scans :
              scan[s].pc # "done" /\ scan'[s].pc = "done" /\ "cache" \notin lost /\ NoClear =>
                 \A l \in Upto(scan'[s].to) : l \in cached \/ l < oldest
<1>1. ScannerInv /\ [Next]_vars => [Step]_vars
  <2>1. SUFFICES ASSUME ScannerInv, Next, NEW s \in Scans, scan[s].pc # "done",
                        scan'[s].pc = "done", "cache" \notin lost, NoClear,
                        NEW l \in Upto(scan'[s].to)
                 PROVE  l \in cached \/ l < oldest
    OBVIOUS
  <2>2. Shape /\ Cov(Old(oldest))
    BY <2>1 DEF ScannerInv, CursorInv
  <2>3. slot(s) \/ finish(s)
    BY <2>1, <2>2, DoneBy
  <2>4. Covers(announced, cached \cup Old(oldest), scan'[s].to)
    BY <2>1, <2>2, <2>3, DoneCovered
  <2>5. l \in cached \/ l \in Old(oldest)
    BY <2>1, <2>2, <2>4, CoveredIsKnown
  <2> QED BY <2>5 DEF Old
<1> QED BY <1>1, ScannerInvHolds, PTL DEF Spec, UpToDateIsTrue

==============================================================================
