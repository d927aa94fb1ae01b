--------------------------- MODULE PublisherProofs ---------------------------
(***************************************************************************)
(* The publisher never puts a root on chain whose leaves it cannot serve,  *)
(* and never reorders the leaves holders prove positions in.               *)
(*                                                                         *)
(* Manifests.  The manifest of a root is written before its transaction is *)
(* sent, and a transaction may land when the tick that sent it has failed, *)
(* or the process has died.  So the invariant is about every transaction   *)
(* under way and not only about the root on chain.                         *)
(*                                                                         *)
(* Order.  The leaves are saved many steps after they were looked up.  The *)
(* invariant follows the tick: the leaves kept so far are in the order of  *)
(* the state file, and a leaf that was looked up and not kept was read as  *)
(* null or has ended for good.  What mergeLeaves returns is shown by       *)
(* induction over the sets of entries it has gone through.                 *)
(***************************************************************************)
EXTENDS Publisher, FiniteSetTheorems, TLAPS

USE ZenonT(20)

\* Every root that may still land has its manifest.
SentHasManifest == \A tx \in txs : tx.root \in roots

ManifestInv == SentHasManifest /\ UsableRootHasManifest

\* At first no root was sent.
LEMMA ManifestInit == Init => ManifestInv
BY DEF Init, ManifestInv, SentHasManifest, UsableRootHasManifest, Usable

\* A root lands: it was sent, so its manifest is there.
LEMMA ManifestLands ==
  ASSUME ManifestInv, NEW tx, update_merkle_root(tx)
  PROVE  ManifestInv'
<1>1. roots' = roots /\ txs' = {} /\ tx.root \in roots
  BY DEF update_merkle_root, data, ManifestInv, SentHasManifest
<1>2. \A e \in entries' : e \in entries \/ e.root = tx.root
  BY SMTT(30) DEF update_merkle_root
<1>. QED BY <1>1, <1>2, SMTT(30) DEF ManifestInv, SentHasManifest, UsableRootHasManifest, Usable

\* A ledger closes: roots get older or expire.
LEMMA ManifestAges ==
  ASSUME ManifestInv, CloseLedger
  PROVE  ManifestInv'
<1>1. \A e \in entries' : \E f \in entries : e.root = f.root
  BY SMTT(30) DEF CloseLedger
<1>2. UNCHANGED <<roots, txs>>
  BY DEF CloseLedger, data
<1>. QED BY <1>1, <1>2 DEF ManifestInv, SentHasManifest, UsableRootHasManifest, Usable

\* The only step that sends a root writes its manifest too.
LEMMA ManifestPublish ==
  ASSUME ManifestInv, Publish
  PROVE  ManifestInv'
<1>1. roots \subseteq roots' /\ entries' = entries
  BY DEF Publish
<1>2. UsableRootHasManifest'
  BY <1>1 DEF ManifestInv, UsableRootHasManifest, Usable
<1>3. SentHasManifest'
  <2>1. CASE UNCHANGED <<roots, txs>>
    BY <2>1 DEF ManifestInv, SentHasManifest
  <2>2. CASE /\ txs' = txs \cup {[root |-> tree, mine |-> TRUE]}
             /\ roots' = roots \cup {tree}
    BY <2>2, SMTT(30) DEF ManifestInv, SentHasManifest
  <2>. QED BY <2>1, <2>2 DEF Publish
<1>. QED BY <1>2, <1>3 DEF ManifestInv

\* A tick is gone and leaves its transaction behind.
LEMMA ManifestOrphans ==
  ASSUME ManifestInv, txs' \in {Orphans, {tx \in txs : ~ tx.mine}},
         UNCHANGED <<entries, roots>>
  PROVE  ManifestInv'
<1>1. \A tx \in txs' : \E other \in txs : tx.root = other.root
  BY SMTT(30) DEF Orphans
<1>2. \A tx \in txs' : tx.root \in roots
  <2>1. SUFFICES ASSUME NEW tx \in txs' PROVE tx.root \in roots
    OBVIOUS
  <2>2. PICK other \in txs : tx.root = other.root
    BY <1>1
  <2>3. other.root \in roots
    BY DEF ManifestInv, SentHasManifest
  <2>. QED BY <2>2, <2>3
<1>. QED BY <1>2 DEF ManifestInv, SentHasManifest, UsableRootHasManifest, Usable

\* Every other step leaves the roots on chain, the transactions and the manifests
\* alone.
LEMMA ManifestRest ==
  ASSUME ManifestInv, UNCHANGED <<entries, txs, roots>>
  PROVE  ManifestInv'
BY DEF ManifestInv, SentHasManifest, UsableRootHasManifest, Usable

\* Every step of the publisher, the storage and the chain keeps the manifests.
LEMMA ManifestStep == ManifestInv /\ [Next]_vars => ManifestInv'
<1>. SUFFICES ASSUME ManifestInv, [Next]_vars PROVE ManifestInv'
  OBVIOUS
<1>1. CASE CloseLedger
  BY <1>1, ManifestAges
<1>2. CASE \E uid \in Uids : Revoke(uid)
  BY <1>2, ManifestRest DEF Revoke, data
<1>3. CASE \E tx \in txs : update_merkle_root(tx)
  BY <1>3, ManifestLands
<1>4. CASE \E c \in Commitments : Submit(c)
  BY <1>4, ManifestRest DEF Submit, chain
<1>5. CASE TickStep
  <2>1. CASE StartTick
    BY <2>1, ManifestRest DEF StartTick, chain, data
  <2>2. CASE CheckLeaf \/ CheckFile
    BY <2>2, ManifestRest DEF CheckLeaf, CheckFile, chain, data
  <2>3. CASE Publish
    BY <2>3, ManifestPublish
  <2>4. CASE Confirmed \/ NotConfirmed
    BY <2>4, ManifestRest DEF Confirmed, NotConfirmed, chain, data
  <2>5. CASE save \/ archiveInbox
    BY <2>5, ManifestRest DEF save, archiveInbox, chain
  <2>. QED BY <1>5, <2>1, <2>2, <2>3, <2>4, <2>5, SMTT(30) DEF TickStep
<1>6. CASE TickFails \/ Crash
  BY <1>6, ManifestOrphans DEF TickFails, Crash, data
<1>7. CASE UNCHANGED vars
  BY <1>7, ManifestRest DEF vars, chain, data
<1>. QED BY <1>1, <1>2, <1>3, <1>4, <1>5, <1>6, <1>7 DEF Next

\* Whatever is submitted, revoked or expires, whenever ticks fail, the process
\* dies or a transaction lands late: the leaves of every root a proof can be
\* verified against are on the publisher's disk.
THEOREM ManifestTheorem == Spec => []UsableRootHasManifest
<1>1. ManifestInv => UsableRootHasManifest
  BY DEF ManifestInv
<1>. QED BY ManifestInit, ManifestStep, <1>1, PTL DEF Spec

-----------------------------------------------------------------------------
(* The leaves keep their order.                                            *)

\* A set of naturals that has an element has a least one.
LEMMA LeastExists ==
  ASSUME NEW N \in SUBSET Nat, N # {}
  PROVE  \E n \in N : \A m \in N : n <= m
<1> DEFINE Less == OpToRel(<, Nat)
<1>1. IsWellFoundedOn(Less, Nat)
  BY NatLessThanWellFounded
<1> HIDE DEF Less
<1>2. PICK n \in N : \A m \in N : ~ (<<m, n>> \in Less)
  BY <1>1, WFMin
<1>3. ASSUME NEW m \in N PROVE n <= m
  <2>1. <<m, n>> \notin Less
    BY <1>2
  <2>2. ~ (m < n)
    BY <2>1 DEF Less, OpToRel
  <2> QED BY <2>2, SMTT(30)
<1> QED BY <1>3

\* Induction over the subsets of a finite set: P is the set of the subsets for
\* which the claim holds.  A smallest counterexample has smaller subsets only.
LEMMA SubsetInduction ==
  ASSUME NEW S, IsFiniteSet(S), NEW P,
         \A s \in SUBSET S : (\A t \in SUBSET s : t # s => t \in P) => s \in P
  PROVE  SUBSET S \subseteq P
<1>1. SUFFICES ASSUME NEW u \in SUBSET S, u \notin P PROVE FALSE
  OBVIOUS
<1> DEFINE N == {Cardinality(s) : s \in {v \in SUBSET S : v \notin P}}
<1>2. \A s \in SUBSET S : IsFiniteSet(s) /\ Cardinality(s) \in Nat
  BY FS_Subset, FS_CardinalityType
<1>3. N \in SUBSET Nat /\ N # {}
  <2>1. Cardinality(u) \in N
    BY <1>1
  <2>2. ASSUME NEW n \in N PROVE n \in Nat
    <3>1. PICK s \in SUBSET S : n = Cardinality(s)
      BY <2>2
    <3> QED BY <3>1, <1>2
  <2> HIDE DEF N
  <2> QED BY <2>1, <2>2
<1>4. PICK n \in N : \A m \in N : n <= m
  <2> HIDE DEF N
  <2> QED BY <1>3, LeastExists
<1>5. PICK s \in SUBSET S : s \notin P /\ Cardinality(s) = n
  OBVIOUS
<1>6. ASSUME NEW t \in SUBSET s, t # s PROVE t \in P
  <2>1. t \in SUBSET S /\ Cardinality(t) \in Nat /\ n \in Nat
    BY <1>2, <1>5, <1>6
  <2>2. Cardinality(t) <= n /\ Cardinality(t) # n
    BY <1>2, <1>5, <1>6, FS_Subset
  <2>3. ~ (n <= Cardinality(t))
    BY <2>1, <2>2, SMTT(30)
  <2>4. Cardinality(t) \notin N
    <3> HIDE DEF N
    <3> QED BY <1>4, <2>3
  <2> QED BY <2>1, <2>4
<1> QED BY <1>5, <1>6

\* The indices of s without the last one.
Before(s) == s \ {Max(s)}

\* The tree of the entries of B with an index in s, when t is the tree of the ones
\* before the last.
Step(A, B, s, t) == IF s = {} THEN A ELSE mergeLeaf(B[Max(s)], t)

\* The function a merge computes: g gives the tree of the entries with an index
\* in a subset of S.
Merges(g, A, B, S) == g = [s \in SUBSET S |-> Step(A, B, s, g[Before(s)])]

\* The tree of the entries with an index in S.
Merged(A, B, S) == (CHOOSE g : Merges(g, A, B, S))[S]

\* The merge of the library's fold is that function.
LEMMA MergeIs ==
  ASSUME NEW A, NEW B
  PROVE  mergeLeaves(A, B) = Merged(A, B, DOMAIN B)
BY SMTT(30) DEF mergeLeaves, MapThenFoldSet, Merged, Merges, Step, Before

\* A finite set of indices has a greatest one.
LEMMA MaxFacts ==
  ASSUME NEW S \in SUBSET Nat, IsFiniteSet(S), S # {}
  PROVE  Max(S) \in S
<1> DEFINE Has(t) == \E r \in t : \A q \in t : r >= q
           P == {t \in SUBSET S : t # {} => Has(t)}
<1>1. ASSUME NEW s \in SUBSET S, \A t \in SUBSET s : t # s => t \in P
      PROVE  s \in P
  <2>1. SUFFICES ASSUME s # {} PROVE Has(s)
    OBVIOUS
  <2>2. PICK m : m \in s
    BY <2>1
  <2> DEFINE u == s \ {m}
  <2>3. u \in SUBSET s /\ u # s /\ \A q \in s : q = m \/ q \in u
    BY <2>2
  <2>4. u # {} => Has(u)
    <3> HIDE DEF Has, u
    <3> QED BY <1>1, <2>3
  <2>5. \A q \in s : q \in Nat
    OBVIOUS
  <2>6. CASE u = {}
    <3>1. \A q \in s : q = m
      BY <2>3, <2>6
    <3> QED BY <2>2, <2>5, <3>1, SMTT(30)
  <2>7. CASE u # {}
    <3>1. PICK x \in u : \A q \in u : x >= q
      BY <2>4, <2>7
    <3>2. x \in s /\ x \in Nat /\ m \in Nat
      BY <2>2, <2>5, <3>1
    <3> HIDE DEF P, u
    <3>3. CASE x >= m
      <4>1. \A q \in s : x >= q
        BY <2>3, <3>1, <3>3
      <4> QED BY <3>2, <4>1
    <3>4. CASE ~ (x >= m)
      <4>1. \A q \in s : m >= q
        BY <2>3, <2>5, <3>1, <3>2, <3>4, SMTT(30)
      <4> QED BY <2>2, <4>1
    <3> QED BY <3>3, <3>4
  <2> QED BY <2>6, <2>7
<1> HIDE DEF P, Has
<1>2. SUBSET S \subseteq P
  BY <1>1, SubsetInduction
<1>3. Has(S)
  BY <1>2 DEF P
<1> QED BY <1>3 DEF Max, Has

\* So has every part of such a set.
LEMMA PartFacts ==
  ASSUME NEW S \in SUBSET Nat, IsFiniteSet(S), NEW s \in SUBSET S
  PROVE  /\ s \in SUBSET Nat /\ IsFiniteSet(s)
         /\ s # {} => Max(s) \in s /\ Before(s) \in SUBSET s /\ Before(s) # s
<1>1. s \in SUBSET Nat /\ IsFiniteSet(s)
  BY FS_Subset
<1>2. s # {} => Max(s) \in s
  BY <1>1, MaxFacts
<1> QED BY <1>1, <1>2 DEF Before

\* The functions for a set and for a part of it agree on the part.
Agree(A, B, S, T) ==
  \A g, h : Merges(g, A, B, S) /\ Merges(h, A, B, T) => g[T] = h[T]

\* They do, by induction over the part.
LEMMA MergesAgree ==
  ASSUME NEW A, NEW B, NEW S, NEW T \in SUBSET Nat, IsFiniteSet(T), T \subseteq S
  PROVE  Agree(A, B, S, T)
<1> SUFFICES ASSUME NEW g, NEW h, Merges(g, A, B, S), Merges(h, A, B, T)
             PROVE  g[T] = h[T]
  BY DEF Agree
<1>1. \A s \in SUBSET S : g[s] = Step(A, B, s, g[Before(s)])
  BY DEF Merges
<1>2. \A s \in SUBSET T : h[s] = Step(A, B, s, h[Before(s)])
  BY DEF Merges
<1> DEFINE P == {t \in SUBSET T : g[t] = h[t]}
<1>3. ASSUME NEW s \in SUBSET T, \A t \in SUBSET s : t # s => t \in P PROVE s \in P
  <2> DEFINE u == Before(s)
  <2>1. s \in SUBSET S
    OBVIOUS
  <2>2. g[s] = Step(A, B, s, g[u])
    BY <2>1, <1>1
  <2>3. h[s] = Step(A, B, s, h[u])
    BY <1>2
  <2>4. s # {} => u \in P
    <3>1. ASSUME s # {} PROVE u \in SUBSET s /\ u # s
      BY <3>1, PartFacts
    <3> HIDE DEF P, u
    <3> QED BY <1>3, <3>1
  <2> QED BY <2>2, <2>3, <2>4 DEF Step
<1> HIDE DEF P
<1>4. SUBSET T \subseteq P
  BY <1>3, SubsetInduction
<1> QED BY <1>4 DEF P

\* One step of the merge, from the tree of the entries before the last one.
Fold(A, B, s) == Step(A, B, s, Merged(A, B, Before(s)))

\* If the functions exist for a set and its parts, Merged obeys the recursion.
LEMMA MergedRecursion ==
  ASSUME NEW A, NEW B, NEW S \in SUBSET Nat, IsFiniteSet(S),
         \A t \in SUBSET S : \E g : Merges(g, A, B, t)
  PROVE  Merged(A, B, S) = Fold(A, B, S)
<1> DEFINE u == Before(S)
           g == CHOOSE g : Merges(g, A, B, S)
           h == CHOOSE h : Merges(h, A, B, u)
<1>1. Merges(g, A, B, S) /\ S \in SUBSET S
  OBVIOUS
<1>2. Merges(h, A, B, u) /\ u \in SUBSET S
  BY DEF Before
<1>3. u \in SUBSET Nat /\ IsFiniteSet(u)
  BY <1>2, PartFacts
<1>4. Merged(A, B, S) = g[S] /\ Merged(A, B, u) = h[u]
  BY DEF Merged
<1> HIDE DEF g, h
<1>5. g[S] = Step(A, B, S, g[u])
  BY <1>1 DEF Merges
<1> HIDE DEF u
<1>6. g[u] = h[u]
  <2>1. u \subseteq S
    BY <1>2
  <2>2. Agree(A, B, S, u)
    BY <1>3, <2>1, MergesAgree
  <2> QED BY <1>1, <1>2, <2>2 DEF Agree
<1> QED BY <1>4, <1>5, <1>6 DEF Fold, u

\* There is such a function for every finite set of indices.
LEMMA MergesExist ==
  ASSUME NEW A, NEW B, NEW S \in SUBSET Nat, IsFiniteSet(S)
  PROVE  \A s \in SUBSET S : \E g : Merges(g, A, B, s)
<1> DEFINE P == {s \in SUBSET S : \E g : Merges(g, A, B, s)}
<1>1. ASSUME NEW s \in SUBSET S, \A t \in SUBSET s : t # s => t \in P PROVE s \in P
  <2>1. ASSUME NEW u \in SUBSET s, u # s PROVE Merged(A, B, u) = Fold(A, B, u)
    <3>1. \A t \in SUBSET u : t \in SUBSET s /\ t # s
      BY <2>1
    <3>2. \A t \in SUBSET u : \E g : Merges(g, A, B, t)
      BY <1>1, <3>1
    <3>3. u \in SUBSET Nat /\ IsFiniteSet(u)
      BY PartFacts
    <3> HIDE DEF P
    <3> QED BY <3>2, <3>3, MergedRecursion
  <2> DEFINE k == [t \in SUBSET s |-> Fold(A, B, t)]
             e == [t \in SUBSET s |-> Step(A, B, t, k[Before(t)])]
  <2>2. ASSUME NEW t \in SUBSET s PROVE k[t] = e[t]
    <3> DEFINE u == Before(t)
    <3>1. CASE t = {}
      BY <3>1 DEF Fold, Step
    <3>2. CASE t # {}
      <4>1. u \in SUBSET s /\ u # s
        <5>1. t \in SUBSET S
          OBVIOUS
        <5>2. Before(t) \in SUBSET t /\ Before(t) # t
          BY <3>2, <5>1, PartFacts
        <5> QED BY <5>2
      <4>2. k[u] = Merged(A, B, u)
        <5> HIDE DEF u
        <5> QED BY <4>1, <2>1
      <4>3. k[t] = Step(A, B, t, Merged(A, B, u))
        <5>1. k[t] = Fold(A, B, t)
          OBVIOUS
        <5> HIDE DEF k
        <5> QED BY <5>1 DEF Fold
      <4>4. e[t] = Step(A, B, t, k[u])
        <5> HIDE DEF k
        <5> QED BY SMTT(30)
      <4> QED BY <4>2, <4>3, <4>4
    <3> QED BY <3>1, <3>2
  <2>3. k = e
    BY <2>2
  <2>4. Merges(k, A, B, s)
    BY <2>3 DEF Merges
  <2> QED BY <2>4
<1> HIDE DEF P
<1>2. SUBSET S \subseteq P
  BY <1>1, SubsetInduction
<1> QED BY <1>2 DEF P

\* So Merged obeys the recursion.
LEMMA MergedIs ==
  ASSUME NEW A, NEW B, NEW S \in SUBSET Nat, IsFiniteSet(S)
  PROVE  Merged(A, B, S) = Fold(A, B, S)
BY MergesExist, MergedRecursion

\* No two leaves of a tree have the same id or the same leaf value.
Distinct(t) ==
  \A i, j \in DOMAIN t : i # j => t[i].id # t[j].id /\ t[i].leaf # t[j].leaf

\* The tree t begins with the leaves A, goes on with entries of B, and has nothing
\* twice.
Appended(t, A, B) ==
  /\ t \in Seq(Commitments)
  /\ Len(A) <= Len(t) /\ \A i \in 1 .. Len(A) : t[i] = A[i]
  /\ \A i \in 1 .. Len(t) : i > Len(A) => t[i] \in Range(B)
  /\ Distinct(t)

\* One entry is appended, or skipped.
LEMMA MergeLeafFacts ==
  ASSUME NEW A \in Seq(Commitments), NEW B, NEW t, Appended(t, A, B),
         NEW c \in Commitments, c \in Range(B)
  PROVE  Appended(mergeLeaf(c, t), A, B)
<1> DEFINE r == Append(t, c)
           n == Len(t)
<1>1. t \in Seq(Commitments) /\ n \in Nat /\ Len(A) \in Nat /\ Len(A) <= n
  BY SMTT(30) DEF Appended
<1>2. CASE ~ fits(t, c)
  BY <1>2 DEF mergeLeaf
<1>3. CASE fits(t, c)
  <2>1. mergeLeaf(c, t) = r
    BY <1>3 DEF mergeLeaf
  <2>2. /\ r \in Seq(Commitments) /\ Len(r) = n + 1 /\ DOMAIN r = 1 .. (n + 1)
        /\ r[n + 1] = c /\ \A i \in 1 .. n : r[i] = t[i]
    BY <1>1, SMTT(30)
  <2> HIDE DEF r
  <2>3. \A i \in 1 .. Len(A) : i \in 1 .. n /\ t[i] = A[i]
    BY <1>1, SMTT(30) DEF Appended
  <2>4. \A i \in 1 .. (n + 1) : i = n + 1 \/ i \in 1 .. n
    BY <1>1, SMTT(30)
  <2>5. \A i \in 1 .. (n + 1) : i > Len(A) => r[i] \in Range(B)
    BY <2>2, <2>4 DEF Appended
  <2>6. \A i \in 1 .. n : t[i].id # c.id /\ t[i].leaf # c.leaf
    <3>1. DOMAIN t = 1 .. n
      BY <1>1, SMTT(30)
    <3> QED BY <1>3, <3>1 DEF fits
  <2>7. ASSUME NEW i \in 1 .. (n + 1), NEW j \in 1 .. (n + 1), i # j
        PROVE  r[i].id # r[j].id /\ r[i].leaf # r[j].leaf
    <3>1. CASE i = n + 1
      <4>1. j \in 1 .. n
        BY <2>4, <2>7, <3>1
      <4>2. r[i] = c /\ r[j] = t[j]
        BY <2>2, <3>1, <4>1
      <4> QED BY <2>6, <4>1, <4>2
    <3>2. CASE j = n + 1
      <4>1. i \in 1 .. n
        BY <2>4, <2>7, <3>2
      <4>2. r[j] = c /\ r[i] = t[i]
        BY <2>2, <3>2, <4>1
      <4> QED BY <2>6, <4>1, <4>2
    <3>3. CASE i \in 1 .. n /\ j \in 1 .. n
      <4>1. DOMAIN t = 1 .. n /\ Distinct(t)
        BY <1>1, SMTT(30) DEF Appended
      <4>2. r[i] = t[i] /\ r[j] = t[j]
        BY <2>2, <3>3
      <4> QED BY <2>7, <3>3, <4>1, <4>2 DEF Distinct
    <3> QED BY <2>4, <3>1, <3>2, <3>3
  <2>8. Distinct(r)
    BY <2>2, <2>7 DEF Distinct
  <2>9. Len(A) <= n + 1
    BY <1>1, SMTT(30)
  <2> QED BY <2>1, <2>2, <2>3, <2>5, <2>8, <2>9 DEF Appended
<1> QED BY <1>2, <1>3

\* What mergeLeaves returns: the leaves in their places, then new ones.
LEMMA MergeFacts ==
  ASSUME NEW A \in Seq(Commitments), NEW B \in Seq(Commitments), Distinct(A)
  PROVE  Appended(mergeLeaves(A, B), A, B)
<1> DEFINE D == DOMAIN B
           P == {s \in SUBSET D : Appended(Merged(A, B, s), A, B)}
<1>1. D \in SUBSET Nat /\ IsFiniteSet(D)
  <2>1. Len(B) \in Nat /\ D = 1 .. Len(B) /\ D \in SUBSET Nat
    BY SMTT(30)
  <2> HIDE DEF D
  <2>2. IsFiniteSet(1 .. Len(B))
    BY <2>1, FS_Interval, SMTT(30)
  <2> QED BY <2>1, <2>2
<1>2. \A i \in D : B[i] \in Commitments /\ B[i] \in Range(B)
  BY SMTT(30) DEF Range
<1>3. Appended(A, A, B)
  BY SMTT(30) DEF Appended
<1> HIDE DEF D
<1>4. ASSUME NEW s \in SUBSET D, \A t \in SUBSET s : t # s => t \in P PROVE s \in P
  <2>1. /\ s \in SUBSET Nat /\ IsFiniteSet(s)
        /\ s # {} => Max(s) \in s /\ Before(s) \in SUBSET s /\ Before(s) # s
    BY <1>1, PartFacts
  <2>2. Merged(A, B, s) = Step(A, B, s, Merged(A, B, Before(s)))
    BY <2>1, MergedIs DEF Fold
  <2>3. CASE s = {}
    BY <1>3, <2>2, <2>3 DEF Step
  <2>4. CASE s # {}
    <3>1. Appended(Merged(A, B, Before(s)), A, B)
      BY <1>4, <2>1, <2>4
    <3>2. B[Max(s)] \in Commitments /\ B[Max(s)] \in Range(B)
      BY <1>2, <2>1, <2>4
    <3>3. Appended(mergeLeaf(B[Max(s)], Merged(A, B, Before(s))), A, B)
      BY <3>1, <3>2, MergeLeafFacts
    <3> QED BY <2>2, <2>4, <3>3 DEF Step
  <2> QED BY <2>3, <2>4
<1> HIDE DEF P
<1>5. SUBSET D \subseteq P
  BY <1>1, <1>4, SubsetInduction
<1>6. Appended(Merged(A, B, D), A, B)
  BY <1>5 DEF P
<1> QED BY <1>6, MergeIs DEF D

-----------------------------------------------------------------------------

\* Leaf x is among the first n of l; x comes before y among them.
Among(x, l, n) == \E k \in 1 .. n : l[k] = x
Precedes(x, y, l, n) == \E k, m \in 1 .. n : k < m /\ l[k] = x /\ l[m] = y

\* The leaves a are among the first n of l, in the same order.
InOrder(a, l, n) ==
  /\ \A i \in 1 .. Len(a) : Among(a[i], l, n)
  /\ \A i, j \in 1 .. Len(a) : i < j => Precedes(a[i], a[j], l, n)

\* What the tick has found out: every leaf it looked up is kept, was read as null
\* or has ended, and ended attestations do not come back; so a file whose
\* commitment is a leaf already finds that leaf kept, or read as null.
Kept ==
  /\ looked <= Len(leaves)
  /\ InOrder(active, leaves, looked)
  /\ \A k \in 1 .. looked :
       leaves[k] \in Range(active) \cup blinded \/ ~ IsValid(leaves[k], ledger)
  /\ \A i \in DOMAIN eligible :
       eligible[i] \in Range(leaves) => eligible[i] \in Range(active) \cup blinded

\* The lists of commitments, and that a tick begins with empty ones.
Lists ==
  /\ leaves \in Seq(Commitments) /\ looked \in Nat
  /\ active \in Seq(Commitments) /\ eligible \in Seq(Commitments)
  /\ \A file \in inbox \cup todo : file.c \in Commitments
  /\ pc = "idle" => looked = 0 /\ active = << >> /\ eligible = << >>

OrderInv ==
  /\ Lists /\ LeavesAreDistinct
  /\ pc \in {"check", "wait", "save"} => Kept

\* At first there are no leaves.
LEMMA OrderInit == Init => OrderInv
BY SMTT(30) DEF Init, OrderInv, Lists, LeavesAreDistinct

\* A step that leaves the leaves and the lists alone: attestations are revoked,
\* commitments are queued or archived, roots are sent and land.
LEMMA OrderRest ==
  ASSUME OrderInv, UNCHANGED <<leaves, looked, active, eligible, todo, ledger, blinded>>,
         revoked \subseteq revoked',
         \A file \in inbox' : file \in inbox \/ file.c \in Commitments,
         pc' = pc \/ pc' = "archive" \/ (pc \in {"check", "wait"} /\ pc' # "idle")
  PROVE  OrderInv'
<1>1. Lists'
  BY DEF OrderInv, Lists
<1>2. LeavesAreDistinct'
  BY SMTT(30) DEF OrderInv, LeavesAreDistinct
<1>3. ASSUME pc' \in {"check", "wait", "save"} PROVE Kept'
  <2>1. Kept
    BY <1>3 DEF OrderInv
  <2>2. \A c : ~ IsValid(c, ledger) => ~ IsValid(c, ledger)'
    BY DEF IsValid
  <2>3. InOrder(active, leaves, looked)'
    BY <2>1 DEF Kept
  <2>4. \A k \in (1 .. looked)' :
          leaves'[k] \in Range(active)' \cup blinded' \/ ~ IsValid(leaves[k], ledger)'
    BY <2>1, <2>2 DEF Kept
  <2>5. \A i \in DOMAIN eligible' :
          eligible'[i] \in Range(leaves)' => eligible'[i] \in Range(active)' \cup blinded'
    BY <2>1 DEF Kept
  <2>6. (looked <= Len(leaves))'
    BY <2>1 DEF Kept
  <2> QED BY <2>3, <2>4, <2>5, <2>6 DEF Kept
<1> QED BY <1>1, <1>2, <1>3 DEF OrderInv

\* The tick ends, fails or is cut off.
LEMMA OrderEnds ==
  ASSUME OrderInv, TickEnds, leaves' = leaves, inbox' \subseteq inbox
  PROVE  OrderInv'
<1>1. Lists'
  BY SMTT(30) DEF OrderInv, Lists, TickEnds
<1>2. LeavesAreDistinct'
  BY SMTT(30) DEF OrderInv, LeavesAreDistinct
<1> QED BY <1>1, <1>2 DEF OrderInv, TickEnds

\* A tick starts with empty lists.
LEMMA OrderStart ==
  ASSUME OrderInv, StartTick
  PROVE  OrderInv'
<1>1. /\ UNCHANGED <<leaves, inbox, looked, active, eligible>> /\ todo' = inbox
      /\ pc = "idle" /\ pc' = "check"
  BY DEF StartTick, data
<1>2. looked = 0 /\ active = << >> /\ eligible = << >> /\ leaves \in Seq(Commitments)
  BY <1>1 DEF OrderInv, Lists
<1>3. Lists'
  BY <1>1 DEF OrderInv, Lists
<1>4. LeavesAreDistinct'
  BY <1>1, SMTT(30) DEF OrderInv, LeavesAreDistinct
<1>5. Kept'
  <2>1. looked' = 0 /\ active' = << >> /\ eligible' = << >> /\ leaves' \in Seq(Commitments)
    BY <1>1, <1>2
  <2> QED BY <2>1, SMTT(30) DEF Kept, InOrder
<1> QED BY <1>3, <1>4, <1>5 DEF OrderInv

\* A leaf of the first n + 1 is added to the ones of the first n.
LEMMA InOrderGrows ==
  ASSUME NEW S, NEW a \in Seq(S), NEW l \in Seq(S), NEW n \in Nat, InOrder(a, l, n),
         l[n + 1] \in S
  PROVE  InOrder(a, l, n + 1) /\ InOrder(Append(a, l[n + 1]), l, n + 1)
<1> DEFINE r == Append(a, l[n + 1])
           h == Len(a)
           y == l[n + 1]
<1>1. /\ h \in Nat /\ Len(r) = h + 1
      /\ r[h + 1] = y /\ \A i \in 1 .. h : r[i] = a[i]
  BY SMTT(30)
<1>2. /\ n + 1 \in 1 .. (n + 1)
      /\ \A k \in 1 .. n : k \in 1 .. (n + 1) /\ k < n + 1
      /\ \A i \in 1 .. (h + 1) : i = h + 1 \/ i \in 1 .. h
      /\ \A i \in 1 .. (h + 1) : ~ (h + 1 < i)
  BY <1>1, SMTT(30)
<1>3. \A x : Among(x, l, n) => Among(x, l, n + 1) /\ Precedes(x, y, l, n + 1)
  BY <1>2 DEF Among, Precedes
<1>4. \A x, z : Precedes(x, z, l, n) => Precedes(x, z, l, n + 1)
  BY <1>2 DEF Precedes
<1>5. Among(y, l, n + 1)
  BY <1>2 DEF Among
<1>6. InOrder(a, l, n + 1)
  BY <1>3, <1>4 DEF InOrder
<1>7. /\ \A i \in 1 .. h : Among(a[i], l, n)
      /\ \A i, j \in 1 .. h : i < j => Precedes(a[i], a[j], l, n)
  BY DEF InOrder
<1> HIDE DEF r, h, y
<1>8. ASSUME NEW i \in 1 .. (h + 1) PROVE Among(r[i], l, n + 1)
  BY <1>1, <1>2, <1>3, <1>5, <1>7
<1>9. ASSUME NEW i \in 1 .. (h + 1), NEW j \in 1 .. (h + 1), i < j
      PROVE  Precedes(r[i], r[j], l, n + 1)
  <2>1. i \in 1 .. h /\ r[i] = a[i]
    BY <1>1, <1>2, <1>9
  <2>2. CASE j = h + 1
    BY <1>1, <1>3, <1>7, <2>1, <2>2
  <2>3. CASE j \in 1 .. h
    <3>1. r[j] = a[j] /\ Precedes(a[i], a[j], l, n)
      BY <1>1, <1>7, <1>9, <2>1, <2>3
    <3> QED BY <1>4, <2>1, <3>1
  <2> QED BY <1>2, <2>2, <2>3
<1>10. InOrder(r, l, n + 1)
  BY <1>1, <1>8, <1>9 DEF InOrder
<1> QED BY <1>6, <1>10 DEF r, y

\* What an entry that is appended adds to the set of them.
LEMMA AppendRange ==
  ASSUME NEW S, NEW a \in Seq(S), NEW c \in S
  PROVE  /\ Append(a, c) \in Seq(S)
         /\ Range(Append(a, c)) = Range(a) \cup {c}
<1> DEFINE r == Append(a, c)
           h == Len(a)
<1>1. /\ h \in Nat /\ DOMAIN a = 1 .. h /\ DOMAIN r = 1 .. (h + 1)
      /\ r[h + 1] = c /\ \A i \in 1 .. h : r[i] = a[i]
  BY SMTT(30)
<1>2. /\ h + 1 \in 1 .. (h + 1)
      /\ \A i \in 1 .. h : i \in 1 .. (h + 1)
      /\ \A i \in 1 .. (h + 1) : i = h + 1 \/ i \in 1 .. h
  BY <1>1, SMTT(30)
<1> HIDE DEF r, h
<1>3. \A x : x \in Range(r) <=> x \in Range(a) \/ x = c
  BY <1>1, <1>2 DEF Range
<1>4. Append(a, c) \in Seq(S)
  BY SMTT(30)
<1> QED BY <1>3, <1>4 DEF r

\* The next leaf is looked up.
LEMMA OrderLeaf ==
  ASSUME OrderInv, CheckLeaf
  PROVE  OrderInv'
<1> DEFINE c == leaves[looked + 1]
<1>1. /\ pc = "check" /\ pc' = "check" /\ looked < Len(leaves) /\ looked' = looked + 1
      /\ UNCHANGED <<leaves, inbox, todo, eligible, ledger, revoked>>
  BY DEF CheckLeaf, chain, data
<1>2. Lists /\ LeavesAreDistinct /\ Kept
  BY <1>1 DEF OrderInv
<1>3. /\ leaves \in Seq(Commitments) /\ looked \in Nat /\ active \in Seq(Commitments)
      /\ InOrder(active, leaves, looked)
  BY <1>2 DEF Lists, Kept
<1>4. c \in Commitments /\ looked + 1 \in Nat /\ looked + 1 <= Len(leaves)
      /\ \A k \in 1 .. (looked + 1) : k \in 1 .. looked \/ k = looked + 1
  BY <1>1, <1>3, SMTT(30)
<1> HIDE DEF c
<1>5. PICK valid \in BOOLEAN : /\ isValidLeaf(c, valid)
                               /\ active' = IF valid THEN Append(active, c) ELSE active
  BY DEF CheckLeaf, c
<1>6. /\ valid => active' = Append(active, c)
      /\ ~ valid => active' = active
      /\ blinded \subseteq blinded'
      /\ valid \/ c \in blinded' \/ ~ IsValid(c, ledger)
  BY <1>5 DEF isValidLeaf
<1>7. /\ Append(active, c) \in Seq(Commitments)
      /\ Range(Append(active, c)) = Range(active) \cup {c}
  BY <1>3, <1>4, AppendRange, SMTT(30)
<1>8. InOrder(active, leaves, looked + 1) /\ InOrder(Append(active, c), leaves, looked + 1)
  BY <1>3, <1>4, InOrderGrows DEF c
<1>9. /\ active' \in Seq(Commitments) /\ Range(active) \subseteq Range(active)'
      /\ InOrder(active', leaves, looked + 1)
      /\ c \in Range(active)' \cup blinded' \/ ~ IsValid(c, ledger)
  BY <1>3, <1>6, <1>7, <1>8
<1>10. Lists'
  BY <1>1, <1>2, <1>4, <1>9 DEF Lists
<1>11. LeavesAreDistinct'
  BY <1>1, <1>2, SMTT(30) DEF LeavesAreDistinct
<1>12. Kept'
  <2>1. \A x : IsValid(x, ledger)' <=> IsValid(x, ledger)
    BY <1>1 DEF IsValid
  <2>2. ASSUME NEW k \in 1 .. (looked + 1)
        PROVE  leaves[k] \in Range(active)' \cup blinded' \/ ~ IsValid(leaves[k], ledger)
    <3>1. CASE k = looked + 1
      BY <1>9, <3>1 DEF c
    <3>2. CASE k \in 1 .. looked
      BY <1>2, <1>6, <1>9, <3>2 DEF Kept
    <3> QED BY <1>4, <3>1, <3>2
  <2>3. InOrder(active, leaves, looked)'
    BY <1>1, <1>9
  <2>4. \A k \in (1 .. looked)' :
          leaves'[k] \in Range(active)' \cup blinded' \/ ~ IsValid(leaves[k], ledger)'
    BY <1>1, <2>1, <2>2
  <2>5. \A i \in DOMAIN eligible' :
          eligible'[i] \in Range(leaves)' => eligible'[i] \in Range(active)' \cup blinded'
    BY <1>1, <1>2, <1>6, <1>9 DEF Kept
  <2>6. (looked <= Len(leaves))'
    BY <1>1, <1>4
  <2> QED BY <2>3, <2>4, <2>5, <2>6 DEF Kept
<1> QED BY <1>10, <1>11, <1>12 DEF OrderInv

\* The next file is looked up, when every leaf has been.
LEMMA OrderFile ==
  ASSUME OrderInv, CheckFile
  PROVE  OrderInv'
<1>1. /\ pc = "check" /\ pc' = "check" /\ looked = Len(leaves)
      /\ UNCHANGED <<leaves, inbox, looked, active, ledger, revoked>>
  BY DEF CheckFile, chain, data
<1>2. Lists /\ LeavesAreDistinct /\ Kept
  BY <1>1 DEF OrderInv
<1>3. PICK file \in todo, valid \in BOOLEAN :
        /\ todo' = todo \ {file} /\ isValidLeaf(file.c, valid)
        /\ eligible' = IF valid THEN Append(eligible, file.c) ELSE eligible
  BY DEF CheckFile
<1> DEFINE c == file.c
<1>4. c \in Commitments /\ eligible \in Seq(Commitments) /\ leaves \in Seq(Commitments)
  BY <1>2, <1>3 DEF Lists
<1>5. /\ valid => eligible' = Append(eligible, c) /\ IsValid(c, ledger)
      /\ ~ valid => eligible' = eligible
      /\ blinded \subseteq blinded'
  BY <1>3 DEF isValidLeaf
<1> HIDE DEF c
<1>6. /\ Append(eligible, c) \in Seq(Commitments)
      /\ Range(Append(eligible, c)) = Range(eligible) \cup {c}
  BY <1>4, AppendRange, SMTT(30)
<1>7. Lists'
  BY <1>1, <1>2, <1>3, <1>4, <1>5, <1>6 DEF Lists
<1>8. LeavesAreDistinct'
  BY <1>1, <1>2, SMTT(30) DEF LeavesAreDistinct
<1>9. \A x \in Range(leaves) :
        x \in Range(active) \cup blinded \/ ~ IsValid(x, ledger)
  <2>1. DOMAIN leaves = 1 .. looked
    BY <1>1, <1>4, SMTT(30)
  <2> QED BY <1>2, <2>1 DEF Kept, Range
<1>10. ASSUME NEW x \in Range(eligible)', x \in Range(leaves)
       PROVE  x \in Range(active) \cup blinded'
  <2>1. CASE x \in Range(eligible)
    BY <1>2, <1>5, <1>10, <2>1 DEF Kept, Range
  <2>2. CASE valid /\ x = c
    BY <1>5, <1>9, <1>10, <2>2
  <2> QED BY <1>5, <1>6, <2>1, <2>2
<1>11. Kept'
  <2>1. \A x : IsValid(x, ledger)' <=> IsValid(x, ledger)
    BY <1>1 DEF IsValid
  <2>2. InOrder(active, leaves, looked)'
    BY <1>1, <1>2 DEF Kept
  <2>3. \A k \in (1 .. looked)' :
          leaves'[k] \in Range(active)' \cup blinded' \/ ~ IsValid(leaves[k], ledger)'
    BY <1>1, <1>2, <1>5, <2>1 DEF Kept
  <2>4. \A i \in DOMAIN eligible' :
          eligible'[i] \in Range(leaves)' => eligible'[i] \in Range(active)' \cup blinded'
    BY <1>1, <1>10 DEF Range
  <2>5. (looked <= Len(leaves))'
    BY <1>1, <1>2 DEF Kept
  <2> QED BY <2>2, <2>3, <2>4, <2>5 DEF Kept
<1> QED BY <1>1, <1>7, <1>8, <1>11 DEF OrderInv

\* What a save may do to the leaves.
OrderKept ==
  /\ \A i, j \in DOMAIN leaves' :
       i < j /\ leaves'[j] \in Range(leaves) \ blinded =>
         \E k, l \in DOMAIN leaves :
           k < l /\ leaves[k] = leaves'[i] /\ leaves[l] = leaves'[j]
  /\ LeavesAreDistinct'

\* The tree is saved.  A leaf that was there and was never read as null is among
\* the ones that were kept, so all that is before it is too.
LEMMA OrderSave ==
  ASSUME OrderInv, save
  PROVE  OrderKept /\ OrderInv'
<1> DEFINE t == mergeLeaves(active, eligible)
           n == Len(active)
<1>1. /\ pc = "save" /\ pc' = "archive" /\ leaves' = t
      /\ UNCHANGED <<inbox, looked, todo, active, eligible>>
  BY DEF save, work, tree, priorLeaves
<1>2. Lists /\ LeavesAreDistinct /\ Kept
  BY <1>1 DEF OrderInv
<1>3. /\ leaves \in Seq(Commitments) /\ looked \in Nat /\ looked <= Len(leaves)
      /\ active \in Seq(Commitments) /\ eligible \in Seq(Commitments)
      /\ InOrder(active, leaves, looked)
  BY <1>2 DEF Lists, Kept
<1>4. /\ DOMAIN active = 1 .. n /\ n \in Nat
      /\ \A k \in 1 .. looked : k \in DOMAIN leaves
      /\ \A k, l \in 1 .. looked : k < l => k # l
  BY <1>3, SMTT(30)
<1>5. \A i, j \in 1 .. n : i < j => Precedes(active[i], active[j], leaves, looked)
  BY <1>3 DEF InOrder
<1>6. Distinct(active)
  <2>1. ASSUME NEW i \in 1 .. n, NEW j \in 1 .. n, i < j
        PROVE  active[i].id # active[j].id /\ active[i].leaf # active[j].leaf
    <3>1. Precedes(active[i], active[j], leaves, looked)
      BY <1>5, <2>1
    <3>2. PICK k \in 1 .. looked, l \in 1 .. looked :
            k < l /\ leaves[k] = active[i] /\ leaves[l] = active[j]
      BY <3>1 DEF Precedes
    <3>3. k \in DOMAIN leaves /\ l \in DOMAIN leaves /\ k # l
      BY <1>4, <3>2
    <3>4. leaves[k].id # leaves[l].id /\ leaves[k].leaf # leaves[l].leaf
      BY <1>2, <3>3 DEF LeavesAreDistinct
    <3> QED BY <3>2, <3>4
  <2>2. \A i, j \in 1 .. n : i # j => i < j \/ j < i
    BY <1>4, SMTT(30)
  <2> QED BY <1>4, <2>1, <2>2 DEF Distinct
<1>7. Appended(t, active, eligible)
  BY <1>3, <1>6, MergeFacts
<1> HIDE DEF t
<1>8. /\ t \in Seq(Commitments) /\ Distinct(t) /\ DOMAIN t = 1 .. Len(t) /\ n <= Len(t)
      /\ \A i \in 1 .. n : t[i] = active[i]
      /\ \A i \in 1 .. Len(t) : i > n => t[i] \in Range(eligible)
  <2>1. DOMAIN t = 1 .. Len(t)
    BY <1>7, SMTT(30) DEF Appended
  <2> QED BY <1>7, <2>1 DEF Appended
<1>9. LeavesAreDistinct'
  BY <1>1, <1>8, SMTT(30) DEF LeavesAreDistinct, Distinct
<1>10. ASSUME NEW i \in DOMAIN t, NEW j \in DOMAIN t, i < j,
              t[j] \in Range(leaves) \ blinded
       PROVE  Precedes(t[i], t[j], leaves, looked)
  <2>1. i \in 1 .. Len(t) /\ j \in 1 .. Len(t) /\ Len(t) \in Nat
    BY <1>8, SMTT(30)
  <2>2. j \in 1 .. n
    <3>1. SUFFICES ASSUME j > n PROVE FALSE
      BY <1>4, <2>1, SMTT(30)
    <3>2. t[j] \in Range(eligible)
      BY <1>8, <2>1, <3>1
    <3>3. t[j] \in Range(active)
      BY <1>2, <1>10, <3>2 DEF Kept, Range
    <3>4. PICK m \in 1 .. n : t[j] = active[m]
      BY <1>4, <3>3 DEF Range
    <3>5. m \in DOMAIN t /\ m # j
      BY <1>4, <1>8, <2>1, <3>1, <3>4, SMTT(30)
    <3>6. t[m] = t[j]
      BY <1>8, <3>4
    <3> QED BY <1>8, <3>5, <3>6 DEF Distinct
  <2>3. i \in 1 .. n
    BY <1>4, <1>10, <2>1, <2>2, SMTT(30)
  <2>4. t[i] = active[i] /\ t[j] = active[j]
    BY <1>8, <2>2, <2>3
  <2>5. Precedes(active[i], active[j], leaves, looked)
    BY <1>5, <1>10, <2>2, <2>3
  <2> QED BY <2>4, <2>5
<1>11. OrderKept
  <2>1. SUFFICES ASSUME NEW i \in DOMAIN leaves', NEW j \in DOMAIN leaves', i < j,
                        leaves'[j] \in Range(leaves) \ blinded
                 PROVE  \E k, l \in DOMAIN leaves :
                          k < l /\ leaves[k] = leaves'[i] /\ leaves[l] = leaves'[j]
    BY <1>9 DEF OrderKept
  <2>2. /\ i \in DOMAIN t /\ j \in DOMAIN t /\ t[i] = leaves'[i] /\ t[j] = leaves'[j]
        /\ t[j] \in Range(leaves) \ blinded
    BY <1>1, <2>1
  <2>3. Precedes(t[i], t[j], leaves, looked)
    BY <1>10, <2>1, <2>2
  <2>4. PICK k \in 1 .. looked, l \in 1 .. looked :
          k < l /\ leaves[k] = t[i] /\ leaves[l] = t[j]
    BY <2>3 DEF Precedes
  <2>5. k \in DOMAIN leaves /\ l \in DOMAIN leaves
    BY <1>4, <2>4
  <2> QED BY <2>2, <2>4, <2>5
<1>12. Lists'
  BY <1>1, <1>2, <1>8 DEF Lists
<1> QED BY <1>1, <1>9, <1>11, <1>12 DEF OrderInv

\* Every step keeps the invariant, and changes the leaves only as it may.
LEMMA OrderStep == OrderInv /\ [Next]_vars => OrderInv' /\ [OrderKept]_leaves
<1>. SUFFICES ASSUME OrderInv, [Next]_vars PROVE OrderInv' /\ [OrderKept]_leaves
  OBVIOUS
<1>1. CASE CloseLedger
  BY <1>1, OrderRest DEF CloseLedger, data, tick, work, history
<1>2. CASE \E uid \in Uids : Revoke(uid)
  BY <1>2, OrderRest DEF Revoke, data, tick, work, history
<1>3. CASE \E tx \in txs : update_merkle_root(tx)
  BY <1>3, OrderRest DEF update_merkle_root, data, work, history
<1>4. CASE \E c \in Commitments : Submit(c)
  <2>1. PICK c \in Commitments : Submit(c)
    BY <1>4
  <2>2. \A file \in inbox' : file \in inbox \/ file.c \in Commitments
    BY <2>1, SMTT(30) DEF Submit
  <2> QED BY <2>1, <2>2, OrderRest DEF Submit, chain, tick, work
<1>5. CASE StartTick
  BY <1>5, OrderStart DEF StartTick, data
<1>6. CASE CheckLeaf
  BY <1>6, OrderLeaf DEF CheckLeaf, data
<1>7. CASE CheckFile
  BY <1>7, OrderFile DEF CheckFile, data
<1>8. CASE Publish
  BY <1>8, OrderRest DEF Publish, work, history
<1>9. CASE Confirmed
  BY <1>9, OrderRest DEF Confirmed, chain, data, work, history
<1>10. CASE NotConfirmed
  BY <1>10, OrderEnds DEF NotConfirmed, data
<1>11. CASE save
  BY <1>11, OrderSave
<1>12. CASE archiveInbox
  BY <1>12, OrderEnds DEF archiveInbox
<1>13. CASE TickFails \/ Crash
  BY <1>13, OrderEnds DEF TickFails, Crash, data
<1>14. CASE UNCHANGED vars
  BY <1>14, OrderRest DEF vars, chain, data, tick, work, history
<1>. QED BY <1>1, <1>2, <1>3, <1>4, <1>5, <1>6, <1>7, <1>8, <1>9, <1>10, <1>11,
            <1>12, <1>13, <1>14 DEF Next, TickStep

\* Whatever is submitted, resubmitted, revoked or expires, and wherever ticks fail
\* or the process dies: a tick that saves leaves every leaf that was never read as
\* null behind just those of its predecessors that stay, puts new leaves at the
\* end, and never has an id or a leaf twice.
THEOREM LeavesKeepOrderHolds == Spec => LeavesKeepOrder
BY OrderInit, OrderStep, PTL DEF Spec, LeavesKeepOrder, OrderKept
==============================================================================
