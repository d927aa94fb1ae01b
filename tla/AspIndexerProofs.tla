--------------------------- MODULE AspIndexerProofs ---------------------------
(***************************************************************************)
(* What TLAPS proves of the association set provider.                      *)
(***************************************************************************)
EXTENDS AspIndexer, FiniteSetTheorems, TLAPS

USE ZenonT(20)

-----------------------------------------------------------------------------
(* Finite sets of integers: their maximum, and their elements in order.    *)

\* A set of naturals that has an element has a least one.
LEMMA LeastExists ==
  ASSUME NEW N \in SUBSET Nat, N # {}
  PROVE  \E n \in N : \A m \in N : n <= m
<1> DEFINE Less == OpToRel(<, Nat)
<1>1. IsWellFoundedOn(Less, Nat)
  BY NatLessThanWellFounded
<1> HIDE DEF Less
<1>2. PICK n \in N : \A m \in N : ~ (<<m, n>> \in Less)
  BY <1>1, WFMin
<1>3. ASSUME NEW m \in N PROVE n <= m
  <2>1. <<m, n>> \notin Less
    BY <1>2
  <2>2. ~ (m < n)
    BY <2>1 DEF Less, OpToRel
  <2> QED BY <2>2, SMTT(30)
<1> QED BY <1>3

\* Induction over the subsets of a finite set: P is the set of the subsets for
\* which the claim holds.  A smallest counterexample has smaller subsets only.
LEMMA SubsetInduction ==
  ASSUME NEW S, IsFiniteSet(S), NEW P,
         \A s \in SUBSET S : (\A t \in SUBSET s : t # s => t \in P) => s \in P
  PROVE  SUBSET S \subseteq P
<1>1. SUFFICES ASSUME NEW u \in SUBSET S, u \notin P PROVE FALSE
  OBVIOUS
<1> DEFINE N == {Cardinality(s) : s \in {v \in SUBSET S : v \notin P}}
<1>2. \A s \in SUBSET S : IsFiniteSet(s) /\ Cardinality(s) \in Nat
  BY FS_Subset, FS_CardinalityType
<1>3. N \in SUBSET Nat /\ N # {}
  <2>1. Cardinality(u) \in N
    BY <1>1
  <2>2. ASSUME NEW n \in N PROVE n \in Nat
    <3>1. PICK s \in SUBSET S : n = Cardinality(s)
      BY <2>2
    <3> QED BY <3>1, <1>2
  <2> HIDE DEF N
  <2> QED BY <2>1, <2>2
<1>4. PICK n \in N : \A m \in N : n <= m
  <2> HIDE DEF N
  <2> QED BY <1>3, LeastExists
<1>5. PICK s \in SUBSET S : s \notin P /\ Cardinality(s) = n
  OBVIOUS
<1>6. ASSUME NEW t \in SUBSET s, t # s PROVE t \in P
  <2>1. t \in SUBSET S /\ Cardinality(t) \in Nat /\ n \in Nat
    BY <1>2, <1>5, <1>6
  <2>2. Cardinality(t) <= n /\ Cardinality(t) # n
    BY <1>2, <1>5, <1>6, FS_Subset
  <2>3. ~ (n <= Cardinality(t))
    BY <2>1, <2>2, SMTT(30)
  <2>4. Cardinality(t) \notin N
    <3> HIDE DEF N
    <3> QED BY <1>4, <2>3
  <2> QED BY <2>1, <2>4
<1> QED BY <1>5, <1>6

\* A finite set of integers that has an element has a greatest one.
LEMMA MaxExists ==
  ASSUME NEW S \in SUBSET Int, IsFiniteSet(S), S # {}
  PROVE  \E x \in S : \A y \in S : x >= y
<1> DEFINE P == {t \in SUBSET S : t # {} => \E x \in t : \A y \in t : x >= y}
<1>2. ASSUME NEW s \in SUBSET S, \A t \in SUBSET s : t # s => t \in P
      PROVE  s \in P
  <2>1. SUFFICES ASSUME s # {} PROVE \E x \in s : \A y \in s : x >= y
    OBVIOUS
  <2>2. PICK m : m \in s
    BY <2>1
  <2>3. s \ {m} \in P
    BY <1>2, <2>2
  <2>4. CASE s \ {m} = {}
    BY <2>2, <2>4, SMTT(30)
  <2>5. CASE s \ {m} # {}
    <3>1. PICK x \in s \ {m} : \A y \in s \ {m} : x >= y
      BY <2>3, <2>5
    <3>2. x \in Int /\ m \in Int
      BY <2>2
    <3> HIDE DEF P
    <3>3. CASE x >= m
      BY <3>1, <3>2, <3>3
    <3>4. CASE ~ (x >= m)
      BY <3>1, <3>2, <3>4, <2>2, SMTT(30)
    <3> QED BY <3>3, <3>4
  <2> QED BY <2>4, <2>5
<1> HIDE DEF P
<1>3. SUBSET S \subseteq P
  BY <1>2, SubsetInduction
<1>4. S \in P
  BY <1>3
<1> QED BY <1>4 DEF P

\* Max is that element.
LEMMA MaxFacts ==
  ASSUME NEW S \in SUBSET Int, IsFiniteSet(S), S # {}
  PROVE  Max(S) \in S /\ \A y \in S : Max(S) >= y
BY MaxExists DEF Max

\* s lists the elements of S in ascending order.
Sorts(s, S) ==
  s \in [1 .. Cardinality(S) -> S] /\ Range(s) = S /\ Ascending(s)

\* The elements of a finite set of integers can be put in order: those but the
\* greatest first.
LEMMA OrderExists ==
  ASSUME NEW S \in SUBSET Int, IsFiniteSet(S)
  PROVE  \E s : Sorts(s, S)
<1> DEFINE P == {t \in SUBSET S : \E s : Sorts(s, t)}
<1>2. ASSUME NEW t \in SUBSET S, \A u \in SUBSET t : u # t => u \in P
      PROVE  t \in P
  <2>1. IsFiniteSet(t) /\ Cardinality(t) \in Nat
    BY FS_Subset, FS_CardinalityType
  <2>2. CASE t = {}
    <3>1. Cardinality(t) = 0
      BY <2>2, FS_EmptySet
    <3>2. Sorts([k \in {} |-> k], t)
      <4>1. 1 .. Cardinality(t) = {}
        BY <3>1, SMTT(30)
      <4> QED BY <4>1, <2>2 DEF Sorts, Range, Ascending
    <3> QED BY <3>2
  <2>3. CASE t # {}
    <3> DEFINE m == Max(t)
               n == Cardinality(t)
    <3>1. m \in t /\ \A y \in t : m >= y
      BY <2>1, <2>3, MaxFacts
    <3>2. t \ {m} \in P
      BY <3>1, <1>2
    <3>3. PICK s : Sorts(s, t \ {m})
      BY <3>2
    <3>4. Cardinality(t \ {m}) = n - 1 /\ n - 1 \in Nat /\ n \in Nat
      <4>1. IsFiniteSet(t \ {m}) /\ Cardinality(t \ {m}) = n - 1
        BY <2>1, <3>1, FS_RemoveElement, SMTT(30)
      <4>2. Cardinality(t \ {m}) \in Nat
        BY <4>1, FS_CardinalityType
      <4> QED BY <4>1, <4>2, <2>1
    <3> DEFINE r == [k \in 1 .. n |-> IF k = n THEN m ELSE s[k]]
    <3> HIDE DEF P, m, n
    <3>5. s \in [1 .. (n - 1) -> t \ {m}] /\ Range(s) = t \ {m} /\ Ascending(s)
      BY <3>3, <3>4 DEF Sorts
    <3>6. \A k \in 1 .. n : k = n \/ k \in 1 .. (n - 1)
      BY <3>4, SMTT(30)
    <3>7. r \in [1 .. n -> t]
      BY <3>1, <3>5, <3>6
    <3>8. Range(r) = t
      <4>1. ASSUME NEW x \in t PROVE \E k \in 1 .. n : r[k] = x
        <5>1. CASE x = m
          BY <5>1, <3>4, SMTT(30)
        <5>2. CASE x # m
          <6>1. PICK k \in 1 .. (n - 1) : s[k] = x
            BY <5>2, <3>5 DEF Range
          <6>2. k \in 1 .. n /\ k # n
            BY <3>4, SMTT(30)
          <6> QED BY <6>1, <6>2
        <5> QED BY <5>1, <5>2
      <4> HIDE DEF r
      <4> QED BY <4>1, <3>7 DEF Range
    <3>9. Ascending(r)
      <4>1. SUFFICES ASSUME NEW j \in 1 .. n, NEW k \in 1 .. n, j < k
                     PROVE  r[j] < r[k]
        BY <3>7 DEF Ascending
      <4>2. j \in 1 .. (n - 1) /\ j # n
        BY <4>1, <3>4, SMTT(30)
      <4>3. r[j] = s[j] /\ s[j] \in t /\ s[j] # m
        BY <4>2, <3>5
      <4>4. CASE k = n
        <5>1. r[k] = m
          BY <4>4
        <5>2. m \in Int /\ s[j] \in Int /\ m >= s[j]
          BY <4>3, <3>1
        <5> HIDE DEF r
        <5> QED BY <5>1, <5>2, <4>3, SMTT(30)
      <4>5. CASE k # n
        <5>1. r[k] = s[k] /\ k \in 1 .. (n - 1)
          BY <4>5, <3>6
        <5>2. s[j] < s[k]
          BY <5>1, <4>1, <4>2, <3>5 DEF Ascending
        <5> QED BY <5>1, <5>2, <4>3
      <4> QED BY <4>4, <4>5
    <3> HIDE DEF r
    <3>10. Sorts(r, t)
      BY <3>7, <3>8, <3>9 DEF Sorts, n
    <3> QED BY <3>10 DEF P
  <2> QED BY <2>2, <2>3
<1> HIDE DEF P
<1>3. SUBSET S \subseteq P
  BY <1>2, SubsetInduction
<1>4. S \in P
  BY <1>3
<1> QED BY <1>4 DEF P

\* InOrder puts them in order.
LEMMA OrderFacts ==
  ASSUME NEW S \in SUBSET Int, IsFiniteSet(S)
  PROVE  /\ InOrder(S) \in Seq(S) /\ Len(InOrder(S)) = Cardinality(S)
         /\ Range(InOrder(S)) = S
         /\ Ascending(InOrder(S))
<1>1. Sorts(InOrder(S), S)
  BY OrderExists DEF InOrder, Sorts
<1>2. Cardinality(S) \in Nat
  BY FS_CardinalityType
<1> QED BY <1>1, <1>2, SMTT(30) DEF Sorts

\* In order, the elements of 0 .. n - 1 are 0, 1, ..., n - 1.
LEMMA OrderOfInterval ==
  ASSUME NEW n \in Nat
  PROVE  /\ Len(InOrder(0 .. (n - 1))) = n
         /\ \A k \in 1 .. n : InOrder(0 .. (n - 1))[k] = k - 1
<1> DEFINE s == InOrder(0 .. (n - 1))
<1>1. 0 .. (n - 1) \in SUBSET Int /\ IsFiniteSet(0 .. (n - 1))
      /\ Cardinality(0 .. (n - 1)) = n
  BY FS_Interval, SMTT(30)
<1>2. /\ s \in Seq(0 .. (n - 1)) /\ Len(s) = n
      /\ Range(s) = 0 .. (n - 1) /\ Ascending(s)
  BY <1>1, OrderFacts
<1> HIDE DEF s
<1>3. DOMAIN s = 1 .. n /\ \A k \in 1 .. n : s[k] \in 0 .. (n - 1)
  BY <1>2, SMTT(30)
<1> DEFINE Wrong == {k \in 1 .. n : s[k] # k - 1}
<1>4. SUFFICES ASSUME Wrong # {} PROVE FALSE
  BY <1>2 DEF s
<1>5. Wrong \in SUBSET Nat
  BY SMTT(30)
<1>6. PICK k \in Wrong : \A m \in Wrong : k <= m
  BY <1>4, <1>5, LeastExists
<1>7. k \in 1 .. n /\ s[k] # k - 1 /\ s[k] \in Int
  BY <1>3, SMTT(30)
<1>8. \A j \in 1 .. n : j < k => s[j] = j - 1
  BY <1>6, <1>7, SMTT(30)
<1> HIDE DEF Wrong
<1>9. \A i, j \in 1 .. n : i < j => s[i] < s[j]
  BY <1>2, <1>3 DEF Ascending
<1>10. s[k] > k - 1
  <2>1. CASE k = 1
    BY <2>1, <1>3, <1>7, SMTT(30)
  <2>2. CASE k # 1
    <3>1. k - 1 \in 1 .. n /\ k - 1 < k
      BY <2>2, <1>7, SMTT(30)
    <3>2. s[k - 1] = k - 2 /\ s[k - 1] < s[k]
      BY <3>1, <1>7, <1>8, <1>9, SMTT(30)
    <3> QED BY <3>2, <1>7, SMTT(30)
  <2> QED BY <2>1, <2>2
<1>11. k - 1 \in Range(s)
  BY <1>2, <1>7, SMTT(30)
<1>12. PICK j \in 1 .. n : s[j] = k - 1
  BY <1>11, <1>3 DEF Range
<1>13. j < k \/ j = k \/ k < j
  BY <1>7, SMTT(30)
<1>14. CASE j < k
  BY <1>14, <1>8, <1>12, <1>7, SMTT(30)
<1>15. CASE k < j
  <2>1. s[k] < s[j]
    BY <1>15, <1>7, <1>9
  <2> QED BY <2>1, <1>10, <1>12, <1>7, SMTT(30)
<1> QED BY <1>7, <1>12, <1>13, <1>14, <1>15

\* An ascending sequence is a prefix of another when its elements are the
\* smallest of the other's.
LEMMA AscendingPrefix ==
  ASSUME NEW r \in Seq(Nat), NEW t \in Seq(Nat), Ascending(r), Ascending(t),
         Range(r) \subseteq Range(t),
         \A x \in Range(t), e \in Range(r) : x < e => x \in Range(r)
  PROVE  Extends(t, r)
<1>1. /\ DOMAIN r = 1 .. Len(r) /\ DOMAIN t = 1 .. Len(t)
      /\ Len(r) \in Nat /\ Len(t) \in Nat
      /\ \A k \in 1 .. Len(r) : r[k] \in Nat
      /\ \A k \in 1 .. Len(t) : t[k] \in Nat
  BY SMTT(30)
<1>2. /\ \A i, j \in 1 .. Len(r) : i < j => r[i] < r[j]
      /\ \A i, j \in 1 .. Len(t) : i < j => t[i] < t[j]
  BY <1>1 DEF Ascending
<1> DEFINE Wrong == {k \in 1 .. Len(r) : ~ (k <= Len(t) /\ r[k] = t[k])}
<1>3. Wrong = {}
  <2>1. SUFFICES ASSUME Wrong # {} PROVE FALSE
    OBVIOUS
  <2>2. Wrong \in SUBSET Nat
    BY SMTT(30)
  <2>3. PICK k \in Wrong : \A m \in Wrong : k <= m
    BY <2>1, <2>2, LeastExists
  <2>4. k \in 1 .. Len(r) /\ ~ (k <= Len(t) /\ r[k] = t[k])
    OBVIOUS
  <2>5. \A i \in 1 .. Len(r) : i < k => i <= Len(t) /\ r[i] = t[i]
    BY <2>3, <2>4, SMTT(30)
  <2> HIDE DEF Wrong
  <2>6. r[k] \in Range(r) /\ r[k] \in Range(t)
    BY <2>4, <1>1 DEF Range
  <2>7. PICK j \in 1 .. Len(t) : r[k] = t[j]
    BY <2>6, <1>1 DEF Range
  <2>8. ~ (j < k)
    <3>1. SUFFICES ASSUME j < k PROVE FALSE
      OBVIOUS
    <3>2. j \in 1 .. Len(r)
      BY <3>1, <2>4, <1>1, SMTT(30)
    <3>3. r[j] = t[j] /\ r[j] < r[k]
      BY <3>1, <3>2, <2>4, <2>5, <1>2
    <3> QED BY <3>2, <3>3, <2>4, <2>7, <1>1, SMTT(30)
  <2>9. k \in 1 .. Len(t) /\ k < j
    BY <2>4, <2>7, <2>8, <1>1, SMTT(30)
  <2>10. t[k] < r[k] /\ t[k] \in Range(t)
    BY <2>7, <2>9, <1>1, <1>2 DEF Range
  <2>11. t[k] \in Range(r)
    BY <2>6, <2>10
  <2>12. PICK i \in 1 .. Len(r) : r[i] = t[k]
    BY <2>11, <1>1 DEF Range
  <2>13. CASE i < k
    <3>1. r[i] = t[i] /\ i \in 1 .. Len(t)
      BY <2>13, <2>5, <1>1, SMTT(30)
    <3>2. t[i] < t[k]
      BY <3>1, <2>9, <2>13, <1>2
    <3> QED BY <3>1, <3>2, <2>9, <2>12, <1>1, SMTT(30)
  <2>14. CASE ~ (i < k)
    <3>1. i = k \/ r[k] < r[i]
      BY <2>4, <2>14, <1>1, <1>2, SMTT(30)
    <3> QED BY <3>1, <2>4, <2>9, <2>10, <2>12, <1>1, SMTT(30)
  <2> QED BY <2>13, <2>14
<1>4. \A k \in 1 .. Len(r) : k <= Len(t) /\ r[k] = t[k]
  BY <1>3
<1> HIDE DEF Wrong
<1>5. Len(r) <= Len(t)
  BY <1>1, <1>4, SMTT(30)
<1> QED BY <1>1, <1>4, <1>5, SMTT(30) DEF Extends

-----------------------------------------------------------------------------
(* Types, and the PoolStates a step can leave.                             *)

Event == [topic : {"Deposit", "Withdraw"}, ledger : Nat]
Tx == [kind : {"asp", "state"}, root : Seq(Nat), seq : Nat]

ChainTypes ==
  /\ now \in Nat \ {0}
  /\ log \in Seq(Event) /\ Len(log) <= MaxEvents
  /\ onchain \in [{"asp", "state"} -> [root : Seq(Nat), ledger : Nat]]
  /\ seq \in Nat
  /\ txs \in SUBSET Tx
  /\ landed \in Tx \cup {NoTx}

\* A PoolState about leaves the pool has.
Fields ==
  {"approvedIndices", "rejectedIndices", "deferredIndices", "lastIndex", "lastLedger",
   "stateEventCursor", "stateLeaves"}
IsPoolState(state) ==
  /\ DOMAIN state = Fields
  /\ state.approvedIndices \in Seq(Nat)
  /\ state.rejectedIndices \in SUBSET Nat /\ state.deferredIndices \in SUBSET Nat
  /\ state.lastIndex \in Int /\ state.lastLedger \in Nat
  /\ state.stateEventCursor \in Nat /\ state.stateLeaves \in SUBSET Nat
Known(state) ==
  /\ IsPoolState(state)
  /\ Range(state.approvedIndices) \subseteq Leaves
  /\ state.rejectedIndices \subseteq Leaves
  /\ state.stateLeaves \subseteq Leaves

TickTypes ==
  /\ sets \in Seq(Seq(Nat))
  /\ batch \in SUBSET Leaves /\ seen \in SUBSET Leaves
  /\ mytx \in Tx \cup {NoTx}
  /\ failures \in Nat

Types == ChainTypes /\ TickTypes /\ Known(store) /\ Known(work)

\* What a step does to the log: nothing, or an event of the open ledger.
LogStep ==
  \/ log' = log
  \/ \E topic \in {"Deposit", "Withdraw"} :
       /\ log' = Append(log, [topic |-> topic, ledger |-> now])
       /\ Len(log) < MaxEvents
       /\ UNCHANGED <<now, onchain, seq, txs, landed, store, sets, tick, failures>>

\* The verdicts a tick may give, and the PoolStates after merging the leaves
\* that were read and after reinstating a deposit.
Screenings ==
  {verdict \in [undecided(confirmedDeposits(batch)) -> {"approve", "reject", "defer"}] :
     \A i \in DOMAIN verdict : verdict[i] \in Verdicts(i)}
merged ==
  [work EXCEPT !.stateLeaves = work.stateLeaves \cup seen,
               !.stateEventCursor = latestLedger]
reinstated(index) ==
  [store EXCEPT
     !.rejectedIndices = @ \ {index},
     !.deferredIndices = @ \ {index},
     !.approvedIndices = InOrder(Range(@) \cup {index})]

\* Where the PoolState of a tick or of the store comes from.
Comes(state) ==
  \/ state = store \/ state = work
  \/ pc = "screen" /\ \E verdict \in Screenings : state = screened(verdict)
  \/ state = merged
  \/ \E i \in store.rejectedIndices \cap Appeals : state = reinstated(i)

\* Every step takes the next PoolStates from there.
LEMMA StatesCome ==
  ASSUME Next \/ UNCHANGED vars
  PROVE  Comes(store') /\ Comes(work')
<1> USE DEF Comes
<1>1. CASE UNCHANGED vars
  BY <1>1 DEF vars, tick
<1>2. ASSUME NEW topic, PoolEvent(topic) PROVE Comes(store') /\ Comes(work')
  BY <1>2 DEF PoolEvent, tick
<1>3. CASE CloseLedger
  BY <1>3 DEF CloseLedger, tick
<1>4. ASSUME NEW tx, Include(tx) PROVE Comes(store') /\ Comes(work')
  BY <1>4 DEF Include, tick
<1>5. CASE readDeposits
  BY <1>5 DEF readDeposits
<1>6. CASE Screen
  <2>1. PICK verdict \in Screenings :
          LET state == screened(verdict)
          IN  \/ store' = state /\ TickEnds
              \/ work' = state /\ UNCHANGED store
    BY <1>6 DEF Screen, Screenings
  <2>2. pc = "screen"
    BY <1>6 DEF Screen
  <2> QED BY <2>1, <2>2 DEF TickEnds
<1>7. CASE CompareAsp
  BY <1>7 DEF CompareAsp
<1>8. CASE PostAspRoot \/ PostStateRoot
  BY <1>8 DEF PostAspRoot, PostStateRoot, Post
<1>9. CASE Confirmed
  BY <1>9 DEF Confirmed
<1>10. CASE NotConfirmed \/ Save \/ TickFails \/ Crash
  BY <1>10 DEF NotConfirmed, Save, TickFails, Crash, TickEnds
<1>11. CASE ReadDepositLeaves \/ ReadWithdrawLeaves \/ CompareState
  BY <1>11 DEF ReadDepositLeaves, ReadWithdrawLeaves, CompareState
<1>12. CASE MergeLeaves
  BY <1>12 DEF MergeLeaves, TickEnds, merged
<1>13. ASSUME NEW i \in Appeals, Reinstate(i) PROVE Comes(store') /\ Comes(work')
  BY <1>13 DEF Reinstate, reinstated
<1> QED
  BY <1>1, <1>2, <1>3, <1>4, <1>5, <1>6, <1>7, <1>8, <1>9, <1>10, <1>11, <1>12,
     <1>13 DEF Next, TickStep

\* Only the pool's events touch the log.
LEMMA LogSteps ==
  ASSUME Next \/ UNCHANGED vars
  PROVE  LogStep /\ (now' = now \/ now' = now + 1)
<1> USE DEF LogStep
<1>1. CASE UNCHANGED vars
  BY <1>1 DEF vars, chain
<1>2. ASSUME NEW topic \in {"Deposit", "Withdraw"}, PoolEvent(topic)
      PROVE  LogStep /\ (now' = now \/ now' = now + 1)
  BY <1>2 DEF PoolEvent
<1>3. CASE CloseLedger
  BY <1>3 DEF CloseLedger
<1>4. ASSUME NEW tx, Include(tx) PROVE log' = log /\ now' = now
  BY <1>4 DEF Include
<1>5. CASE TickStep
  <2>1. CASE readDeposits \/ Screen \/ CompareAsp \/ Confirmed \/ NotConfirmed
    BY <2>1 DEF readDeposits, Screen, CompareAsp, Confirmed, NotConfirmed, chain
  <2>2. CASE PostAspRoot \/ PostStateRoot
    BY <2>2 DEF PostAspRoot, PostStateRoot, Post
  <2>3. CASE ReadDepositLeaves \/ ReadWithdrawLeaves \/ MergeLeaves
             \/ CompareState \/ Save
    BY <2>3 DEF ReadDepositLeaves, ReadWithdrawLeaves, MergeLeaves, CompareState,
                Save, chain
  <2> QED BY <1>5, <2>1, <2>2, <2>3 DEF TickStep
<1>6. CASE TickFails \/ Crash
  BY <1>6 DEF TickFails, Crash, chain
<1>7. ASSUME NEW i, Reinstate(i) PROVE log' = log /\ now' = now
  BY <1>7 DEF Reinstate, chain
<1> QED BY <1>1, <1>2, <1>3, <1>4, <1>5, <1>6, <1>7 DEF Next

\* The leaves are finitely many naturals.
LEMMA LeavesFinite ==
  ASSUME ChainTypes
  PROVE  /\ Leaves \in SUBSET Nat /\ IsFiniteSet(Leaves)
         /\ \A S \in SUBSET Leaves : S \in SUBSET Int /\ IsFiniteSet(S)
<1>1. Len(log) - 1 \in Int /\ 0 \in Int
  BY SMTT(30) DEF ChainTypes
<1>2. Leaves \in SUBSET Nat /\ Leaves \in SUBSET Int
  BY <1>1, SMTT(30) DEF Leaves
<1>3. IsFiniteSet(Leaves)
  BY <1>1, FS_Interval DEF Leaves
<1> QED BY <1>2, <1>3, FS_Subset

\* A leaf has an event, and so the ledger it was closed in.
LEMMA LeafEvents ==
  ASSUME ChainTypes, NEW i \in Leaves
  PROVE  i \in Nat /\ i + 1 \in 1 .. Len(log) /\ log[i + 1] \in Event
         /\ LedgerOf(i) \in Nat /\ i < Len(log) /\ i \in Indices
<1>1. i \in Nat /\ i + 1 \in 1 .. Len(log) /\ i < Len(log)
  BY SMTT(30) DEF ChainTypes, Leaves
<1>2. log[i + 1] \in Event
  BY <1>1, SMTT(30) DEF ChainTypes
<1>3. LedgerOf(i) \in Nat
  BY <1>2, SMTT(30) DEF LedgerOf, Event
<1>4. i \in Indices
  BY <1>1, AspBoundsAssumption, SMTT(30) DEF Indices, ChainTypes
<1> QED BY <1>1, <1>2, <1>3, <1>4

\* What screening makes of the PoolState: the approved go to the end of the
\* list, and the cursor goes to the last deposit that was decided.
ScreenedTo(state, verdict) ==
  LET by(v) == {i \in DOMAIN verdict : verdict[i] = v}
  IN  /\ IsPoolState(state)
      /\ state.approvedIndices = work.approvedIndices \o InOrder(by("approve"))
      /\ Range(state.approvedIndices) = Range(work.approvedIndices) \cup by("approve")
      /\ state.rejectedIndices = work.rejectedIndices \cup by("reject")
      /\ state.deferredIndices = by("defer")
      /\ state.lastIndex = work.lastIndex
         \/ state.lastIndex \in by("approve") \cup by("reject")
      /\ \A i \in by("approve") \cup by("reject") \cup {work.lastIndex} :
           i <= state.lastIndex
      /\ state.lastLedger = work.lastLedger
         \/ \E i \in DOMAIN verdict : state.lastLedger = LedgerOf(i)
      /\ state.lastLedger >= work.lastLedger
      /\ state.stateLeaves = work.stateLeaves

\* A finite set of integers stays one when each element is looked up.
LEMMA LedgersFinite ==
  ASSUME ChainTypes, NEW S \in SUBSET Leaves
  PROVE  {LedgerOf(i) : i \in S} \in SUBSET Int /\ IsFiniteSet({LedgerOf(i) : i \in S})
<1>1. IsFiniteSet(S)
  BY LeavesFinite
<1>2. \A i \in S : LedgerOf(i) \in Int
  <2>1. \A i \in S : LedgerOf(i) \in Nat
    BY LeafEvents
  <2> QED BY <2>1, SMTT(30)
<1> DEFINE f == [i \in S |-> LedgerOf(i)]
           T == {LedgerOf(i) : i \in S}
<1>3. f \in [S -> T] /\ \A t \in T : \E i \in S : f[i] = t
  OBVIOUS
<1>4. f \in Surjection(S, T)
  BY <1>3 DEF Surjection
<1> HIDE DEF f, T
<1>5. IsFiniteSet(T)
  BY <1>1, <1>4, FS_Surjection
<1> QED BY <1>2, <1>5 DEF T

\* The elements of two sequences are those of their concatenation.
LEMMA RangeConcat ==
  ASSUME NEW s \in Seq(Nat), NEW t \in Seq(Nat)
  PROVE  s \o t \in Seq(Nat) /\ Range(s \o t) = Range(s) \cup Range(t)
<1>1. /\ s \o t \in Seq(Nat) /\ DOMAIN (s \o t) = 1 .. (Len(s) + Len(t))
      /\ DOMAIN s = 1 .. Len(s) /\ DOMAIN t = 1 .. Len(t)
      /\ Len(s) \in Nat /\ Len(t) \in Nat
  BY SMTT(30)
<1>2. ASSUME NEW k \in DOMAIN (s \o t) PROVE (s \o t)[k] \in Range(s) \cup Range(t)
  <2>1. \/ k \in DOMAIN s /\ (s \o t)[k] = s[k]
        \/ k - Len(s) \in DOMAIN t /\ (s \o t)[k] = t[k - Len(s)]
    BY <1>1, SMTT(30)
  <2> QED BY <2>1 DEF Range
<1>3. ASSUME NEW k \in DOMAIN s PROVE s[k] \in Range(s \o t)
  <2>1. k \in DOMAIN (s \o t) /\ (s \o t)[k] = s[k]
    BY <1>1, SMTT(30)
  <2> QED BY <2>1 DEF Range
<1>4. ASSUME NEW k \in DOMAIN t PROVE t[k] \in Range(s \o t)
  <2>1. k + Len(s) \in DOMAIN (s \o t) /\ (s \o t)[k + Len(s)] = t[k]
    BY <1>1, SMTT(30)
  <2> QED BY <2>1 DEF Range
<1> QED BY <1>1, <1>2, <1>3, <1>4 DEF Range

\* Screening does that.
LEMMA ScreenedFacts ==
  ASSUME Types, NEW verdict \in Screenings
  PROVE  /\ DOMAIN verdict \in SUBSET batch
         /\ ScreenedTo(screened(verdict), verdict)
<1> DEFINE by(v) == {i \in DOMAIN verdict : verdict[i] = v}
           state == screened(verdict)
           Indexes == {work.lastIndex} \cup {i \in DOMAIN verdict : verdict[i] # "defer"}
           Ledgers == {work.lastLedger} \cup {LedgerOf(i) : i \in DOMAIN verdict}
<1>1. DOMAIN verdict \in SUBSET batch /\ DOMAIN verdict \in SUBSET Leaves
  BY DEF Screenings, undecided, confirmedDeposits, Types, TickTypes
<1>2. \A i \in DOMAIN verdict : verdict[i] \in {"approve", "reject", "defer"}
  BY DEF Screenings
<1>3. ChainTypes /\ DOMAIN work = Fields
  BY DEF Types, Known, IsPoolState
<1>4. /\ work.approvedIndices \in Seq(Nat) /\ work.rejectedIndices \in SUBSET Nat
      /\ work.lastIndex \in Int /\ work.lastLedger \in Nat
      /\ work.stateEventCursor \in Nat /\ work.stateLeaves \in SUBSET Nat
  BY DEF Types, Known, IsPoolState
<1>5. /\ state.approvedIndices = work.approvedIndices \o InOrder(by("approve"))
      /\ state.rejectedIndices = work.rejectedIndices \cup by("reject")
      /\ state.deferredIndices = by("defer")
      /\ state.lastIndex = Max(Indexes)
      /\ state.lastLedger = Max(Ledgers)
      /\ state.stateLeaves = work.stateLeaves
      /\ state.stateEventCursor = work.stateEventCursor
      /\ DOMAIN state = Fields
  <2> DEFINE approved == work.approvedIndices \o InOrder(by("approve"))
             rejected == work.rejectedIndices \cup by("reject")
             defers == by("defer")
             index == Max(Indexes)
             ledger == Max(Ledgers)
  <2>1. state = [work EXCEPT
           !.approvedIndices = approved, !.rejectedIndices = rejected,
           !.deferredIndices = defers, !.lastIndex = index, !.lastLedger = ledger]
    BY <1>3, SMTT(30) DEF screened, Fields
  <2> HIDE DEF state, approved, rejected, defers, index, ledger
  <2>2. /\ state.approvedIndices = approved /\ state.rejectedIndices = rejected
        /\ state.deferredIndices = defers /\ state.lastIndex = index
        /\ state.lastLedger = ledger /\ state.stateLeaves = work.stateLeaves
        /\ state.stateEventCursor = work.stateEventCursor /\ DOMAIN state = Fields
    BY <2>1, <1>3, SMTT(30) DEF Fields
  <2> QED BY <2>2 DEF approved, rejected, defers, index, ledger
<1>6. \A v : by(v) \in SUBSET Leaves /\ by(v) \in SUBSET Nat /\ by(v) \in SUBSET Int
             /\ IsFiniteSet(by(v))
  BY <1>1, <1>3, LeavesFinite
<1>7. InOrder(by("approve")) \in Seq(Nat)
      /\ Range(InOrder(by("approve"))) = by("approve")
  <2>1. InOrder(by("approve")) \in Seq(by("approve"))
        /\ Range(InOrder(by("approve"))) = by("approve")
    BY <1>6, OrderFacts
  <2> HIDE DEF by
  <2> QED BY <2>1, <1>6, SMTT(30)
<1>8. /\ Max(Indexes) \in Indexes /\ Max(Indexes) \in Int
      /\ \A y \in Indexes : y <= Max(Indexes)
  <2>1. {i \in DOMAIN verdict : verdict[i] # "defer"} \in SUBSET Int
        /\ IsFiniteSet({i \in DOMAIN verdict : verdict[i] # "defer"})
    BY <1>1, <1>3, LeavesFinite
  <2>2. Indexes \in SUBSET Int /\ IsFiniteSet(Indexes) /\ Indexes # {}
    <3>1. Indexes = {i \in DOMAIN verdict : verdict[i] # "defer"} \cup {work.lastIndex}
      OBVIOUS
    <3> HIDE DEF Indexes
    <3> QED BY <3>1, <2>1, <1>4, FS_AddElement
  <2> DEFINE m == Max(Indexes)
  <2> HIDE DEF Indexes
  <2>3. m \in Indexes /\ \A y \in Indexes : m >= y
    BY <2>2, MaxFacts
  <2>4. m \in Int /\ \A y \in Indexes : y \in Int
    BY <2>2, <2>3
  <2> HIDE DEF m
  <2>5. \A y \in Indexes : y <= m
    BY <2>3, <2>4, SMTT(30)
  <2> QED BY <2>3, <2>4, <2>5 DEF m
<1>9. /\ Max(Ledgers) \in Ledgers /\ Max(Ledgers) \in Nat
      /\ Max(Ledgers) >= work.lastLedger
  <2>1. {LedgerOf(i) : i \in DOMAIN verdict} \in SUBSET Int
        /\ IsFiniteSet({LedgerOf(i) : i \in DOMAIN verdict})
    BY <1>1, <1>3, LedgersFinite
  <2>2. Ledgers \in SUBSET Int /\ IsFiniteSet(Ledgers) /\ Ledgers # {}
        /\ work.lastLedger \in Ledgers
    <3>1. Ledgers = {LedgerOf(i) : i \in DOMAIN verdict} \cup {work.lastLedger}
      OBVIOUS
    <3>2. work.lastLedger \in Int
      BY <1>4, SMTT(30)
    <3> HIDE DEF Ledgers
    <3> QED BY <3>1, <3>2, <2>1, FS_AddElement
  <2> HIDE DEF Ledgers
  <2>3. Max(Ledgers) \in Ledgers /\ \A y \in Ledgers : Max(Ledgers) >= y
    BY <2>2, MaxFacts
  <2>4. Max(Ledgers) \in Int /\ Max(Ledgers) >= work.lastLedger
    BY <2>2, <2>3
  <2> QED BY <2>3, <2>4, <1>4, SMTT(30)
<1>10. /\ work.approvedIndices \o InOrder(by("approve")) \in Seq(Nat)
       /\ Range(work.approvedIndices \o InOrder(by("approve")))
            = Range(work.approvedIndices) \cup by("approve")
  BY <1>4, <1>7, RangeConcat
<1>11. IsPoolState(state)
  <2> HIDE DEF by, state, Indexes, Ledgers
  <2> QED BY <1>4, <1>5, <1>6, <1>8, <1>9, <1>10 DEF IsPoolState
<1>12. /\ state.lastIndex = work.lastIndex
          \/ state.lastIndex \in by("approve") \cup by("reject")
       /\ \A i \in by("approve") \cup by("reject") \cup {work.lastIndex} :
            i <= state.lastIndex
  <2>1. state.lastIndex = Max(Indexes)
    BY <1>5
  <2>2. Indexes = {work.lastIndex} \cup by("approve") \cup by("reject")
    BY <1>2
  <2> HIDE DEF Indexes, state, by
  <2> QED BY <2>1, <2>2, <1>8
<1>13. /\ state.lastLedger = work.lastLedger
          \/ \E i \in DOMAIN verdict : state.lastLedger = LedgerOf(i)
       /\ state.lastLedger >= work.lastLedger
  <2>1. state.lastLedger = Max(Ledgers)
    BY <1>5
  <2> HIDE DEF state
  <2> QED BY <2>1, <1>9
<1>14. /\ state.approvedIndices = work.approvedIndices \o InOrder(by("approve"))
       /\ state.rejectedIndices = work.rejectedIndices \cup by("reject")
       /\ state.deferredIndices = by("defer")
       /\ state.stateLeaves = work.stateLeaves
  <2> HIDE DEF by, state, Indexes, Ledgers
  <2> QED BY <1>5
<1> HIDE DEF state
<1> QED BY <1>1, <1>10, <1>11, <1>12, <1>13, <1>14 DEF ScreenedTo, state

\* A sequence over a set of naturals is one of naturals.
LEMMA SeqOfNat ==
  ASSUME NEW S \in SUBSET Nat, NEW s \in Seq(S)
  PROVE  s \in Seq(Nat)
<1>1. s \in [1 .. Len(s) -> S] /\ Len(s) \in Nat
  BY SMTT(30)
<1>2. s \in [1 .. Len(s) -> Nat]
  BY <1>1
<1> QED BY <1>1, <1>2, SMTT(30)

\* Merging only adds leaves and moves the event cursor.
LEMMA MergedFacts ==
  ASSUME Types
  PROVE  /\ IsPoolState(merged)
         /\ merged.approvedIndices = work.approvedIndices
         /\ merged.rejectedIndices = work.rejectedIndices
         /\ merged.deferredIndices = work.deferredIndices
         /\ merged.lastIndex = work.lastIndex
         /\ merged.lastLedger = work.lastLedger
         /\ merged.stateLeaves = work.stateLeaves \cup seen
<1>1. DOMAIN work = Fields
  BY DEF Types, Known, IsPoolState
<1> DEFINE cursor == latestLedger
           leaves == work.stateLeaves \cup seen
<1>2. cursor \in Nat
  BY SMTT(30) DEF Types, ChainTypes, latestLedger
<1>3. leaves \in SUBSET Nat
  BY LeavesFinite DEF Types, TickTypes, Known, IsPoolState
<1>4. merged = [work EXCEPT !.stateLeaves = leaves, !.stateEventCursor = cursor]
  BY DEF merged
<1> HIDE DEF cursor, leaves
<1>5. /\ DOMAIN merged = Fields
      /\ merged.approvedIndices = work.approvedIndices
      /\ merged.rejectedIndices = work.rejectedIndices
      /\ merged.deferredIndices = work.deferredIndices
      /\ merged.lastIndex = work.lastIndex
      /\ merged.lastLedger = work.lastLedger
      /\ merged.stateLeaves = leaves
      /\ merged.stateEventCursor = cursor
  BY <1>1, <1>4, SMTT(30) DEF Fields
<1>6. IsPoolState(merged)
  BY <1>2, <1>3, <1>5 DEF Types, Known, IsPoolState
<1> QED BY <1>5, <1>6 DEF leaves

\* Reinstating moves a deposit from the rejected to the approved, in order.
LEMMA ReinstatedFacts ==
  ASSUME Types, NEW i \in store.rejectedIndices
  PROVE  /\ IsPoolState(reinstated(i))
         /\ Ascending(reinstated(i).approvedIndices)
         /\ Range(reinstated(i).approvedIndices) = Range(store.approvedIndices) \cup {i}
         /\ reinstated(i).rejectedIndices = store.rejectedIndices \ {i}
         /\ reinstated(i).deferredIndices = store.deferredIndices \ {i}
         /\ reinstated(i).lastIndex = store.lastIndex
         /\ reinstated(i).lastLedger = store.lastLedger
         /\ reinstated(i).stateLeaves = store.stateLeaves
<1>1. DOMAIN store = Fields /\ ChainTypes
  BY DEF Types, Known, IsPoolState
<1> DEFINE approved == Range(store.approvedIndices) \cup {i}
           list == InOrder(approved)
           rejected == store.rejectedIndices \ {i}
           defers == store.deferredIndices \ {i}
           state == reinstated(i)
<1>2. approved \in SUBSET Leaves
  BY DEF Types, Known
<1>3. approved \in SUBSET Int /\ approved \in SUBSET Nat /\ IsFiniteSet(approved)
  BY <1>1, <1>2, LeavesFinite
<1>4. list \in Seq(approved) /\ Range(list) = approved /\ Ascending(list)
  BY <1>3, OrderFacts
<1>5. list \in Seq(Nat)
  BY <1>3, <1>4, SeqOfNat
<1>6. state = [store EXCEPT !.rejectedIndices = rejected, !.deferredIndices = defers,
                            !.approvedIndices = list]
  BY <1>1, SMTT(30) DEF reinstated, Fields
<1>7. rejected \in SUBSET Nat /\ defers \in SUBSET Nat
  BY DEF Types, Known, IsPoolState
<1> HIDE DEF approved, list, rejected, defers, state
<1>8. /\ DOMAIN state = Fields
      /\ state.approvedIndices = list
      /\ state.rejectedIndices = rejected
      /\ state.deferredIndices = defers
      /\ state.lastIndex = store.lastIndex
      /\ state.lastLedger = store.lastLedger
      /\ state.stateLeaves = store.stateLeaves
      /\ state.stateEventCursor = store.stateEventCursor
  BY <1>1, <1>6, SMTT(30) DEF Fields
<1>9. IsPoolState(state)
  BY <1>5, <1>7, <1>8 DEF Types, Known, IsPoolState
<1> QED BY <1>4, <1>8, <1>9 DEF approved, rejected, defers, state

\* The PoolStates a step can leave are about leaves of the pool.
LEMMA ComesKnown ==
  ASSUME Types, NEW state, Comes(state)
  PROVE  Known(state)
<1>1. CASE state = store \/ state = work
  BY <1>1 DEF Types
<1>2. ASSUME NEW verdict \in Screenings, state = screened(verdict)
      PROVE  Known(state)
  <2>1. DOMAIN verdict \in SUBSET Leaves /\ ScreenedTo(state, verdict)
    BY <1>2, ScreenedFacts DEF Types, TickTypes
  <2> QED BY <2>1 DEF ScreenedTo, Known, Types
<1>3. CASE state = merged
  BY <1>3, MergedFacts DEF Known, Types, TickTypes
<1>4. ASSUME NEW i \in store.rejectedIndices, state = reinstated(i) PROVE Known(state)
  <2>1. Known(store) /\ i \in Leaves
    BY <1>4 DEF Types, Known
  <2>2. /\ IsPoolState(state)
        /\ Range(state.approvedIndices) = Range(store.approvedIndices) \cup {i}
        /\ state.rejectedIndices \subseteq store.rejectedIndices
        /\ state.stateLeaves = store.stateLeaves
    BY <1>4, ReinstatedFacts
  <2> QED BY <2>1, <2>2 DEF Known
<1> QED BY <1>1, <1>2, <1>3, <1>4 DEF Comes

\* The log only grows, by at most one event.
LEMMA LogGrows ==
  ASSUME ChainTypes, LogStep
  PROVE  /\ Leaves \subseteq Leaves'
         /\ \A i \in Leaves : log'[i + 1] = log[i + 1]
         /\ \A i \in Leaves' : i \in Leaves \/ i = Len(log)
         /\ log' # log => log'[Len(log) + 1].ledger = now
<1>1. CASE log' = log
  BY <1>1 DEF Leaves
<1>2. ASSUME NEW topic, log' = Append(log, [topic |-> topic, ledger |-> now])
      PROVE  /\ Leaves \subseteq Leaves'
             /\ \A i \in Leaves : log'[i + 1] = log[i + 1]
             /\ \A i \in Leaves' : i \in Leaves \/ i = Len(log)
             /\ log'[Len(log) + 1].ledger = now
  <2> DEFINE event == [topic |-> topic, ledger |-> now]
  <2>1. event.ledger = now
    OBVIOUS
  <2>2. log' = Append(log, event)
    BY <1>2
  <2> HIDE DEF event
  <2>3. /\ Len(log) \in Nat /\ Len(log') = Len(log) + 1
        /\ \A k \in 1 .. Len(log) : log'[k] = log[k]
        /\ log'[Len(log) + 1] = event
    BY <2>2, SMTT(30) DEF ChainTypes
  <2>4. Leaves \subseteq Leaves' /\ \A i \in Leaves' : i \in Leaves \/ i = Len(log)
    BY <2>3, SMTT(30) DEF Leaves
  <2>5. \A i \in Leaves : log'[i + 1] = log[i + 1]
    BY <2>3, SMTT(30) DEF Leaves
  <2> QED BY <2>1, <2>3, <2>4, <2>5
<1> QED BY <1>1, <1>2 DEF LogStep

\* root is among the n newest manifests.
Within(root, n) == \E k \in DOMAIN sets : k <= n /\ sets[k] = root

\* r has what s has besides e, and at most where s has it.
MovesUp(s, r, e) ==
  \A k \in DOMAIN s : s[k] # e => \E j \in DOMAIN r : j <= k /\ r[j] = s[k]

\* What is left of a sequence without its first a elements.
LEMMA DropFirst ==
  ASSUME NEW T, NEW s \in Seq(T), NEW a \in 1 .. Len(s)
  PROVE  /\ SubSeq(s, a + 1, Len(s)) \in Seq(T)
         /\ Len(SubSeq(s, a + 1, Len(s))) = Len(s) - a
         /\ \A k \in 1 .. (Len(s) - a) : SubSeq(s, a + 1, Len(s))[k] = s[k + a]
<1> DEFINE n == Len(s)
<1>1. n \in Nat /\ a \in 1 .. n /\ DOMAIN s = 1 .. n
  BY SMTT(30)
<1>2. \A i \in (a + 1) .. n : s[i] \in T
  BY SMTT(30)
<1> HIDE DEF n
<1>3. SubSeq(s, a + 1, n) \in Seq(T)
  BY <1>1, <1>2, SMTT(30)
<1>4. Len(SubSeq(s, a + 1, n)) = n - a
  <2>1. CASE a = n
    BY <1>1, <2>1, SMTT(30)
  <2>2. CASE a < n
    BY <1>1, <2>2, SMTT(30)
  <2> QED BY <1>1, <2>1, <2>2, SMTT(30)
<1>5. ASSUME NEW k \in 1 .. (n - a) PROVE SubSeq(s, a + 1, n)[k] = s[k + a]
  BY <1>1, SMTT(30)
<1> QED BY <1>3, <1>4, <1>5 DEF n

\* Taking out the first e leaves every other element at most where it was.
LEMMA WithoutFacts ==
  ASSUME NEW T, NEW s \in Seq(T), NEW e
  PROVE  Without(s, e) \in Seq(T) /\ MovesUp(s, Without(s, e), e)
<1> USE DEF MovesUp
<1>1. DOMAIN s = 1 .. Len(s) /\ Len(s) \in Nat
  BY SMTT(30)
<1>2. CASE e \notin Range(s)
  <2>1. Without(s, e) = s
    BY <1>2 DEF Without
  <2>2. \A k \in DOMAIN s : k <= k
    BY <1>1, SMTT(30)
  <2> QED BY <2>1, <2>2
<1>3. CASE e \in Range(s)
  <2> DEFINE a == CHOOSE i \in DOMAIN s : s[i] = e
             r == Without(s, e)
  <2>4. \E i \in DOMAIN s : s[i] = e
    BY <1>3 DEF Range
  <2>5. a \in 1 .. Len(s) /\ s[a] = e
    BY <1>1, <2>4
  <2>6. r = SubSeq(s, 1, a - 1) \o SubSeq(s, a + 1, Len(s))
    BY <1>3 DEF Without
  <2> HIDE DEF a, r
  <2> DEFINE left == SubSeq(s, 1, a - 1)
             right == SubSeq(s, a + 1, Len(s))
  <2>7. /\ left \in Seq(T) /\ Len(left) = a - 1
        /\ \A k \in 1 .. (a - 1) : left[k] = s[k]
    BY <2>5, <1>1, SMTT(30)
  <2>8. /\ right \in Seq(T) /\ Len(right) = Len(s) - a
        /\ \A k \in 1 .. (Len(s) - a) : right[k] = s[k + a]
    BY <2>5, DropFirst
  <2> HIDE DEF left, right
  <2>9. r = left \o right
    BY <2>6 DEF left, right
  <2>10. /\ r \in Seq(T) /\ DOMAIN r = 1 .. (Len(s) - 1)
         /\ \A k \in 1 .. (a - 1) : r[k] = s[k]
         /\ \A k \in (a + 1) .. Len(s) : r[k - 1] = s[k]
    <3>1. r \in Seq(T) /\ DOMAIN r = 1 .. (Len(s) - 1)
      BY <2>5, <2>7, <2>8, <2>9, <1>1, SMTT(30)
    <3>2. ASSUME NEW k \in 1 .. (a - 1) PROVE r[k] = s[k]
      BY <2>5, <2>7, <2>8, <2>9, <1>1, SMTT(30)
    <3>3. ASSUME NEW k \in (a + 1) .. Len(s) PROVE r[k - 1] = s[k]
      <4>1. k - a \in 1 .. (Len(s) - a) /\ (k - a) + a = k
            /\ k - 1 \in (Len(left) + 1) .. (Len(left) + Len(right))
            /\ k - 1 - Len(left) = k - a
        BY <2>5, <2>7, <2>8, <1>1, SMTT(30)
      <4>2. r[k - 1] = right[k - 1 - Len(left)]
        BY <4>1, <2>7, <2>8, <2>9, SMTT(30)
      <4>3. right[k - a] = s[(k - a) + a]
        BY <4>1, <2>8
      <4> QED BY <4>1, <4>2, <4>3
    <3> QED BY <3>1, <3>2, <3>3
  <2>11. ASSUME NEW k \in DOMAIN s, s[k] # e
         PROVE  \E j \in DOMAIN r : j <= k /\ r[j] = s[k]
    <3>1. k # a
      BY <2>5, <2>11
    <3>2. CASE k < a
      <4>1. k \in 1 .. (a - 1) /\ k \in DOMAIN r /\ k <= k
        BY <3>2, <2>5, <2>10, <1>1, SMTT(30)
      <4> QED BY <4>1, <2>10
    <3>3. CASE a < k
      <4>1. k \in (a + 1) .. Len(s) /\ k - 1 \in DOMAIN r /\ k - 1 <= k
        BY <3>3, <2>5, <2>10, <1>1, SMTT(30)
      <4> QED BY <4>1, <2>10
    <3> QED BY <3>1, <3>2, <3>3, <2>5, <1>1, SMTT(30)
  <2> QED BY <2>10, <2>11 DEF r
<1> QED BY <1>2, <1>3

\* Writing a manifest puts it first, keeps at most MaxSets, and moves the
\* others down by at most one place.
LEMMA ManifestFacts ==
  ASSUME NEW root \in Seq(Nat), sets \in Seq(Seq(Nat))
  PROVE  LET files == writeManifest(root)
         IN  /\ files \in Seq(Seq(Nat)) /\ Len(files) <= MaxSets
             /\ files # << >> /\ files[1] = root
             /\ \A other, n : n \in Nat /\ n < MaxSets /\ Within(other, n) =>
                  \E k \in DOMAIN files : k <= n + 1 /\ files[k] = other
<1> DEFINE rest == Without(sets, root)
           all == <<root>> \o rest
           files == writeManifest(root)
           size == Min({MaxSets, Len(all)})
           R == Seq(Nat)
<1>0. sets \in Seq(R) /\ root \in R
  OBVIOUS
<1> HIDE DEF R
<1>1. rest \in Seq(R) /\ MovesUp(sets, rest, root)
  BY <1>0, WithoutFacts
<1> HIDE DEF rest
<1>2. \A k \in DOMAIN sets : sets[k] # root =>
        \E j \in DOMAIN rest : j <= k /\ rest[j] = sets[k]
  BY <1>1 DEF MovesUp
<1>3. files = SubSeq(all, 1, size)
  BY DEF writeManifest, rest
<1>4. /\ all \in Seq(R) /\ Len(all) = Len(rest) + 1 /\ all[1] = root /\ Len(rest) \in Nat
      /\ \A j \in DOMAIN rest : all[j + 1] = rest[j]
  BY <1>0, <1>1, SMTT(30)
<1> HIDE DEF all
<1>5. /\ size \in {MaxSets, Len(all)} /\ size <= MaxSets /\ size <= Len(all)
  <2>1. MaxSets \in Nat /\ Len(all) \in Nat
    BY <1>4, AspBoundsAssumption, SMTT(30)
  <2>2. \E x \in {MaxSets, Len(all)} : \A y \in {MaxSets, Len(all)} : x =< y
    BY <2>1, SMTT(30)
  <2>3. size \in {MaxSets, Len(all)} /\ \A y \in {MaxSets, Len(all)} : size =< y
    BY <2>2 DEF Min
  <2> QED BY <2>3
<1> HIDE DEF size
<1>6. size \in Nat /\ size >= 1 /\ MaxSets \in Nat
  BY <1>4, <1>5, AspBoundsAssumption, SMTT(30)
<1> HIDE DEF files
<1>7. /\ files \in Seq(R) /\ Len(files) = size
      /\ \A k \in 1 .. size : files[k] = all[k]
  BY <1>3, <1>4, <1>5, <1>6, SMTT(30)
<1>8. /\ Len(files) <= MaxSets /\ files # << >> /\ files[1] = root
      /\ DOMAIN files = 1 .. size
  BY <1>4, <1>5, <1>6, <1>7, SMTT(30)
<1>9. ASSUME NEW other, NEW n \in Nat, n < MaxSets, Within(other, n)
      PROVE  \E k \in DOMAIN files : k <= n + 1 /\ files[k] = other
  <2>1. PICK k \in DOMAIN sets : k <= n /\ sets[k] = other
    BY <1>9 DEF Within
  <2>2. CASE other = root
    <3>1. 1 \in DOMAIN files /\ 1 <= n + 1
      BY <1>6, <1>8, SMTT(30)
    <3> QED BY <3>1, <2>2, <1>8
  <2>3. CASE other # root
    <3>1. PICK j \in DOMAIN rest : j <= k /\ rest[j] = other
      BY <2>1, <2>3, <1>2
    <3>2. k \in Nat /\ j \in Nat /\ j >= 1 /\ j <= Len(rest)
      BY <1>0, <1>1, SMTT(30)
    <3>3. j + 1 \in 1 .. size /\ j + 1 <= n + 1
      <4>1. \A a, b, c, l, m, z \in Nat :
              /\ 1 <= a /\ a <= b /\ b <= c /\ c < m /\ a <= l
              /\ z = m \/ z = l + 1
              => a + 1 \in 1 .. z /\ a + 1 <= c + 1
        BY SMTT(30)
      <4>2. 1 <= j /\ Len(rest) \in Nat /\ (size = MaxSets \/ size = Len(rest) + 1)
        BY <3>2, <1>4, <1>5, SMTT(30)
      <4> QED BY <4>1, <4>2, <3>1, <3>2, <2>1, <1>6, <1>9
    <3> QED BY <3>1, <3>3, <1>4, <1>7, <1>8
  <2> QED BY <2>2, <2>3
<1> QED BY <1>7, <1>8, <1>9 DEF files, R

\* Only the comparison with the chain writes a manifest.
LEMMA SetsSteps ==
  ASSUME Next \/ UNCHANGED vars, ~ CompareAsp
  PROVE  sets' = sets
<1>1. ASSUME NEW topic, PoolEvent(topic) PROVE sets' = sets
  BY <1>1 DEF PoolEvent
<1>2. ASSUME NEW tx, Include(tx) PROVE sets' = sets
  BY <1>2 DEF Include
<1>3. CASE CloseLedger \/ TickFails \/ Crash \/ UNCHANGED vars
  BY <1>3 DEF CloseLedger, TickFails, Crash, vars
<1>4. CASE TickStep
  <2>1. CASE readDeposits \/ Screen \/ Confirmed \/ NotConfirmed
    BY <2>1 DEF readDeposits, Screen, Confirmed, NotConfirmed
  <2>2. CASE PostAspRoot \/ PostStateRoot
    BY <2>2 DEF PostAspRoot, PostStateRoot, Post
  <2>3. CASE ReadDepositLeaves \/ ReadWithdrawLeaves \/ MergeLeaves
             \/ CompareState \/ Save
    BY <2>3 DEF ReadDepositLeaves, ReadWithdrawLeaves, MergeLeaves, CompareState, Save
  <2> QED BY <1>4, <2>1, <2>2, <2>3 DEF TickStep
<1>5. ASSUME NEW i, Reinstate(i) PROVE sets' = sets
  BY <1>5 DEF Reinstate
<1> QED BY <1>1, <1>2, <1>3, <1>4, <1>5 DEF Next

\* The chain's variables keep their types: a root that is sent comes from the
\* lists of a PoolState.
LEMMA ChainTypesStep ==
  ASSUME Types, Next \/ UNCHANGED vars
  PROVE  ChainTypes'
<1>1. ChainTypes /\ TickTypes /\ work.approvedIndices \in Seq(Nat)
  BY DEF Types, Known, IsPoolState
<1>2. ASSUME NEW topic \in {"Deposit", "Withdraw"}, PoolEvent(topic) PROVE ChainTypes'
  <2> DEFINE event == [topic |-> topic, ledger |-> now]
  <2>1. event \in Event
    BY <1>1, SMTT(30) DEF Event, ChainTypes
  <2>2. log' = Append(log, event) /\ Len(log) < MaxEvents
    BY <1>2 DEF PoolEvent
  <2> HIDE DEF event
  <2>3. log' \in Seq(Event) /\ Len(log') <= MaxEvents
    BY <2>1, <2>2, <1>1, AspBoundsAssumption, SMTT(30) DEF ChainTypes
  <2> QED BY <1>1, <1>2, <2>3 DEF PoolEvent, ChainTypes
<1>3. CASE CloseLedger
  <2>1. now' \in Nat \ {0}
    BY <1>1, <1>3, SMTT(30) DEF CloseLedger, ChainTypes
  <2> QED BY <1>1, <1>3, <2>1 DEF CloseLedger, ChainTypes
<1>4. ASSUME NEW tx \in txs, Include(tx) PROVE ChainTypes'
  <2>1. tx \in Tx
    BY <1>1 DEF ChainTypes
  <2>2. tx.root \in Seq(Nat) /\ tx.seq \in Nat /\ tx.kind \in {"asp", "state"} /\ now \in Nat
    BY <2>1, <1>1 DEF Tx, ChainTypes
  <2> DEFINE entry == [root |-> tx.root, ledger |-> now]
  <2>3. entry \in [root : Seq(Nat), ledger : Nat]
    BY <2>2
  <2>4. onchain' = [onchain EXCEPT ![tx.kind] = entry]
    BY <1>4 DEF Include
  <2> HIDE DEF entry
  <2>5. onchain' \in [{"asp", "state"} -> [root : Seq(Nat), ledger : Nat]]
    BY <2>2, <2>3, <2>4, <1>1 DEF ChainTypes
  <2> QED BY <1>1, <1>4, <2>1, <2>2, <2>5 DEF Include, ChainTypes
<1>5. ASSUME NEW kind \in {"asp", "state"}, NEW root \in Seq(Nat), Post(kind, root)
      PROVE  ChainTypes'
  <2>1. seq + 1 \in Nat
    BY <1>1, SMTT(30) DEF ChainTypes
  <2>2. mytx' \in Tx
    BY <1>5, <2>1 DEF Post, Tx
  <2> QED BY <1>1, <1>5, <2>2 DEF Post, ChainTypes
<1>6. stateRoot \in Seq(Nat)
  <2>1. work.stateLeaves \in SUBSET Leaves /\ work.stateLeaves \in SUBSET Nat
    BY DEF Types, Known, IsPoolState
  <2>2. work.stateLeaves \in SUBSET Int /\ IsFiniteSet(work.stateLeaves)
    BY <1>1, <2>1, LeavesFinite
  <2>3. stateRoot \in Seq(work.stateLeaves)
    BY <2>2, OrderFacts DEF stateRoot
  <2> QED BY <2>1, <2>3, SMTT(30)
<1>7. CASE PostAspRoot \/ PostStateRoot
  BY <1>1, <1>5, <1>6, <1>7 DEF PostAspRoot, PostStateRoot
<1>8. CASE UNCHANGED chain
  BY <1>1, <1>8 DEF chain, ChainTypes
<1>9. CASE TickStep
  <2>1. CASE readDeposits \/ Screen \/ CompareAsp \/ Confirmed \/ NotConfirmed
    BY <1>8, <2>1 DEF readDeposits, Screen, CompareAsp, Confirmed, NotConfirmed
  <2>2. CASE ReadDepositLeaves \/ ReadWithdrawLeaves \/ MergeLeaves
             \/ CompareState \/ Save
    BY <1>8, <2>2 DEF ReadDepositLeaves, ReadWithdrawLeaves, MergeLeaves,
                      CompareState, Save
  <2> QED BY <1>7, <1>9, <2>1, <2>2 DEF TickStep
<1>10. CASE TickFails \/ Crash \/ UNCHANGED vars
  BY <1>8, <1>10 DEF TickFails, Crash, vars
<1>11. ASSUME NEW i, Reinstate(i) PROVE ChainTypes'
  BY <1>8, <1>11 DEF Reinstate
<1> QED BY <1>2, <1>3, <1>4, <1>9, <1>10, <1>11 DEF Next

\* So do the tick's: what it reads are leaves of the pool.
LEMMA TickTypesStep ==
  ASSUME Types, Next \/ UNCHANGED vars
  PROVE  TickTypes'
<1>1. ChainTypes /\ TickTypes /\ work.approvedIndices \in Seq(Nat)
  BY DEF Types, Known, IsPoolState
<1>2. Leaves \subseteq Leaves' /\ ChainTypes'
  BY <1>1, LogSteps, LogGrows, ChainTypesStep
<1>3. \A topic, from : getEvents(topic, from) \subseteq Leaves
  BY DEF getEvents
<1>4. batch' \subseteq Leaves' /\ seen' \subseteq Leaves'
  <2> DEFINE Goal == batch' \subseteq Leaves' /\ seen' \subseteq Leaves'
  <2> SUFFICES Goal
    OBVIOUS
  <2>0. batch \subseteq Leaves' /\ seen \subseteq Leaves'
    BY <1>1, <1>2 DEF TickTypes
  <2>1. TickEnds => Goal
    BY DEF TickEnds
  <2>2. UNCHANGED <<batch, seen>> => Goal
    BY <2>0
  <2> HIDE DEF Goal
  <2>3. CASE UNCHANGED vars
    BY <2>2, <2>3 DEF vars, tick
  <2>4. ASSUME NEW topic, PoolEvent(topic) PROVE Goal
    BY <2>2, <2>4 DEF PoolEvent, tick
  <2>5. CASE CloseLedger
    BY <2>2, <2>5 DEF CloseLedger, tick
  <2>6. ASSUME NEW tx, Include(tx) PROVE Goal
    BY <2>2, <2>6 DEF Include, tick
  <2>7. CASE readDeposits
    <3>1. batch' \subseteq Leaves /\ seen' = seen
      BY <2>7, <1>3 DEF readDeposits
    <3> QED BY <3>1, <2>0, <1>2 DEF Goal
  <2>8. CASE Screen
    <3>1. TickEnds \/ (batch' = {} /\ seen' = seen)
      BY <2>8 DEF Screen
    <3> QED BY <3>1, <2>0, <2>1 DEF Goal
  <2>9. CASE CompareAsp \/ PostAspRoot \/ PostStateRoot \/ Confirmed \/ CompareState
    BY <2>2, <2>9 DEF CompareAsp, PostAspRoot, PostStateRoot, Post, Confirmed, CompareState
  <2>10. CASE NotConfirmed \/ Save \/ TickFails \/ Crash
    BY <2>1, <2>10 DEF NotConfirmed, Save, TickFails, Crash
  <2>11. CASE ReadDepositLeaves \/ ReadWithdrawLeaves
    <3>1. batch' = batch /\ \E topic, from : seen' \subseteq seen \cup getEvents(topic, from)
      BY <2>11 DEF ReadDepositLeaves, ReadWithdrawLeaves
    <3> QED BY <3>1, <2>0, <1>2, <1>3 DEF Goal
  <2>12. CASE MergeLeaves
    <3>1. TickEnds \/ (batch' = batch /\ seen' = {})
      BY <2>12 DEF MergeLeaves
    <3> QED BY <3>1, <2>0, <2>1 DEF Goal
  <2>13. ASSUME NEW i, Reinstate(i) PROVE Goal
    BY <2>2, <2>13 DEF Reinstate
  <2> QED BY <2>3, <2>4, <2>5, <2>6, <2>7, <2>8, <2>9, <2>10, <2>11, <2>12, <2>13
          DEF Next, TickStep
<1>5. mytx' \in Tx \cup {NoTx} /\ failures' \in Nat
  <2> DEFINE Goal == mytx' \in Tx \cup {NoTx} /\ failures' \in Nat
  <2> SUFFICES Goal
    OBVIOUS
  <2>0. failures + 1 \in Nat
    BY <1>1, SMTT(30) DEF TickTypes
  <2>1. TickEnds /\ failures' \in {failures, failures + 1} => Goal
    BY <2>0, <1>1 DEF TickEnds, TickTypes
  <2>2. mytx' \in {mytx, NoTx} /\ failures' = failures => Goal
    BY <1>1 DEF TickTypes
  <2>3. ASSUME NEW kind, NEW root, Post(kind, root) PROVE Goal
    <3>1. mytx' \in txs' /\ failures' = failures
      BY <2>3 DEF Post
    <3> QED BY <3>1, <1>1, <1>2 DEF ChainTypes, TickTypes
  <2> HIDE DEF Goal
  <2>4. CASE UNCHANGED vars
    BY <2>2, <2>4 DEF vars, tick
  <2>5. ASSUME NEW topic, PoolEvent(topic) PROVE Goal
    BY <2>2, <2>5 DEF PoolEvent, tick
  <2>6. CASE CloseLedger
    BY <2>2, <2>6 DEF CloseLedger, tick
  <2>7. ASSUME NEW tx, Include(tx) PROVE Goal
    BY <2>2, <2>7 DEF Include, tick
  <2>8. CASE Screen \/ MergeLeaves
    <3>1. failures' = failures /\ (TickEnds \/ mytx' = mytx)
      BY <2>8 DEF Screen, MergeLeaves
    <3> QED BY <3>1, <2>1, <2>2
  <2>9. CASE readDeposits \/ CompareAsp \/ Confirmed \/ CompareState
             \/ ReadDepositLeaves \/ ReadWithdrawLeaves
    BY <2>2, <2>9 DEF readDeposits, CompareAsp, Confirmed, CompareState,
                      ReadDepositLeaves, ReadWithdrawLeaves
  <2>10. CASE PostAspRoot \/ PostStateRoot
    BY <2>3, <2>10 DEF PostAspRoot, PostStateRoot
  <2>11. CASE NotConfirmed \/ Save \/ TickFails \/ Crash
    BY <2>1, <2>11 DEF NotConfirmed, Save, TickFails, Crash
  <2>12. ASSUME NEW i, Reinstate(i) PROVE Goal
    BY <2>2, <2>12 DEF Reinstate
  <2> QED BY <2>4, <2>5, <2>6, <2>7, <2>8, <2>9, <2>10, <2>11, <2>12
          DEF Next, TickStep
<1>6. sets' \in Seq(Seq(Nat))
  <2>1. CASE CompareAsp
    <3>1. sets' = sets \/ sets' = writeManifest(work.approvedIndices)
      BY <2>1 DEF CompareAsp
    <3> QED BY <3>1, <1>1, ManifestFacts DEF TickTypes
  <2>2. CASE ~ CompareAsp
    BY <2>2, <1>1, SetsSteps DEF TickTypes
  <2> QED BY <2>1, <2>2
<1> QED BY <1>4, <1>5, <1>6 DEF TickTypes

\* All types hold in every state.
THEOREM AspTypes == Spec => []Types
<1>1. Init => Types
  <2>1. ASSUME Init PROVE ChainTypes /\ TickTypes /\ Known(initState)
    <3>1. Init
      BY <2>1
    <3>2. log = << >> /\ Len(log) = 0 /\ << >> \in Seq(Event) /\ << >> \in Seq(Nat)
          /\ << >> \in Seq(Seq(Nat)) /\ 1 \in Nat \ {0} /\ 0 \in Nat /\ 0 <= MaxEvents
      BY <3>1, AspBoundsAssumption, SMTT(30) DEF Init
    <3>3. onchain \in [{"asp", "state"} -> [root : Seq(Nat), ledger : Nat]]
      <4>1. NoRoot \in [root : Seq(Nat), ledger : Nat]
        BY <3>2 DEF NoRoot
      <4>2. onchain = [asp |-> NoRoot, state |-> NoRoot]
        BY <3>1 DEF Init
      <4> HIDE DEF NoRoot
      <4> QED BY <4>1, <4>2, SMTT(30)
    <3>4. ChainTypes
      BY <3>1, <3>2, <3>3 DEF Init, ChainTypes
    <3>5. TickTypes
      BY <3>1, <3>2 DEF Init, TickTypes
    <3>6. IsPoolState(initState)
      <4>1. DOMAIN initState = Fields
        BY SMTT(30) DEF initState, Fields
      <4>2. -1 \in Int
        BY SMTT(30)
      <4> QED BY <4>1, <4>2, <3>2 DEF IsPoolState, initState
    <3>7. Range(initState.approvedIndices) = {}
      BY SMTT(30) DEF initState, Range
    <3> QED BY <3>4, <3>5, <3>6, <3>7 DEF Known, initState
  <2> QED BY <2>1 DEF Init, Types
<1>2. Types /\ [Next]_vars => Types'
  <2>1. SUFFICES ASSUME Types, Next \/ UNCHANGED vars PROVE Types'
    OBVIOUS
  <2>2. Known(store') /\ Known(work')
    BY <2>1, StatesCome, ComesKnown
  <2>3. Leaves \subseteq Leaves'
    BY <2>1, LogSteps, LogGrows DEF Types
  <2>4. Known(store)' /\ Known(work)'
    BY <2>2, <2>3 DEF Known, IsPoolState
  <2> QED BY <2>1, <2>4, ChainTypesStep, TickTypesStep DEF Types
<1> QED BY <1>1, <1>2, PTL DEF Spec

-----------------------------------------------------------------------------
(* One decision per deposit.                                               *)

Once(state) ==
  /\ IsInjective(state.approvedIndices)
  /\ Range(state.approvedIndices) \cap state.rejectedIndices = {}

\* What is in ascending order has no element twice.
LEMMA AscendingInjective ==
  ASSUME NEW s \in Seq(Nat), Ascending(s)
  PROVE  IsInjective(s)
<1>1. SUFFICES ASSUME NEW a \in DOMAIN s, NEW b \in DOMAIN s, s[a] = s[b] PROVE a = b
  BY DEF IsInjective
<1>2. a \in Nat /\ b \in Nat /\ s[a] \in Nat
  BY SMTT(30)
<1>3. ~ (a < b) /\ ~ (b < a)
  <2>1. ~ (s[a] < s[b]) /\ ~ (s[b] < s[a])
    BY <1>1, <1>2, SMTT(30)
  <2> QED BY <2>1 DEF Ascending
<1> QED BY <1>2, <1>3, SMTT(30)

\* Neither has a sequence that is put together from two such without a common
\* element.
LEMMA InjectiveConcat ==
  ASSUME NEW s \in Seq(Nat), NEW t \in Seq(Nat), IsInjective(s), IsInjective(t),
         Range(s) \cap Range(t) = {}
  PROVE  IsInjective(s \o t)
<1> DEFINE u == s \o t
           n == Len(s)
<1>1. DOMAIN s = 1 .. n /\ DOMAIN t = 1 .. Len(t) /\ n \in Nat
  BY SMTT(30)
<1>2. DOMAIN u \subseteq Nat
  BY SMTT(30)
<1>3. \A k \in DOMAIN u : \/ k \in DOMAIN s /\ u[k] = s[k]
                          \/ k - n \in DOMAIN t /\ u[k] = t[k - n]
  BY SMTT(30)
<1> HIDE DEF u, n
<1>4. SUFFICES ASSUME NEW a \in DOMAIN u, NEW b \in DOMAIN u, u[a] = u[b] PROVE a = b
  BY DEF IsInjective, u
<1>5. CASE a \in DOMAIN s /\ u[a] = s[a]
  <2>1. u[a] \in Range(s)
    BY <1>5 DEF Range
  <2>2. ~ (b - n \in DOMAIN t /\ u[b] = t[b - n])
    BY <2>1, <1>4 DEF Range
  <2> QED BY <2>2, <1>3, <1>4, <1>5 DEF IsInjective
<1>6. CASE a - n \in DOMAIN t /\ u[a] = t[a - n]
  <2>1. u[a] \in Range(t)
    BY <1>6 DEF Range
  <2>2. ~ (b \in DOMAIN s /\ u[b] = s[b])
    BY <2>1, <1>4 DEF Range
  <2>3. a - n = b - n
    BY <2>2, <1>3, <1>4, <1>6 DEF IsInjective
  <2>4. a \in Nat /\ b \in Nat
    BY <1>2
  <2> QED BY <2>3, <2>4, <1>1, SMTT(30)
<1> QED BY <1>3, <1>5, <1>6

\* Every PoolState a step can leave decides a deposit once: screening leaves
\* the decided out, and reinstating takes the deposit from the rejected.
LEMMA ComesOnce ==
  ASSUME Types, Once(store), Once(work), NEW state, Comes(state)
  PROVE  Once(state)
<1>1. ASSUME NEW verdict \in Screenings, state = screened(verdict)
      PROVE  Once(state)
  <2> DEFINE by(v) == {i \in DOMAIN verdict : verdict[i] = v}
             new == InOrder(by("approve"))
  <2>1. DOMAIN verdict \in SUBSET batch /\ ScreenedTo(state, verdict)
    BY <1>1, ScreenedFacts
  <2>2. /\ state.approvedIndices = work.approvedIndices \o new
        /\ Range(state.approvedIndices) = Range(work.approvedIndices) \cup by("approve")
        /\ state.rejectedIndices = work.rejectedIndices \cup by("reject")
    BY <2>1 DEF ScreenedTo
  <2>3. \A i \in DOMAIN verdict :
          i \notin Range(work.approvedIndices) /\ i \notin work.rejectedIndices
    BY DEF Screenings, undecided
  <2>4. Range(state.approvedIndices) \cap state.rejectedIndices = {}
    <3>1. by("approve") \cap by("reject") = {}
      OBVIOUS
    <3>2. \A v : by(v) \cap (Range(work.approvedIndices) \cup work.rejectedIndices) = {}
      BY <2>3
    <3> HIDE DEF by
    <3> QED BY <2>2, <3>1, <3>2 DEF Once
  <2>5. by("approve") \in SUBSET Leaves /\ ChainTypes
    BY <2>1 DEF Types, TickTypes
  <2>6. by("approve") \in SUBSET Int /\ by("approve") \in SUBSET Nat
        /\ IsFiniteSet(by("approve"))
    BY <2>5, LeavesFinite
  <2>7. new \in Seq(Nat) /\ Range(new) = by("approve") /\ IsInjective(new)
    <3>1. new \in Seq(by("approve")) /\ Range(new) = by("approve") /\ Ascending(new)
      BY <2>6, OrderFacts
    <3> HIDE DEF by, new
    <3> QED BY <3>1, <2>6, SeqOfNat, AscendingInjective
  <2>8. work.approvedIndices \in Seq(Nat) /\ IsInjective(work.approvedIndices)
    BY DEF Types, Known, IsPoolState, Once
  <2>9. Range(work.approvedIndices) \cap Range(new) = {}
    BY <2>3, <2>7
  <2> HIDE DEF new
  <2>10. IsInjective(state.approvedIndices)
    <3> DEFINE old == work.approvedIndices
    <3> HIDE DEF old
    <3>1. old \in Seq(Nat) /\ IsInjective(old) /\ Range(old) \cap Range(new) = {}
      BY <2>8, <2>9 DEF old
    <3>2. IsInjective(old \o new)
      BY <2>7, <3>1, InjectiveConcat
    <3> QED BY <2>2, <3>2 DEF old
  <2> QED BY <2>4, <2>10 DEF Once
<1>2. CASE state = merged
  <2>1. state.approvedIndices = work.approvedIndices
        /\ state.rejectedIndices = work.rejectedIndices
    BY <1>2, MergedFacts
  <2> QED BY <2>1 DEF Once
<1>3. ASSUME NEW i \in store.rejectedIndices, state = reinstated(i) PROVE Once(state)
  <2>1. /\ IsPoolState(state) /\ Ascending(state.approvedIndices)
        /\ Range(state.approvedIndices) = Range(store.approvedIndices) \cup {i}
        /\ state.rejectedIndices = store.rejectedIndices \ {i}
    BY <1>3, ReinstatedFacts
  <2>2. IsInjective(state.approvedIndices)
    BY <2>1, AscendingInjective DEF IsPoolState
  <2> QED BY <2>1, <2>2 DEF Once
<1> QED BY <1>1, <1>2, <1>3 DEF Comes

\* Whatever fails, is deferred or is appealed, no deposit is approved twice or
\* both approved and rejected (runPoolTick, scripts/reinstate.ts).
THEOREM DecidedOnceHolds == Spec => []DecidedOnce
<1> DEFINE Inv == Once(store) /\ Once(work)
<1>1. Init => Inv
  <2>1. Range(<< >>) = {} /\ IsInjective(<< >>)
    BY SMTT(30) DEF Range, IsInjective
  <2>2. /\ initState.approvedIndices = << >>
        /\ initState.rejectedIndices = {}
    BY SMTT(30) DEF initState
  <2>3. Once(initState)
    BY <2>1, <2>2 DEF Once
  <2> QED BY <2>3 DEF Init, Once
<1>2. Inv /\ Types /\ [Next]_vars => Inv'
  <2>1. SUFFICES ASSUME Inv, Types, Next \/ UNCHANGED vars PROVE Inv'
    OBVIOUS
  <2>2. Once(store') /\ Once(work')
    BY <2>1, StatesCome, ComesOnce
  <2> QED BY <2>2 DEF Once
<1>3. Inv => DecidedOnce
  BY DEF Once, DecidedOnce
<1> QED BY <1>1, <1>2, <1>3, AspTypes, PTL DEF Spec

-----------------------------------------------------------------------------
(* The state roots that are sent.                                          *)

\* The leaves the tick has read have no hole.
LeavesWhole(leaves) == \E n \in 1 .. Len(log) : leaves = 0 .. (n - 1)
RootsInv ==
  /\ pc \in {"compare_state", "post_state"} => LeavesWhole(work.stateLeaves)
  /\ StateRootsAreReal

\* Leaves without a hole are the first leaves of the pool.
LEMMA NoHoleWhole ==
  ASSUME ChainTypes, NEW S \in SUBSET Leaves, S # {}, ~ hasHole(S)
  PROVE  LeavesWhole(S)
<1>1. S \in SUBSET Int /\ IsFiniteSet(S) /\ Leaves \in SUBSET Nat
  BY LeavesFinite
<1> DEFINE m == Max(S)
<1>2. m \in S /\ \A y \in S : m >= y
  BY <1>1, MaxFacts
<1>3. \A i \in 0 .. m : i \in S
  BY DEF hasHole
<1> HIDE DEF m
<1>4. m \in Nat /\ m + 1 \in 1 .. Len(log) /\ (m + 1) - 1 = m /\ \A y \in S : y \in Nat
  <2>1. m \in Leaves /\ \A y \in S : y \in Leaves
    BY <1>2
  <2> QED BY <2>1, SMTT(30) DEF Leaves, ChainTypes
<1>5. \A y \in S : y \in 0 .. m
  BY <1>2, <1>4, SMTT(30)
<1>6. S = 0 .. m
  BY <1>3, <1>5
<1> QED BY <1>4, <1>6 DEF LeavesWhole

\* When it is sent, a state root has the pool's first leaves.
LEMMA StateRootReal ==
  ASSUME ChainTypes, LeavesWhole(work.stateLeaves)
  PROVE  /\ Len(stateRoot) \in 1 .. Len(log)
         /\ \A k \in 1 .. Len(stateRoot) : stateRoot[k] = k - 1
<1>1. PICK n \in 1 .. Len(log) : work.stateLeaves = 0 .. (n - 1)
  BY DEF LeavesWhole
<1>2. n \in Nat
  BY SMTT(30) DEF ChainTypes
<1>3. stateRoot = InOrder(0 .. (n - 1))
  BY <1>1 DEF stateRoot
<1> QED BY <1>2, <1>3, OrderOfInterval

\* A step that sends no state root and reaches no comparison keeps the
\* invariant: the log only grows.
LEMMA RootsStay ==
  ASSUME Types, RootsInv, Next \/ UNCHANGED vars,
         \A tx \in txs' : tx \in txs \/ tx.kind # "state",
         pc' \in {"compare_state", "post_state"} =>
           pc \in {"compare_state", "post_state"} /\ work' = work
  PROVE  RootsInv'
<1>1. Len(log) \in Nat /\ Len(log') \in Nat /\ Len(log) <= Len(log')
  <2>1. ChainTypes /\ LogStep
    BY LogSteps DEF Types
  <2>2. CASE log' = log
    BY <2>1, <2>2, SMTT(30) DEF ChainTypes
  <2>3. ASSUME NEW event, log' = Append(log, event)
        PROVE  Len(log) \in Nat /\ Len(log') \in Nat /\ Len(log) <= Len(log')
    BY <2>1, <2>3, SMTT(30) DEF ChainTypes
  <2> QED BY <2>1, <2>2, <2>3 DEF LogStep
<1>2. \A n \in 1 .. Len(log) : n \in 1 .. Len(log')
  BY <1>1, SMTT(30)
<1>3. pc' \in {"compare_state", "post_state"} => LeavesWhole(work.stateLeaves)'
  BY <1>2 DEF RootsInv, LeavesWhole
<1>4. StateRootsAreReal'
  BY <1>2 DEF RootsInv, StateRootsAreReal
<1> QED BY <1>3, <1>4 DEF RootsInv

\* The steps before the comparison, those that end the tick, and those of others.
LEMMA RootsStep ==
  ASSUME Types, RootsInv, Next \/ UNCHANGED vars
  PROVE  RootsInv'
<1>0. ChainTypes
  BY DEF Types
<1>1. CASE UNCHANGED vars
  BY <1>1, RootsStay DEF vars, chain, tick
<1>2. ASSUME NEW topic, PoolEvent(topic) PROVE RootsInv'
  BY <1>2, RootsStay DEF PoolEvent, tick
<1>3. CASE CloseLedger
  BY <1>3, RootsStay DEF CloseLedger, tick
<1>4. ASSUME NEW tx, Include(tx) PROVE RootsInv'
  BY <1>4, RootsStay DEF Include, tick
<1>5. CASE readDeposits
  BY <1>5, RootsStay DEF readDeposits, chain
<1>6. CASE Screen
  <2>1. txs' = txs /\ pc' \in {"idle", "compare_asp"}
    BY <1>6 DEF Screen, TickEnds, chain
  <2> QED BY <2>1, RootsStay
<1>7. CASE CompareAsp
  <2>1. txs' = txs /\ pc' \in {"post_asp", "read_deposit_leaves"}
    BY <1>7 DEF CompareAsp, chain
  <2> QED BY <2>1, RootsStay
<1>8. CASE PostAspRoot
  <2>1. txs' = txs \cup {mytx'} /\ mytx'.kind = "asp" /\ pc' = "confirm"
    BY <1>8 DEF PostAspRoot, Post
  <2> QED BY <2>1, RootsStay
<1>9. CASE Confirmed
  <2>1. txs' = txs /\ pc' \in {"save", "read_deposit_leaves"}
    BY <1>9 DEF Confirmed, chain
  <2> QED BY <2>1, RootsStay
<1>10. CASE NotConfirmed \/ Save \/ TickFails \/ Crash
  <2>1. txs' = txs /\ pc' = "idle"
    BY <1>10 DEF NotConfirmed, Save, TickFails, Crash, TickEnds, chain
  <2> QED BY <2>1, RootsStay
<1>11. CASE ReadDepositLeaves \/ ReadWithdrawLeaves
  <2>1. txs' = txs /\ pc' \in {"read_withdraw_leaves", "merge_leaves"}
    BY <1>11 DEF ReadDepositLeaves, ReadWithdrawLeaves, chain
  <2> QED BY <2>1, RootsStay
<1>12. CASE MergeLeaves
  <2> DEFINE leaves == work.stateLeaves \cup seen
  <2>1. txs' = txs /\ log' = log
    BY <1>12 DEF MergeLeaves, chain
  <2>2. CASE pc' # "compare_state"
    <3>1. pc' \in {"idle", "save", "compare_state"}
      BY <1>12 DEF MergeLeaves, TickEnds
    <3> QED BY <2>1, <2>2, <3>1, RootsStay
  <2>3. CASE pc' = "compare_state"
    <3>1. leaves # {} /\ ~ hasHole(leaves) /\ work' = merged
      BY <1>12, <2>3 DEF MergeLeaves, TickEnds, merged
    <3>2. merged.stateLeaves = leaves /\ leaves \in SUBSET Leaves
      BY MergedFacts DEF Types, TickTypes, Known
    <3> HIDE DEF leaves
    <3>3. LeavesWhole(leaves)
      BY <1>0, <3>1, <3>2, NoHoleWhole
    <3>4. LeavesWhole(work.stateLeaves)'
      BY <2>1, <3>1, <3>2, <3>3 DEF LeavesWhole
    <3> QED BY <2>1, <3>4 DEF RootsInv, StateRootsAreReal
  <2> QED BY <2>2, <2>3
<1>13. CASE CompareState
  <2>1. txs' = txs /\ work' = work /\ pc = "compare_state"
    BY <1>13 DEF CompareState, chain
  <2> QED BY <2>1, RootsStay
<1>14. CASE PostStateRoot
  <2>1. /\ pc = "post_state" /\ pc' = "confirm" /\ log' = log
        /\ txs' = txs \cup {mytx'} /\ mytx'.root = stateRoot
    BY <1>14 DEF PostStateRoot, Post
  <2>2. /\ Len(stateRoot) \in 1 .. Len(log)
        /\ \A k \in 1 .. Len(stateRoot) : stateRoot[k] = k - 1
    BY <1>0, <2>1, StateRootReal DEF RootsInv
  <2> QED BY <2>1, <2>2 DEF RootsInv, StateRootsAreReal
<1>15. ASSUME NEW i, Reinstate(i) PROVE RootsInv'
  <2>1. txs' = txs /\ pc' = pc /\ (pc # "idle" => work' = work)
    BY <1>15 DEF Reinstate, chain
  <2> QED BY <2>1, RootsStay
<1> QED
  BY <1>1, <1>2, <1>3, <1>4, <1>5, <1>6, <1>7, <1>8, <1>9, <1>10, <1>11, <1>12,
     <1>13, <1>14, <1>15 DEF Next, TickStep

\* No state root with a hole or with a leaf the pool does not have is ever
\* sent (readStateLeaves and runPoolTick), for every policy and
\* every schedule of events, ledgers, failures and crashes.
THEOREM StateRootsHold == Spec => []StateRootsAreReal
<1>1. Init => RootsInv
  BY DEF Init, RootsInv, StateRootsAreReal
<1>2. RootsInv /\ Types /\ [Next]_vars => RootsInv'
  BY RootsStep
<1>3. RootsInv => StateRootsAreReal
  BY DEF RootsInv
<1> QED BY <1>1, <1>2, <1>3, AspTypes, PTL DEF Spec

-----------------------------------------------------------------------------
(* The manifest of the root on chain.                                      *)

\* The tick is about to send an association set, or its transaction may
\* still be included.
Waiting == pc = "post_asp" \/ (pc = "confirm" /\ mytx.kind = "asp" /\ mytx \in txs)

\* Transactions no tick waits for any more.
Orphans == txs \ (IF pc = "confirm" THEN {mytx} ELSE {})
StateOrphan == \E t \in Orphans : t.kind = "state"

WW == IF Waiting THEN 1 ELSE 0
SS == IF StateOrphan THEN 1 ELSE 0

\* Where the manifests are of the root on chain and of those that may come
\* there: each failed tick, and the set the tick is about to publish, push
\* them down by one.  A pending state transaction takes the sequence number of
\* the association set that waits beside it, so one place is left over.
Places ==
  failures + 2 <= MaxSets =>
    /\ onchain["asp"].root # << >> =>
         Within(onchain["asp"].root, failures + 1 + WW - SS)
    /\ \A t \in Orphans : t.kind = "asp" => Within(t.root, failures + WW)

ServedInv ==
  /\ \A t \in txs : t.seq = seq + 1
  /\ landed.seq <= seq
  /\ Len(sets) <= MaxSets
  /\ pc = "post_asp" => sets # << >> /\ sets[1] = work.approvedIndices
  /\ pc = "confirm" /\ mytx.kind = "asp" => sets # << >> /\ sets[1] = mytx.root
  /\ Places

\* A manifest among the first n is among the first m, for a larger m.
LEMMA WithinMore ==
  ASSUME sets \in Seq(Seq(Nat)), NEW root, NEW n \in Int, NEW m \in Int, n <= m,
         Within(root, n)
  PROVE  Within(root, m)
<1>1. PICK k \in DOMAIN sets : k <= n /\ sets[k] = root
  BY DEF Within
<1>2. k <= m
  <2>1. k \in Int
    BY SMTT(30)
  <2> QED BY <1>1, <2>1, SMTT(30)
<1> QED BY <1>1, <1>2 DEF Within

\* The newest manifest is among the first n.
LEMMA WithinFirst ==
  ASSUME sets \in Seq(Seq(Nat)), sets # << >>, NEW n \in Int, 1 <= n
  PROVE  Within(sets[1], n)
<1>1. 1 \in DOMAIN sets
  BY SMTT(30)
<1> QED BY <1>1 DEF Within

\* A step that publishes and sends nothing leaves the manifests in place.
LEMMA PlacesKept ==
  ASSUME Types, Places, sets' = sets, failures' = failures,
         onchain'["asp"].root = onchain["asp"].root,
         Orphans' \subseteq Orphans, Waiting' = Waiting
  PROVE  Places'
<1>0. failures \in Int /\ WW \in {0, 1} /\ SS \in {0, 1} /\ SS' \in {0, 1}
      /\ sets \in Seq(Seq(Nat))
  BY SMTT(30) DEF Types, TickTypes, WW, SS
<1>1. WW' = WW
  BY DEF WW
<1>2. SS' <= SS
  <2>1. StateOrphan' => StateOrphan
    BY DEF StateOrphan
  <2> QED BY <2>1, SMTT(30) DEF SS
<1> DEFINE n == failures + 1 + WW - SS
           m == failures + 1 + WW - SS'
<1>3. n \in Int /\ m \in Int /\ n <= m
  <2>1. \A f, w, s, r \in Int : r <= s =>
          /\ f + 1 + w - s \in Int /\ f + 1 + w - r \in Int
          /\ f + 1 + w - s <= f + 1 + w - r
    BY SMTT(30)
  <2>2. WW \in Int /\ SS \in Int /\ SS' \in Int
    BY <1>0, SMTT(30)
  <2> QED BY <1>0, <1>2, <2>1, <2>2
<1>4. ASSUME failures + 2 <= MaxSets, onchain["asp"].root # << >>
      PROVE  Within(onchain["asp"].root, m)
  <2>1. Within(onchain["asp"].root, n)
    BY <1>4 DEF Places
  <2> HIDE DEF n, m
  <2> QED BY <1>0, <1>3, <2>1, WithinMore
<1>5. ASSUME failures + 2 <= MaxSets, NEW t \in Orphans', t.kind = "asp"
      PROVE  Within(t.root, failures + WW)
  BY <1>5 DEF Places
<1> QED BY <1>1, <1>4, <1>5 DEF Places, Within

\* A step outside of postRoot that neither publishes nor includes.
LEMMA ServedQuiet ==
  ASSUME Types, ServedInv, sets' = sets, failures' = failures,
         UNCHANGED <<onchain, seq, txs, landed>>,
         \/ pc \notin {"post_asp", "confirm"} /\ pc' \notin {"post_asp", "confirm"}
         \/ pc' = pc /\ mytx' = mytx /\ (pc = "post_asp" => work' = work)
  PROVE  ServedInv'
<1>1. Waiting' = Waiting
  BY DEF Waiting
<1>2. Orphans' = Orphans
  BY DEF Orphans
<1>3. Places'
  BY <1>1, <1>2, PlacesKept DEF ServedInv
<1> QED BY <1>3 DEF ServedInv

\* Writing the manifest pushes the others down by one, and the tick waits.
LEMMA ServedCompare ==
  ASSUME Types, ServedInv, CompareAsp
  PROVE  ServedInv'
<1>0. /\ pc = "compare_asp" /\ UNCHANGED <<onchain, seq, txs, landed, work, mytx>>
      /\ failures' = failures
  BY DEF CompareAsp, chain
<1>1. CASE pc' = "read_deposit_leaves"
  <2>1. sets' = sets
    BY <1>1 DEF CompareAsp
  <2> QED BY <1>0, <1>1, <2>1, ServedQuiet
<1>2. CASE pc' = "post_asp"
  <2> DEFINE root == work.approvedIndices
             files == writeManifest(root)
  <2>1. sets' = files
    BY <1>2 DEF CompareAsp
  <2>2. root \in Seq(Nat) /\ sets \in Seq(Seq(Nat)) /\ failures \in Nat /\ MaxSets \in Nat
    BY AspBoundsAssumption DEF Types, TickTypes, Known, IsPoolState
  <2>3. /\ Len(files) <= MaxSets /\ files # << >> /\ files[1] = root
        /\ \A other, n : n \in Nat /\ n < MaxSets /\ Within(other, n) =>
             \E k \in DOMAIN files : k <= n + 1 /\ files[k] = other
    BY <2>2, ManifestFacts
  <2>4. ASSUME NEW other, NEW n \in Nat, n < MaxSets, Within(other, n)
        PROVE  \E k \in DOMAIN sets' : k <= n + 1 /\ sets'[k] = other
    BY <2>1, <2>3, <2>4
  <2> HIDE DEF files
  <2>5. WW = 0 /\ WW' = 1 /\ Orphans' = Orphans /\ Orphans = txs
    BY <1>0, <1>2 DEF WW, Waiting, Orphans
  <2>6. SS' = SS /\ SS \in {0, 1}
    BY <2>5 DEF SS, StateOrphan
  <2> DEFINE n == failures + 1 - SS
  <2>7. ASSUME failures + 2 <= MaxSets
        PROVE  /\ n \in Nat /\ n < MaxSets /\ n = failures + 1 + 0 - SS
               /\ n + 1 = failures + 1 + 1 - SS
               /\ failures < MaxSets /\ failures + 0 = failures
    BY <2>2, <2>6, <2>7, SMTT(30)
  <2>8. ASSUME failures + 2 <= MaxSets, onchain["asp"].root # << >>
        PROVE  \E k \in DOMAIN sets' :
                 k <= failures + 1 + 1 - SS /\ sets'[k] = onchain["asp"].root
    <3>1. Within(onchain["asp"].root, n)
      BY <2>5, <2>7, <2>8 DEF ServedInv, Places
    <3> HIDE DEF n
    <3>2. \E k \in DOMAIN sets' : k <= n + 1 /\ sets'[k] = onchain["asp"].root
      BY <2>4, <2>7, <2>8, <3>1
    <3> QED BY <2>7, <2>8, <3>2
  <2>9. ASSUME failures + 2 <= MaxSets, NEW t \in Orphans, t.kind = "asp"
        PROVE  \E k \in DOMAIN sets' : k <= failures + 1 /\ sets'[k] = t.root
    <3>1. Within(t.root, failures)
      BY <2>5, <2>7, <2>9 DEF ServedInv, Places
    <3> QED BY <2>2, <2>4, <2>7, <2>9, <3>1
  <2>10. Places'
    BY <1>0, <2>5, <2>6, <2>8, <2>9 DEF Places, Within
  <2> QED BY <1>0, <1>2, <2>1, <2>3, <2>10 DEF ServedInv
<1> QED BY <1>1, <1>2 DEF CompareAsp

\* Sending takes what the tick waits for from the pending ones.
LEMMA ServedPost ==
  ASSUME Types, ServedInv, PostAspRoot \/ PostStateRoot
  PROVE  ServedInv'
<1>1. /\ txs' = txs \cup {mytx'} /\ pc' = "confirm" /\ mytx'.seq = seq + 1
      /\ UNCHANGED <<onchain, seq, landed, sets, work, failures>>
  <2>1. ASSUME NEW kind, NEW root, Post(kind, root)
        PROVE  /\ txs' = txs \cup {mytx'} /\ pc' = "confirm" /\ mytx'.seq = seq + 1
               /\ UNCHANGED <<onchain, seq, landed, sets, work, failures>>
    BY <2>1 DEF Post
  <2> QED BY <2>1 DEF PostAspRoot, PostStateRoot
<1>2. Orphans' \subseteq Orphans
  BY <1>1 DEF Orphans, PostAspRoot, PostStateRoot
<1>3. Waiting' = Waiting
  <2>1. CASE PostAspRoot
    <3>1. pc = "post_asp" /\ mytx'.kind = "asp"
      BY <2>1 DEF PostAspRoot, Post
    <3> QED BY <1>1, <3>1 DEF Waiting
  <2>2. CASE PostStateRoot
    <3>1. pc = "post_state" /\ mytx'.kind = "state"
      BY <2>2 DEF PostStateRoot, Post
    <3> QED BY <1>1, <3>1 DEF Waiting
  <2> QED BY <2>1, <2>2
<1>4. Places'
  BY <1>1, <1>2, <1>3, PlacesKept DEF ServedInv
<1>5. mytx'.kind = "asp" => sets # << >> /\ sets[1] = mytx'.root
  <2>1. CASE PostAspRoot
    <3>1. pc = "post_asp" /\ mytx'.root = work.approvedIndices
      BY <2>1 DEF PostAspRoot, Post
    <3> QED BY <3>1 DEF ServedInv
  <2>2. CASE PostStateRoot
    <3>1. mytx'.kind = "state"
      BY <2>2 DEF PostStateRoot, Post
    <3> QED BY <3>1
  <2> QED BY <2>1, <2>2
<1>6. \A t \in txs' : t.seq = seq + 1
  BY <1>1 DEF ServedInv
<1> QED BY <1>1, <1>4, <1>5, <1>6 DEF ServedInv

\* When the tick has its answer, its transaction is not pending any more.
LEMMA ServedAnswer ==
  ASSUME Types, ServedInv, Confirmed \/ NotConfirmed
  PROVE  ServedInv'
<1>1. /\ pc = "confirm" /\ pc' \in {"idle", "read_deposit_leaves", "save"}
      /\ UNCHANGED <<onchain, seq, txs, landed, sets, failures>>
  BY DEF Confirmed, NotConfirmed, TickEnds, chain
<1>2. mytx \notin txs
  <2>1. mytx.seq <= seq /\ seq \in Nat
    <3>1. CASE Confirmed
      BY <3>1 DEF Confirmed, ServedInv, Types, ChainTypes
    <3>2. CASE NotConfirmed
      <4>1. mytx.seq \in Nat
        BY SMTT(30) DEF Types, TickTypes, Tx, NoTx
      <4> QED BY <3>2, <4>1, SMTT(30) DEF NotConfirmed, Types, ChainTypes
    <3> QED BY <3>1, <3>2
  <2>2. mytx.seq # seq + 1
    <3>1. mytx.seq \in Nat
      BY SMTT(30) DEF Types, TickTypes, Tx, NoTx
    <3> QED BY <2>1, <3>1, SMTT(30)
  <2> QED BY <2>2 DEF ServedInv
<1>3. Orphans' = Orphans /\ Waiting' = Waiting
  BY <1>1, <1>2 DEF Orphans, Waiting
<1>4. Places'
  BY <1>1, <1>3, PlacesKept DEF ServedInv
<1> QED BY <1>1, <1>4 DEF ServedInv

\* A tick that dies leaves its transaction pending, and one more failure.
LEMMA ServedFailure ==
  ASSUME Types, ServedInv, TickFails \/ Crash
  PROVE  ServedInv'
<1>1. /\ pc' = "idle" /\ failures' = failures + 1
      /\ UNCHANGED <<onchain, seq, txs, landed, sets>>
  BY DEF TickFails, Crash, TickEnds, chain
<1>2. Orphans' = txs /\ WW' = 0
  BY <1>1 DEF Orphans, WW, Waiting
<1>3. failures \in Nat /\ WW \in {0, 1} /\ SS \in {0, 1} /\ SS' \in {0, 1}
      /\ sets \in Seq(Seq(Nat)) /\ MaxSets \in Nat
  BY AspBoundsAssumption, SMTT(30) DEF Types, TickTypes, WW, SS
<1>4. WW = 1 => SS' <= SS
  <2>1. ASSUME Waiting, StateOrphan' PROVE StateOrphan
    <3>1. PICK t \in txs : t.kind = "state"
      BY <1>2, <2>1 DEF StateOrphan
    <3>2. t \in Orphans
      BY <2>1, <3>1 DEF Waiting, Orphans
    <3> QED BY <3>1, <3>2 DEF StateOrphan
  <2> QED BY <2>1, <1>3, SMTT(30) DEF WW, SS
<1> DEFINE f == failures + 1
           n == failures + 1 + WW - SS
           m == f + 1 + 0 - SS'
<1>5. n \in Int /\ m \in Int /\ n <= m
  <2>1. \A e \in Nat : \A w, s, r \in {0, 1} : (w = 1 => r <= s) =>
          /\ e + 1 + w - s \in Int /\ (e + 1) + 1 + 0 - r \in Int
          /\ e + 1 + w - s <= (e + 1) + 1 + 0 - r
    BY SMTT(30)
  <2> QED BY <1>3, <1>4, <2>1
<1>6. f + 2 <= MaxSets => failures + 2 <= MaxSets
  BY <1>3, SMTT(30)
<1>7. ASSUME f + 2 <= MaxSets, onchain["asp"].root # << >>
      PROVE  Within(onchain["asp"].root, m)
  <2>1. Within(onchain["asp"].root, n)
    BY <1>6, <1>7 DEF ServedInv, Places
  <2> HIDE DEF n, m
  <2> QED BY <1>3, <1>5, <2>1, WithinMore
<1>8. ASSUME f + 2 <= MaxSets, NEW t \in txs, t.kind = "asp"
      PROVE  Within(t.root, f + 0)
  <2>1. failures + WW \in Int /\ f + 0 \in Int /\ failures + WW <= f + 0 /\ 1 <= f + 0
    BY <1>3, SMTT(30)
  <2>2. CASE t \in Orphans
    <3>1. Within(t.root, failures + WW)
      BY <1>6, <1>8, <2>2 DEF ServedInv, Places
    <3> HIDE DEF f
    <3> QED BY <1>3, <2>1, <3>1, WithinMore
  <2>3. CASE t \notin Orphans
    <3>1. pc = "confirm" /\ t = mytx
      BY <2>3 DEF Orphans
    <3>2. sets # << >> /\ t.root = sets[1]
      BY <1>8, <3>1 DEF ServedInv
    <3> HIDE DEF f
    <3> QED BY <1>3, <2>1, <3>2, WithinFirst
  <2> QED BY <2>2, <2>3
<1>9. Places'
  BY <1>1, <1>2, <1>7, <1>8 DEF Places, Within
<1> QED BY <1>1, <1>9 DEF ServedInv

\* The account's next transaction makes the others with its number void.
LEMMA ServedInclude ==
  ASSUME Types, ServedInv, NEW tx, Include(tx)
  PROVE  ServedInv'
<1>1. /\ tx \in txs /\ tx.seq = seq + 1 /\ seq' = tx.seq /\ landed' = tx
      /\ txs' = {t \in txs : t.seq > tx.seq}
      /\ UNCHANGED <<sets, pc, work, mytx, failures>>
  BY DEF Include, tick
<1>2. seq \in Nat /\ failures \in Nat /\ sets \in Seq(Seq(Nat)) /\ tx \in Tx
  BY <1>1 DEF Types, ChainTypes, TickTypes
<1>3. txs' = {}
  <2>1. ~ (tx.seq > tx.seq)
    BY <1>1, <1>2, SMTT(30)
  <2> QED BY <1>1, <2>1 DEF ServedInv
<1>4. landed'.seq <= seq'
  BY <1>1, <1>2, SMTT(30)
<1>5. Orphans' = {} /\ SS' = 0
  BY <1>3 DEF Orphans, SS, StateOrphan
<1>6. WW \in {0, 1} /\ WW' \in {0, 1} /\ SS \in {0, 1}
  BY DEF WW, SS
<1> DEFINE m == failures + 1 + WW' - 0
<1>7. m \in Int /\ 1 <= m /\ failures + WW \in Int /\ failures + WW <= m
  <2>1. \A e \in Nat : \A w, v \in {0, 1} :
          /\ e + 1 + v - 0 \in Int /\ 1 <= e + 1 + v - 0 /\ e + w \in Int
          /\ e + w <= e + 1 + v - 0
    BY SMTT(30)
  <2> QED BY <1>2, <1>6, <2>1
<1>8. ASSUME failures + 2 <= MaxSets, tx.kind = "asp"
      PROVE  Within(onchain'["asp"].root, m)
  <2>1. onchain'["asp"].root = tx.root
    BY <1>8 DEF Include, Types, ChainTypes
  <2> HIDE DEF m
  <2>2. CASE tx \in Orphans
    <3>1. Within(tx.root, failures + WW)
      BY <1>8, <2>2 DEF ServedInv, Places
    <3> QED BY <1>2, <1>7, <2>1, <3>1, WithinMore
  <2>3. CASE tx \notin Orphans
    <3>1. pc = "confirm" /\ tx = mytx
      BY <1>1, <2>3 DEF Orphans
    <3>2. sets # << >> /\ tx.root = sets[1]
      BY <1>8, <3>1 DEF ServedInv
    <3> QED BY <1>2, <1>7, <2>1, <3>2, WithinFirst
  <2> QED BY <2>2, <2>3
<1>9. ASSUME failures + 2 <= MaxSets, tx.kind # "asp", onchain'["asp"].root # << >>
      PROVE  Within(onchain'["asp"].root, m)
  <2>1. tx.kind = "state"
    BY <1>2, <1>9, SMTT(30) DEF Tx
  <2>2. onchain'["asp"].root = onchain["asp"].root
    BY <2>1 DEF Include, Types, ChainTypes
  <2> DEFINE n == failures + 1 + WW - SS
  <2>3. Within(onchain["asp"].root, n)
    BY <1>9, <2>2 DEF ServedInv, Places
  <2>4. WW - SS <= WW'
    <3>1. CASE WW = 0
      BY <3>1, <1>6, SMTT(30)
    <3>2. CASE pc = "post_asp"
      <4>1. WW' = 1
        BY <1>1, <3>2 DEF WW, Waiting
      <4> QED BY <4>1, <1>6, SMTT(30)
    <3>3. CASE pc = "confirm" /\ mytx.kind = "asp"
      <4>1. tx \in Orphans
        BY <1>1, <1>9, <3>3 DEF Orphans
      <4>2. SS = 1
        BY <2>1, <4>1 DEF SS, StateOrphan
      <4> QED BY <4>2, <1>6, SMTT(30)
    <3> QED BY <3>1, <3>2, <3>3 DEF WW, Waiting
  <2>5. n \in Int /\ n <= m
    <3>1. \A e \in Nat : \A w, s, v \in {0, 1} : w - s <= v =>
            e + 1 + w - s \in Int /\ e + 1 + w - s <= e + 1 + v - 0
      BY SMTT(30)
    <3> QED BY <1>2, <1>6, <2>4, <3>1
  <2> HIDE DEF n, m
  <2> QED BY <1>2, <1>7, <2>2, <2>3, <2>5, WithinMore
<1>10. Places'
  BY <1>1, <1>5, <1>8, <1>9 DEF Places, Within
<1> QED BY <1>1, <1>3, <1>4, <1>10 DEF ServedInv

\* The places of the manifests are as the failed publications leave them.
LEMMA ServedInvariant == Spec => []ServedInv
<1>1. Init => ServedInv
  <2>1. ASSUME Init PROVE ServedInv
    <3>1. Orphans = {} /\ Len(sets) = 0 /\ landed.seq = 0 /\ seq = 0
      BY <2>1, SMTT(30) DEF Init, Orphans, NoTx
    <3>2. onchain["asp"].root = << >>
      BY <2>1 DEF Init, NoRoot
    <3>3. Len(sets) <= MaxSets /\ landed.seq <= seq
      BY <3>1, AspBoundsAssumption, SMTT(30)
    <3>4. Places
      BY <3>1, <3>2 DEF Places
    <3> QED BY <2>1, <3>3, <3>4 DEF Init, ServedInv
  <2> QED BY <2>1
<1>2. ServedInv /\ Types /\ [Next]_vars => ServedInv'
  <2>1. SUFFICES ASSUME ServedInv, Types, Next \/ UNCHANGED vars PROVE ServedInv'
    OBVIOUS
  <2>2. CASE UNCHANGED vars \/ CloseLedger
    BY <2>1, <2>2, ServedQuiet DEF vars, chain, tick, CloseLedger
  <2>3. ASSUME NEW topic, PoolEvent(topic) PROVE ServedInv'
    BY <2>1, <2>3, ServedQuiet DEF PoolEvent, tick
  <2>4. ASSUME NEW tx, Include(tx) PROVE ServedInv'
    BY <2>1, <2>4, ServedInclude
  <2>5. ASSUME NEW i, Reinstate(i) PROVE ServedInv'
    BY <2>1, <2>5, ServedQuiet DEF Reinstate, chain
  <2>6. CASE readDeposits \/ Screen \/ ReadDepositLeaves \/ ReadWithdrawLeaves
    <3>1. /\ pc \notin {"post_asp", "confirm"} /\ pc' \notin {"post_asp", "confirm"}
          /\ UNCHANGED <<onchain, seq, txs, landed, sets, failures>>
      BY <2>6 DEF readDeposits, Screen, ReadDepositLeaves, ReadWithdrawLeaves,
                  TickEnds, chain
    <3> QED BY <2>1, <3>1, ServedQuiet
  <2>7. CASE MergeLeaves \/ CompareState \/ Save
    <3>1. /\ pc \notin {"post_asp", "confirm"} /\ pc' \notin {"post_asp", "confirm"}
          /\ UNCHANGED <<onchain, seq, txs, landed, sets, failures>>
      BY <2>7 DEF MergeLeaves, CompareState, Save, TickEnds, chain
    <3> QED BY <2>1, <3>1, ServedQuiet
  <2> QED
    BY <2>1, <2>2, <2>3, <2>4, <2>5, <2>6, <2>7, ServedCompare, ServedPost,
       ServedAnswer, ServedFailure DEF Next, TickStep
<1> QED BY <1>1, <1>2, AspTypes, PTL DEF Spec

\* The manifest of the association set on chain is among those the provider
\* serves, and retention keeps no more than its bound, whatever publications
\* overlap (runPoolTick, postRoot, and the retention of writeManifest).
THEOREM RootServedHolds == Spec => []RootOnChainIsServed
<1>1. Types /\ ServedInv => RootOnChainIsServed
  <2>1. ASSUME Types, ServedInv, onchain["asp"].root # << >>, failures + 2 <= MaxSets
        PROVE  onchain["asp"].root \in Range(sets)
    <3>1. PICK k \in DOMAIN sets : sets[k] = onchain["asp"].root
      BY <2>1 DEF ServedInv, Places, Within
    <3> QED BY <3>1 DEF Range
  <2> QED BY <2>1 DEF ServedInv, RootOnChainIsServed
<1> QED BY <1>1, ServedInvariant, AspTypes, PTL

-----------------------------------------------------------------------------
(* The cursor and the deposits it has passed.                              *)

\* A policy that decides every deposit when it sees it.
NoDefers == \A i \in Indices : "defer" \notin Verdicts(i)

Deposited(i) == log[i + 1].topic = "Deposit"
Decided(state) == Range(state.approvedIndices) \cup state.rejectedIndices

\* Ledgers close in order.
LogInv ==
  \A i, j \in Leaves : (i <= j => LedgerOf(i) <= LedgerOf(j)) /\ LedgerOf(i) <= now

\* The cursor is within the log, and the deposits it has passed are decided.
Passed(state, i) == i <= state.lastIndex \/ LedgerOf(i) < state.lastLedger
Covered(state) ==
  /\ state.deferredIndices = {}
  /\ state.lastIndex < Len(log) /\ state.lastLedger <= now
  /\ \A i \in Leaves : Deposited(i) /\ Passed(state, i) => i \in Decided(state)

\* A batch has, with a deposit, all from the cursor to its ledger.
BatchWhole ==
  \A b \in batch :
    /\ LedgerOf(b) < now /\ b > work.lastIndex /\ Deposited(b)
    /\ \A i \in Leaves :
         Deposited(i) /\ ~ Passed(work, i) /\ LedgerOf(i) <= LedgerOf(b) => i \in batch

CoverInv ==
  /\ LogInv /\ Covered(store) /\ Covered(work)
  /\ pc = "screen" => BatchWhole

\* The order of the ledgers survives: an event goes to the open ledger.
LEMMA LogInvStep ==
  ASSUME ChainTypes, ChainTypes', LogInv, LogStep, now' = now \/ now' = now + 1
  PROVE  LogInv'
<1>1. now \in Nat /\ now <= now' /\ now' \in Nat
  BY SMTT(30) DEF ChainTypes
<1>2. /\ \A i \in Leaves : log'[i + 1] = log[i + 1]
      /\ \A i \in Leaves' : i \in Leaves \/ i = Len(log)
      /\ log' # log => log'[Len(log) + 1].ledger = now
  BY LogGrows
<1>3. ASSUME NEW i \in Leaves PROVE LedgerOf(i)' = LedgerOf(i) /\ i' = i
  BY <1>2 DEF LedgerOf
<1> DEFINE L(i) == log'[i + 1].ledger
<1>4. \A i \in Leaves : L(i) = LedgerOf(i) /\ LedgerOf(i) \in Nat /\ LedgerOf(i) <= now
                        /\ i \in Nat /\ i < Len(log)
  BY <1>2, LeafEvents DEF LedgerOf, LogInv
<1>5. \A i \in Leaves' : i \notin Leaves => i = Len(log) /\ L(i) = now
  <2>1. log' = log => Leaves' = Leaves
    BY DEF Leaves
  <2> QED BY <1>2, <2>1
<1>6. \A i, j \in Leaves : i <= j => LedgerOf(i) <= LedgerOf(j)
  BY DEF LogInv
<1> HIDE DEF L
<1>7. Len(log) \in Nat
  BY SMTT(30) DEF ChainTypes
<1>8. ASSUME NEW i \in Leaves', NEW j \in Leaves'
      PROVE  (i <= j => L(i) <= L(j)) /\ L(i) <= now'
  <2>1. L(i) <= now'
    BY <1>1, <1>4, <1>5, SMTT(30)
  <2>2. CASE i \in Leaves /\ j \in Leaves
    BY <2>1, <2>2, <1>4, <1>6
  <2>3. CASE j \notin Leaves
    <3>1. L(j) = now /\ L(i) <= now
      BY <2>3, <1>1, <1>4, <1>5, SMTT(30)
    <3> QED BY <2>1, <3>1
  <2>4. CASE i \notin Leaves /\ j \in Leaves
    <3>1. ~ (i <= j)
      BY <2>4, <1>4, <1>5, <1>7, SMTT(30)
    <3> QED BY <2>1, <3>1
  <2> QED BY <2>2, <2>3, <2>4
<1> QED BY <1>8 DEF LogInv, LedgerOf, L

\* What screening passes it decides, if the policy puts nothing off.
LEMMA ScreenedCovered ==
  ASSUME NoDefers, Types, CoverInv, pc = "screen", NEW verdict \in Screenings
  PROVE  Covered(screened(verdict))
<1> DEFINE by(v) == {i \in DOMAIN verdict : verdict[i] = v}
           D == DOMAIN verdict
           state == screened(verdict)
<1>1. D \in SUBSET batch /\ ScreenedTo(state, verdict) /\ batch \in SUBSET Leaves /\ ChainTypes
  BY ScreenedFacts DEF Types, TickTypes
<1>2. \A i \in D : verdict[i] \in {"approve", "reject", "defer"} /\ verdict[i] \in Verdicts(i)
  BY DEF Screenings
<1>3. \A i \in D : verdict[i] # "defer"
  BY <1>1, <1>2, LeafEvents DEF NoDefers
<1>4. by("defer") = {} /\ D = by("approve") \cup by("reject")
  BY <1>2, <1>3
<1>5. /\ state.deferredIndices = {}
      /\ Decided(state) = Decided(work) \cup D
      /\ state.lastIndex = work.lastIndex \/ state.lastIndex \in D
      /\ state.lastLedger = work.lastLedger
         \/ \E d \in D : state.lastLedger = LedgerOf(d)
  <2>1. /\ Range(state.approvedIndices) = Range(work.approvedIndices) \cup by("approve")
        /\ state.rejectedIndices = work.rejectedIndices \cup by("reject")
        /\ state.deferredIndices = by("defer")
        /\ state.lastIndex = work.lastIndex
           \/ state.lastIndex \in by("approve") \cup by("reject")
        /\ state.lastLedger = work.lastLedger
           \/ \E d \in D : state.lastLedger = LedgerOf(d)
    BY <1>1 DEF ScreenedTo
  <2> HIDE DEF D, state, by
  <2> QED BY <1>4, <2>1 DEF Decided
<1> HIDE DEF D, state, by
<1>6. D = undecided(confirmedDeposits(batch))
  BY DEF Screenings, D
<1>7. \A i \in Leaves : LedgerOf(i) \in Nat /\ LedgerOf(i) <= now /\ i < Len(log) /\ i \in Nat
  BY <1>1, LeafEvents DEF CoverInv, LogInv
<1>8. Covered(work) /\ BatchWhole
  BY DEF CoverInv
<1>9. state.lastIndex < Len(log)
  BY <1>1, <1>5, <1>7, <1>8 DEF Covered
<1>10. state.lastLedger <= now
  BY <1>1, <1>5, <1>7, <1>8 DEF Covered
<1>11. ASSUME NEW i \in Leaves, Deposited(i), Passed(state, i)
       PROVE  i \in Decided(state)
  <2>1. CASE Passed(work, i)
    BY <1>5, <1>8, <1>11, <2>1 DEF Covered
  <2>2. CASE ~ Passed(work, i)
    <3>1. PICK d \in D : LedgerOf(i) <= LedgerOf(d)
      <4>1. CASE i <= state.lastIndex
        <5>1. state.lastIndex \in D
          BY <1>5, <2>2, <4>1 DEF Passed
        <5> QED BY <1>1, <1>11, <4>1, <5>1 DEF CoverInv, LogInv
      <4>2. CASE LedgerOf(i) < state.lastLedger
        <5>1. PICK d \in D : state.lastLedger = LedgerOf(d)
          BY <1>5, <2>2, <4>2 DEF Passed
        <5>2. LedgerOf(i) <= LedgerOf(d)
          BY <1>1, <1>7, <1>11, <4>2, <5>1, SMTT(30)
        <5> QED BY <5>2
      <4> QED BY <1>11, <4>1, <4>2 DEF Passed
    <3>2. i \in batch
      BY <1>1, <1>8, <1>11, <2>2, <3>1 DEF BatchWhole
    <3>3. d \in confirmedDeposits(batch)
      BY <1>6 DEF undecided
    <3>4. i \in confirmedDeposits(batch)
      <4>1. CASE Confirmations <= 1
        BY <3>2, <4>1 DEF confirmedDeposits
      <4>2. CASE ~ (Confirmations <= 1)
        <5>1. LedgerOf(d) <= latestLedger - Confirmations + 1
          BY <3>3, <4>2 DEF confirmedDeposits
        <5>2. LedgerOf(i) \in Nat /\ LedgerOf(d) \in Nat
              /\ latestLedger - Confirmations + 1 \in Int
          <6>1. latestLedger - Confirmations + 1 \in Int
            BY AspBoundsAssumption, <1>1, SMTT(30) DEF latestLedger, ChainTypes
          <6> QED BY <6>1, <1>1, <1>7, <1>11
        <5>3. LedgerOf(i) <= latestLedger - Confirmations + 1
          BY <3>1, <5>1, <5>2, SMTT(30)
        <5> QED BY <3>2, <4>2, <5>3 DEF confirmedDeposits
      <4> QED BY <4>1, <4>2
    <3> QED BY <1>5, <1>6, <3>4 DEF undecided, Decided
  <2> QED BY <2>1, <2>2
<1> QED BY <1>5, <1>9, <1>10, <1>11 DEF Covered, state

\* So does every other PoolState a step can leave.
LEMMA ComesCovered ==
  ASSUME NoDefers, Types, CoverInv, NEW state, Comes(state)
  PROVE  Covered(state)
<1>1. CASE state = store \/ state = work
  BY <1>1 DEF CoverInv
<1>2. ASSUME pc = "screen", NEW verdict \in Screenings, state = screened(verdict)
      PROVE  Covered(state)
  BY <1>2, ScreenedCovered
<1>3. CASE state = merged
  <2>1. Covered(work)
    BY DEF CoverInv
  <2> QED BY <1>3, <2>1, MergedFacts DEF Covered, Passed, Decided
<1>4. ASSUME NEW i \in store.rejectedIndices, state = reinstated(i) PROVE Covered(state)
  <2>1. Covered(store)
    BY DEF CoverInv
  <2>2. /\ Decided(state) = Decided(store)
        /\ state.deferredIndices = store.deferredIndices \ {i}
        /\ state.lastIndex = store.lastIndex /\ state.lastLedger = store.lastLedger
    BY <1>4, ReinstatedFacts DEF Decided
  <2> QED BY <2>1, <2>2 DEF Covered, Passed
<1> QED BY <1>1, <1>2, <1>3, <1>4 DEF Comes

\* An event is behind every cursor, and a ledger that closes moves none.
LEMMA CoveredStays ==
  ASSUME Types, Types', LogStep, now' = now \/ now' = now + 1, NEW state, IsPoolState(state),
         Covered(state)
  PROVE  /\ state.deferredIndices = {}
         /\ state.lastIndex < Len(log') /\ state.lastLedger <= now'
         /\ \A i \in Leaves' :
              /\ log'[i + 1].topic = "Deposit"
              /\ i <= state.lastIndex \/ log'[i + 1].ledger < state.lastLedger
              => i \in Decided(state)
<1>1. ChainTypes
  BY DEF Types
<1>2. now \in Nat /\ Len(log) \in Nat /\ state.lastIndex \in Int /\ state.lastLedger \in Nat
  BY <1>1, SMTT(30) DEF ChainTypes, IsPoolState
<1>3. Len(log') \in Nat /\ Len(log) <= Len(log')
  BY <1>1, SMTT(30) DEF ChainTypes, LogStep
<1>4. /\ \A i \in Leaves : log'[i + 1] = log[i + 1]
      /\ \A i \in Leaves' : i \in Leaves \/ i = Len(log)
      /\ log' # log => log'[Len(log) + 1].ledger = now
  BY <1>1, LogGrows
<1>5. state.lastIndex < Len(log) /\ state.lastLedger <= now
  BY DEF Covered
<1>6. state.lastIndex < Len(log') /\ state.lastLedger <= now'
  BY <1>2, <1>3, <1>5, SMTT(30)
<1>7. ASSUME NEW i \in Leaves', log'[i + 1].topic = "Deposit",
             i <= state.lastIndex \/ log'[i + 1].ledger < state.lastLedger
      PROVE  i \in Decided(state)
  <2>1. CASE i \in Leaves
    BY <1>4, <1>7, <2>1 DEF Covered, Passed, Deposited, LedgerOf
  <2>2. CASE i \notin Leaves
    <3>1. i = Len(log) /\ log' # log
      BY <1>4, <1>7, <2>2 DEF Leaves
    <3>2. log'[i + 1].ledger = now
      BY <1>4, <3>1
    <3> QED BY <1>2, <1>5, <1>7, <3>1, <3>2, SMTT(30)
  <2> QED BY <2>1, <2>2
<1> QED BY <1>6, <1>7 DEF Covered

\* A batch that was read stays whole while the chain goes on.
LEMMA BatchStays ==
  ASSUME Types, LogInv, BatchWhole, LogStep, now' = now \/ now' = now + 1,
         batch' = batch, work' = work
  PROVE  BatchWhole'
<1>1. ChainTypes /\ batch \in SUBSET Leaves /\ now \in Nat
  BY DEF Types, TickTypes, ChainTypes
<1>2. /\ \A i \in Leaves : log'[i + 1] = log[i + 1]
      /\ \A i \in Leaves' : i \in Leaves \/ i = Len(log)
      /\ log' # log => log'[Len(log) + 1].ledger = now
  BY <1>1, LogGrows
<1>3. SUFFICES ASSUME NEW b \in batch
               PROVE  /\ log'[b + 1].ledger < now' /\ b > work.lastIndex
                      /\ log'[b + 1].topic = "Deposit"
                      /\ \A i \in Leaves' :
                           /\ log'[i + 1].topic = "Deposit"
                           /\ ~ (\/ i <= work.lastIndex
                                 \/ log'[i + 1].ledger < work.lastLedger)
                           /\ log'[i + 1].ledger <= log'[b + 1].ledger
                           => i \in batch
  BY DEF BatchWhole, LedgerOf, Deposited, Passed
<1>4. b \in Leaves /\ log'[b + 1] = log[b + 1] /\ LedgerOf(b) = log[b + 1].ledger
  BY <1>1, <1>2, <1>3 DEF LedgerOf
<1>5. LedgerOf(b) \in Nat /\ LedgerOf(b) < now
  BY <1>1, <1>4, LeafEvents DEF BatchWhole
<1>6. log'[b + 1].ledger < now'
  BY <1>1, <1>4, <1>5, SMTT(30)
<1>7. ASSUME NEW i \in Leaves', log'[i + 1].topic = "Deposit",
             ~ (i <= work.lastIndex \/ log'[i + 1].ledger < work.lastLedger),
             log'[i + 1].ledger <= log'[b + 1].ledger
      PROVE  i \in batch
  <2>1. i \in Leaves
    <3>1. ASSUME i \notin Leaves PROVE FALSE
      <4>1. i = Len(log) /\ log' # log
        BY <1>2, <1>7, <3>1 DEF Leaves
      <4>2. log'[i + 1].ledger = now
        BY <1>2, <4>1
      <4> QED BY <1>1, <1>4, <1>5, <1>7, <4>2, SMTT(30)
    <3> QED BY <3>1
  <2>2. log'[i + 1] = log[i + 1]
    BY <1>2, <2>1
  <2> QED BY <1>4, <1>7, <2>1, <2>2 DEF BatchWhole, Deposited, Passed, LedgerOf
<1>8. b > work.lastIndex /\ log'[b + 1].topic = "Deposit"
  BY <1>3, <1>4 DEF BatchWhole, Deposited
<1> QED BY <1>6, <1>7, <1>8

\* A tick that starts reads a whole batch.
LEMMA BatchRead ==
  ASSUME Types, CoverInv, readDeposits
  PROVE  BatchWhole'
<1>1. /\ log' = log /\ now' = now /\ work' = store
      /\ batch' = {i \in getEvents("Deposit", store.lastLedger) : i > store.lastIndex}
  BY DEF readDeposits, chain, CoverInv, Covered
<1>2. now \in Nat /\ latestLedger = now - 1 /\ ChainTypes
      /\ store.lastIndex \in Int /\ store.lastLedger \in Nat
  BY DEF Types, ChainTypes, latestLedger, Known, IsPoolState
<1>3. \A i \in Leaves : LedgerOf(i) \in Nat /\ i \in Nat
  BY <1>2, LeafEvents
<1>4. \A i : i \in batch' <=>
        /\ i \in Leaves /\ Deposited(i) /\ i > store.lastIndex
        /\ LedgerOf(i) >= store.lastLedger /\ LedgerOf(i) <= now - 1
  BY <1>1, <1>2 DEF getEvents, Deposited
<1>5. ASSUME NEW b \in batch'
      PROVE  /\ LedgerOf(b) < now /\ b > store.lastIndex /\ Deposited(b)
             /\ \A i \in Leaves :
                  Deposited(i) /\ ~ Passed(store, i) /\ LedgerOf(i) <= LedgerOf(b) => i \in batch'
  <2>1. /\ b \in Leaves /\ Deposited(b) /\ b > store.lastIndex /\ LedgerOf(b) <= now - 1
        /\ LedgerOf(b) \in Nat
    BY <1>3, <1>4, <1>5
  <2>2. LedgerOf(b) < now
    BY <1>2, <2>1, SMTT(30)
  <2>3. ASSUME NEW i \in Leaves, Deposited(i), ~ Passed(store, i), LedgerOf(i) <= LedgerOf(b)
        PROVE  i \in batch'
    <3>1. i > store.lastIndex /\ LedgerOf(i) >= store.lastLedger
      <4>1. ~ (i <= store.lastIndex) /\ ~ (LedgerOf(i) < store.lastLedger)
        BY <2>3 DEF Passed
      <4>2. i \in Nat /\ LedgerOf(i) \in Nat
        BY <1>3
      <4> QED BY <1>2, <4>1, <4>2, SMTT(30)
    <3>2. LedgerOf(i) <= now - 1
      BY <1>2, <1>3, <2>1, <2>3, SMTT(30)
    <3> QED BY <1>4, <2>3, <3>1, <3>2
  <2> QED BY <2>1, <2>2, <2>3
<1> QED BY <1>1, <1>5 DEF BatchWhole, LedgerOf, Deposited, Passed, Leaves

\* Only the step that reads it brings the tick to its batch.
LEMMA BatchSteps ==
  ASSUME Next \/ UNCHANGED vars, ~ readDeposits, pc' = "screen"
  PROVE  pc = "screen" /\ batch' = batch /\ work' = work
<1>1. CASE UNCHANGED vars \/ CloseLedger
  BY <1>1 DEF vars, tick, CloseLedger
<1>2. ASSUME NEW topic, PoolEvent(topic) PROVE pc = "screen" /\ batch' = batch /\ work' = work
  BY <1>2 DEF PoolEvent, tick
<1>3. ASSUME NEW tx, Include(tx) PROVE pc = "screen" /\ batch' = batch /\ work' = work
  BY <1>3 DEF Include, tick
<1>4. ASSUME NEW i, Reinstate(i) PROVE pc = "screen" /\ batch' = batch /\ work' = work
  BY <1>4 DEF Reinstate
<1>5. CASE Screen \/ MergeLeaves \/ NotConfirmed \/ Save \/ TickFails \/ Crash
  BY <1>5 DEF Screen, MergeLeaves, NotConfirmed, Save, TickFails, Crash, TickEnds
<1>6. CASE CompareAsp \/ PostAspRoot \/ Confirmed \/ CompareState \/ PostStateRoot
  BY <1>6 DEF CompareAsp, PostAspRoot, Confirmed, CompareState, PostStateRoot, Post
<1>7. CASE ReadDepositLeaves \/ ReadWithdrawLeaves
  BY <1>7 DEF ReadDepositLeaves, ReadWithdrawLeaves
<1> QED BY <1>1, <1>2, <1>3, <1>4, <1>5, <1>6, <1>7 DEF Next, TickStep

\* The cursor's invariant holds from the start ...
LEMMA CoverInit == Init => CoverInv
<1>1. SUFFICES ASSUME Init PROVE CoverInv
  OBVIOUS
<1>2. Leaves = {} /\ Len(log) = 0 /\ now = 1
  BY <1>1, SMTT(30) DEF Init, Leaves
<1>3. /\ initState.deferredIndices = {} /\ initState.lastIndex = -1
      /\ initState.lastLedger = 0
  BY SMTT(30) DEF initState
<1>4. Covered(initState)
  <2>1. -1 < 0 /\ 0 <= 1
    BY SMTT(30)
  <2> QED BY <1>2, <1>3, <2>1 DEF Covered
<1>5. LogInv
  BY <1>2 DEF LogInv
<1> QED BY <1>1, <1>4, <1>5 DEF Init, CoverInv

\* ... and every step keeps it.
LEMMA CoverStep ==
  ASSUME NoDefers, Types, Types', CoverInv, Next \/ UNCHANGED vars
  PROVE  CoverInv'
<1>1. LogStep /\ (now' = now \/ now' = now + 1)
  BY LogSteps
<1>2. LogInv'
  BY <1>1, LogInvStep DEF Types, CoverInv
<1>3. Comes(store') /\ Comes(work')
  BY StatesCome
<1>4. Covered(store') /\ Covered(work') /\ IsPoolState(store') /\ IsPoolState(work')
  BY <1>3, ComesCovered, ComesKnown DEF Known
<1>5. Covered(store)'
  BY <1>1, <1>4, CoveredStays DEF Covered, Passed, Deposited, LedgerOf, Decided
<1>6. Covered(work)'
  BY <1>1, <1>4, CoveredStays DEF Covered, Passed, Deposited, LedgerOf, Decided
<1>7. pc' = "screen" => BatchWhole'
  <2>1. CASE readDeposits
    BY <2>1, BatchRead
  <2>2. CASE ~ readDeposits
    BY <1>1, <2>2, BatchSteps, BatchStays DEF CoverInv
  <2> QED BY <2>1, <2>2
<1> QED BY <1>2, <1>5, <1>6, <1>7 DEF CoverInv

\* With a policy that decides at once, the cursor never passes a deposit
\* without a decision, whatever was final, failed or crashed when
\* (readDeposits, confirmedDeposits and runPoolTick).
THEOREM NoDepositForgottenHolds ==
  ASSUME NoDefers
  PROVE  Spec => []NoDepositForgotten
<1>1. CoverInv => NoDepositForgotten
  BY DEF CoverInv, Covered, Passed, Deposited, Decided, NoDepositForgotten
<1>2. CoverInv /\ Types /\ Types' /\ [Next]_vars => CoverInv'
  BY CoverStep
<1> QED BY <1>1, <1>2, CoverInit, AspTypes, PTL DEF Spec

-----------------------------------------------------------------------------
(* The association set on chain grows at its end.                          *)

\* A policy that always gives the same answer about a deposit, and decides.
Steady == \A i \in Indices : Verdicts(i) \in {{"approve"}, {"reject"}}

\* In a log l with the open ledger n: a deposit the policy approves, a leaf
\* that is final, and a list of all such deposits up to one of them.
Approvable(l, i) ==
  i \in 0 .. (Len(l) - 1) /\ l[i + 1].topic = "Deposit" /\ Verdicts(i) = {"approve"}
Final(l, n, i) ==
  l[i + 1].ledger < n /\ (Confirmations > 1 => l[i + 1].ledger <= n - Confirmations)
Whole(root, l, n) ==
  /\ Ascending(root)
  /\ \A i \in Range(root) : Approvable(l, i) /\ Final(l, n, i)
  /\ \A i, e : e \in Range(root) /\ Approvable(l, i) /\ i < e => i \in Range(root)

\* A PoolState with such a list, and with rejections the policy stands by.
Settled(state, l, n) ==
  /\ Whole(state.approvedIndices, l, n)
  /\ \A i \in Range(state.approvedIndices) : i <= state.lastIndex
  /\ \A i \in state.rejectedIndices : Verdicts(i) = {"reject"}

\* The association sets that are on chain or may come there.
Published ==
  {onchain["asp"].root} \cup {t.root : t \in {u \in txs : u.kind = "asp"}}

\* The deposits the tick has approved, or is about to.
Reach ==
  Range(work.approvedIndices)
    \cup (IF pc = "screen" THEN confirmedDeposits(batch) ELSE {})

\* Every list is whole, and a tick that is under way approves again what was
\* sent: so each set that may land contains the one on chain.
GrowsInv ==
  /\ Settled(store, log, now) /\ Settled(work, log, now)
  /\ \A root \in Published :
       Whole(root, log, now) /\ Range(onchain["asp"].root) \subseteq Range(root)
  /\ pc # "idle" => \A root \in Published : Range(root) \subseteq Reach

\* A steady policy puts nothing off.
LEMMA SteadyDecides ==
  ASSUME Steady
  PROVE  NoDefers
<1>1. ASSUME NEW i \in Indices PROVE "defer" \notin Verdicts(i)
  <2>1. Verdicts(i) = {"approve"} \/ Verdicts(i) = {"reject"}
    BY <1>1 DEF Steady
  <2>2. "defer" \notin {"approve"} /\ "defer" \notin {"reject"}
    OBVIOUS
  <2> QED BY <2>1, <2>2
<1> QED BY <1>1 DEF NoDefers

\* Lists stay whole when an event comes or a ledger closes.
LEMMA WholeStays ==
  ASSUME ChainTypes, LogStep, now' = now \/ now' = now + 1, NEW root, Whole(root, log, now)
  PROVE  Whole(root, log', now')
<1>1. /\ Leaves \subseteq Leaves' /\ \A i \in Leaves : log'[i + 1] = log[i + 1]
      /\ \A i \in Leaves' : i \in Leaves \/ i = Len(log)
  BY LogGrows
<1>2. \A i \in Leaves : LedgerOf(i) \in Nat /\ i \in Nat /\ i < Len(log) /\ LedgerOf(i) = log[i + 1].ledger
  BY LeafEvents DEF LedgerOf
<1>3. now \in Nat /\ Len(log) \in Nat /\ Confirmations \in Nat
  BY AspBoundsAssumption, SMTT(30) DEF ChainTypes
<1>4. \A i : i \in Leaves <=> i \in 0 .. (Len(log) - 1)
  BY DEF Leaves
<1>5. \A i : i \in Leaves' <=> i \in 0 .. (Len(log') - 1)
  BY DEF Leaves
<1>6. ASSUME NEW i \in Range(root) PROVE Approvable(log', i) /\ Final(log', now', i)
  <2>1. Approvable(log, i) /\ Final(log, now, i)
    BY <1>6 DEF Whole
  <2>2. i \in Leaves
    BY <1>4, <2>1 DEF Approvable
  <2>3. Approvable(log', i)
    BY <1>1, <1>5, <2>1, <2>2 DEF Approvable
  <2> DEFINE g == log[i + 1].ledger
  <2>4. g \in Nat /\ log'[i + 1].ledger = g
    BY <1>1, <1>2, <2>2
  <2>5. g < now /\ (Confirmations > 1 => g <= now - Confirmations)
    BY <2>1 DEF Final
  <2> HIDE DEF g
  <2>6. g < now' /\ (Confirmations > 1 => g <= now' - Confirmations)
    BY <1>3, <2>4, <2>5, SMTT(30)
  <2> QED BY <2>3, <2>4, <2>6 DEF Final
<1>7. ASSUME NEW i, NEW e \in Range(root), Approvable(log', i), i < e PROVE i \in Range(root)
  <2>1. e \in Leaves /\ i \in Leaves'
    BY <1>4, <1>5, <1>7 DEF Whole, Approvable
  <2>2. i # Len(log)
    BY <1>2, <1>3, <1>7, <2>1, SMTT(30)
  <2>3. i \in Leaves
    BY <1>1, <2>1, <2>2
  <2>4. Approvable(log, i)
    BY <1>1, <1>4, <1>7, <2>3 DEF Approvable
  <2> QED BY <1>7, <2>4 DEF Whole
<1> QED BY <1>6, <1>7 DEF Whole

\* A list that goes on with larger elements is ascending.
LEMMA AscendingConcat ==
  ASSUME NEW s \in Seq(Nat), NEW t \in Seq(Nat), Ascending(s), Ascending(t),
         \A x \in Range(s), y \in Range(t) : x < y
  PROVE  Ascending(s \o t)
<1> DEFINE u == s \o t
           n == Len(s)
<1>1. n \in Nat /\ DOMAIN u \subseteq Nat /\ DOMAIN s = 1 .. n /\ DOMAIN t \subseteq Nat
  BY SMTT(30)
<1>2. \A k \in DOMAIN u : \/ k \in DOMAIN s /\ u[k] = s[k]
                          \/ k > n /\ k - n \in DOMAIN t /\ u[k] = t[k - n]
  BY SMTT(30)
<1> HIDE DEF u, n
<1>3. SUFFICES ASSUME NEW j \in DOMAIN u, NEW k \in DOMAIN u, j < k PROVE u[j] < u[k]
  BY DEF Ascending, u
<1>4. CASE j \in DOMAIN s /\ u[j] = s[j]
  <2>1. CASE k \in DOMAIN s /\ u[k] = s[k]
    BY <1>3, <1>4, <2>1 DEF Ascending
  <2>2. CASE k - n \in DOMAIN t /\ u[k] = t[k - n]
    BY <1>4, <2>2 DEF Range
  <2> QED BY <1>2, <2>1, <2>2
<1>5. CASE j > n /\ j - n \in DOMAIN t /\ u[j] = t[j - n]
  <2>1. k \notin DOMAIN s
    BY <1>1, <1>3, <1>5, SMTT(30)
  <2>2. k - n \in DOMAIN t /\ u[k] = t[k - n]
    BY <1>2, <2>1
  <2>3. j - n < k - n
    BY <1>1, <1>3, SMTT(30)
  <2> QED BY <1>5, <2>2, <2>3 DEF Ascending
<1> QED BY <1>2, <1>4, <1>5

\* The confirmed deposits of a batch are final.
LEMMA ConfirmedFinal ==
  ASSUME Types, BatchWhole, NEW i \in confirmedDeposits(batch)
  PROVE  i \in batch /\ i \in Leaves /\ Deposited(i) /\ Final(log, now, i)
<1>1. i \in batch /\ batch \in SUBSET Leaves
  BY DEF confirmedDeposits, Types, TickTypes
<1>2. LedgerOf(i) < now /\ Deposited(i) /\ LedgerOf(i) = log[i + 1].ledger
  BY <1>1 DEF BatchWhole, LedgerOf
<1>3. Confirmations > 1 => LedgerOf(i) <= now - Confirmations
  <2>1. ASSUME Confirmations > 1 PROVE LedgerOf(i) <= now - Confirmations
    <3>1. ~ (Confirmations <= 1) /\ (now - 1) - Confirmations + 1 = now - Confirmations
      BY <2>1, AspBoundsAssumption, SMTT(30) DEF Types, ChainTypes
    <3> QED BY <3>1 DEF confirmedDeposits, latestLedger
  <2> QED BY <2>1
<1> QED BY <1>1, <1>2, <1>3 DEF Final

\* Screening keeps the list whole: what it adds lies behind the cursor.
LEMMA ScreenedSettled ==
  ASSUME Steady, Types, CoverInv, GrowsInv, pc = "screen", NEW verdict \in Screenings
  PROVE  Settled(screened(verdict), log, now)
<1> DEFINE by(v) == {i \in DOMAIN verdict : verdict[i] = v}
           D == DOMAIN verdict
           A == by("approve")
           new == InOrder(A)
           old == work.approvedIndices
           state == screened(verdict)
<1>0. ChainTypes /\ Settled(work, log, now) /\ BatchWhole /\ Known(work)
  BY DEF Types, GrowsInv, CoverInv
<1>1. D \in SUBSET batch /\ ScreenedTo(state, verdict) /\ D \in SUBSET Leaves
  BY ScreenedFacts DEF Types, TickTypes
<1>2. /\ state.approvedIndices = old \o new /\ Range(state.approvedIndices) = Range(old) \cup A
      /\ state.rejectedIndices = work.rejectedIndices \cup by("reject")
      /\ \A i \in A : i <= state.lastIndex
      /\ work.lastIndex <= state.lastIndex /\ IsPoolState(state)
  BY <1>1 DEF ScreenedTo
<1>3. \A i \in D : Verdicts(i) = {verdict[i]}
  <2>1. \A i \in D : verdict[i] \in Verdicts(i) /\ i \in Indices
    BY <1>0, <1>1, LeafEvents DEF Screenings
  <2> QED BY <2>1 DEF Steady
<1>4. /\ \A i \in A : Verdicts(i) = {"approve"}
      /\ \A i \in by("reject") : Verdicts(i) = {"reject"}
  BY <1>3
<1>5. \A i \in A : i \in batch /\ Approvable(log, i) /\ Final(log, now, i)
  <2>1. \A i \in A : i \in confirmedDeposits(batch)
    BY DEF Screenings, undecided
  <2> QED BY <1>0, <1>4, <2>1, ConfirmedFinal DEF Approvable, Deposited, Leaves
<1>6. new \in Seq(Nat) /\ Range(new) = A /\ Ascending(new) /\ A \in SUBSET Nat
  <2>1. A \in SUBSET Int /\ A \in SUBSET Nat /\ IsFiniteSet(A)
    BY <1>0, <1>1, LeavesFinite
  <2>2. new \in Seq(A) /\ Range(new) = A /\ Ascending(new)
    BY <2>1, OrderFacts
  <2> HIDE DEF A, new
  <2> QED BY <2>1, <2>2, SeqOfNat
<1>7. /\ old \in Seq(Nat) /\ Ascending(old) /\ Range(old) \subseteq Leaves
      /\ \A i \in Range(old) : i <= work.lastIndex
      /\ work.lastIndex \in Int /\ state.lastIndex \in Int
  BY <1>0, <1>2 DEF Settled, Whole, Known, IsPoolState
<1>8. \A i \in A : i > work.lastIndex /\ i \in Nat
  BY <1>0, <1>1, <1>6 DEF BatchWhole
<1>9. \A i \in Leaves : i \in Nat
  BY <1>0, LeafEvents
<1> HIDE DEF D, A, by, new, old, state
<1>10. \A x \in Range(old), y \in Range(new) : x < y
  <2>1. ASSUME NEW x \in Range(old), NEW y \in A PROVE x < y
    <3>1. x \in Nat /\ x <= work.lastIndex /\ y \in Nat /\ y > work.lastIndex
      BY <1>7, <1>8, <1>9
    <3> QED BY <3>1, <1>7, SMTT(30)
  <2> QED BY <2>1, <1>6
<1>11. Ascending(state.approvedIndices)
  BY <1>2, <1>6, <1>7, <1>10, AscendingConcat
<1>12. \A i \in Range(state.approvedIndices) : Approvable(log, i) /\ Final(log, now, i)
  BY <1>0, <1>2, <1>5 DEF Settled, Whole, old
<1>13. \A i \in Range(state.approvedIndices) : i <= state.lastIndex
  <2>1. ASSUME NEW i \in Range(old) PROVE i <= state.lastIndex
    <3>1. i \in Nat /\ i <= work.lastIndex
      BY <1>7, <1>9
    <3> QED BY <3>1, <1>2, <1>7, SMTT(30)
  <2> QED BY <1>2, <2>1
<1>14. \A i \in state.rejectedIndices : Verdicts(i) = {"reject"}
  BY <1>0, <1>2, <1>4 DEF Settled
<1>15. ASSUME NEW i, NEW e \in Range(state.approvedIndices), Approvable(log, i), i < e
       PROVE  i \in Range(state.approvedIndices)
  <2>1. i \in Leaves /\ Deposited(i) /\ Verdicts(i) = {"approve"} /\ e \in Leaves
    BY <1>12, <1>15 DEF Approvable, Leaves, Deposited
  <2>2. i <= state.lastIndex
    <3>1. i \in Nat /\ e \in Nat /\ e <= state.lastIndex
      BY <1>9, <1>13, <2>1
    <3> QED BY <3>1, <1>7, <1>15, SMTT(30)
  <2>3. Covered(state)
    BY SteadyDecides, ScreenedCovered DEF state
  <2>4. i \in Decided(state)
    BY <2>1, <2>2, <2>3 DEF Covered, Passed
  <2>5. i \notin state.rejectedIndices
    BY <1>14, <2>1
  <2> QED BY <2>4, <2>5 DEF Decided
<1> QED BY <1>11, <1>12, <1>13, <1>14, <1>15 DEF Settled, Whole, state

\* Without appeals every PoolState a step can leave is settled.
LEMMA ComesSettled ==
  ASSUME Steady, Appeals = {}, Types, CoverInv, GrowsInv, NEW state, Comes(state)
  PROVE  Settled(state, log, now)
<1>1. CASE state = store \/ state = work
  BY <1>1 DEF GrowsInv
<1>2. ASSUME pc = "screen", NEW verdict \in Screenings, state = screened(verdict)
      PROVE  Settled(state, log, now)
  BY <1>2, ScreenedSettled
<1>3. CASE state = merged
  <2>1. Settled(work, log, now)
    BY DEF GrowsInv
  <2> QED BY <1>3, <2>1, MergedFacts DEF Settled
<1> QED BY <1>1, <1>2, <1>3 DEF Comes

\* What may come on chain changes in two ways: an inclusion leaves one of the
\* published sets and voids the others, and a tick sends its own.
LEMMA PublishedSteps ==
  ASSUME Types, ServedInv, Next \/ UNCHANGED vars
  PROVE  \/ Published' = Published /\ onchain'["asp"].root = onchain["asp"].root
         \/ /\ onchain'["asp"].root \in Published /\ Published' = {onchain'["asp"].root}
            /\ UNCHANGED <<log, now, tick>>
         \/ /\ pc = "post_asp" /\ pc' = "confirm" /\ UNCHANGED <<log, now, work>>
            /\ Published' = Published \cup {work.approvedIndices}
            /\ onchain'["asp"].root = onchain["asp"].root
<1>1. CASE UNCHANGED <<onchain, txs>>
  BY <1>1 DEF Published
<1>2. ASSUME NEW tx, Include(tx)
      PROVE  /\ onchain'["asp"].root \in Published /\ Published' = {onchain'["asp"].root}
             /\ UNCHANGED <<log, now, tick>>
  <2>1. /\ tx \in txs /\ tx.seq = seq + 1 /\ txs' = {t \in txs : t.seq > tx.seq}
        /\ UNCHANGED <<log, now, tick>>
    BY <1>2 DEF Include
  <2>2. tx \in Tx /\ seq \in Nat
    BY <2>1 DEF Types, ChainTypes
  <2>3. txs' = {}
    <3>1. ~ (tx.seq > tx.seq)
      BY <2>1, <2>2, SMTT(30)
    <3> QED BY <2>1, <3>1 DEF ServedInv
  <2>4. Published' = {onchain'["asp"].root}
    BY <2>3 DEF Published
  <2>5. onchain'["asp"].root \in Published
    <3>1. CASE tx.kind = "asp"
      <4>1. onchain'["asp"].root = tx.root
        BY <1>2, <3>1 DEF Include, Types, ChainTypes
      <4> QED BY <2>1, <3>1, <4>1 DEF Published
    <3>2. CASE tx.kind = "state"
      <4>1. onchain'["asp"].root = onchain["asp"].root
        BY <1>2, <3>2 DEF Include, Types, ChainTypes
      <4> QED BY <4>1 DEF Published
    <3>3. tx.kind \in {"asp", "state"}
      BY <2>2, SMTT(30) DEF Tx
    <3> QED BY <3>1, <3>2, <3>3
  <2> QED BY <2>1, <2>4, <2>5
<1>3. CASE PostAspRoot
  <2>1. /\ pc = "post_asp" /\ pc' = "confirm" /\ UNCHANGED <<log, now, work, onchain>>
        /\ txs' = txs \cup {mytx'} /\ mytx'.kind = "asp" /\ mytx'.root = work.approvedIndices
    BY <1>3 DEF PostAspRoot, Post
  <2>2. Published' = Published \cup {work.approvedIndices}
    BY <2>1 DEF Published
  <2> QED BY <2>1, <2>2
<1>4. CASE PostStateRoot
  <2>1. UNCHANGED onchain /\ txs' = txs \cup {mytx'} /\ mytx'.kind = "state"
    BY <1>4 DEF PostStateRoot, Post
  <2>2. Published' = Published
    BY <2>1 DEF Published
  <2> QED BY <2>1, <2>2
<1>5. ASSUME NEW topic, PoolEvent(topic) PROVE UNCHANGED <<onchain, txs>>
  BY <1>5 DEF PoolEvent
<1>6. ASSUME NEW i, Reinstate(i) PROVE UNCHANGED <<onchain, txs>>
  BY <1>6 DEF Reinstate, chain
<1>7. CASE UNCHANGED vars \/ CloseLedger \/ TickFails \/ Crash
  BY <1>1, <1>7 DEF vars, chain, CloseLedger, TickFails, Crash
<1>8. CASE readDeposits \/ Screen \/ CompareAsp \/ Confirmed \/ NotConfirmed
  BY <1>1, <1>8 DEF readDeposits, Screen, CompareAsp, Confirmed, NotConfirmed, chain
<1>9. CASE ReadDepositLeaves \/ ReadWithdrawLeaves \/ MergeLeaves \/ CompareState \/ Save
  BY <1>1, <1>9 DEF ReadDepositLeaves, ReadWithdrawLeaves, MergeLeaves, CompareState,
                    Save, chain
<1> QED
  BY <1>1, <1>2, <1>3, <1>4, <1>5, <1>6, <1>7, <1>8, <1>9 DEF Next, TickStep

\* What a tick reads when it starts has every final deposit that was sent.
LEMMA ReachRead ==
  ASSUME Types, CoverInv, GrowsInv, readDeposits, NEW root \in Published
  PROVE  Range(root) \subseteq Reach'
<1>1. /\ log' = log /\ now' = now /\ work' = store /\ pc' = "screen"
      /\ batch' = {i \in getEvents("Deposit", store.lastLedger) : i > store.lastIndex}
  BY DEF readDeposits, chain, CoverInv, Covered
<1>2. Reach' = Range(store.approvedIndices) \cup confirmedDeposits(batch)'
  BY <1>1 DEF Reach
<1>3. Whole(root, log, now) /\ Settled(store, log, now) /\ Covered(store) /\ ChainTypes
  BY DEF GrowsInv, CoverInv, Types
<1>4. ASSUME NEW i \in Range(root), i \notin Range(store.approvedIndices)
      PROVE  i \in confirmedDeposits(batch)'
  <2>1. Approvable(log, i) /\ Final(log, now, i)
    BY <1>3, <1>4 DEF Whole
  <2>2. i \in Leaves /\ Deposited(i) /\ Verdicts(i) = {"approve"}
    BY <2>1 DEF Approvable, Leaves, Deposited
  <2>3. ~ Passed(store, i)
    <3>1. i \notin store.rejectedIndices
      BY <1>3, <2>2 DEF Settled
    <3> QED BY <1>3, <1>4, <2>2, <3>1 DEF Covered, Decided
  <2>4. LedgerOf(i) \in Nat /\ i \in Nat /\ LedgerOf(i) = log[i + 1].ledger
    BY <1>3, <2>2, LeafEvents DEF LedgerOf
  <2>5. /\ now \in Nat /\ Confirmations \in Nat
        /\ store.lastIndex \in Int /\ store.lastLedger \in Nat
    BY AspBoundsAssumption DEF Types, ChainTypes, Known, IsPoolState
  <2> DEFINE g == LedgerOf(i)
  <2>6. g < now /\ (Confirmations > 1 => g <= now - Confirmations)
    BY <2>1, <2>4 DEF Final
  <2>7. ~ (i <= store.lastIndex) /\ ~ (g < store.lastLedger)
    BY <2>3 DEF Passed
  <2> HIDE DEF g
  <2>8. g \in Nat
    BY <2>4 DEF g
  <2>9. /\ i > store.lastIndex /\ g >= store.lastLedger /\ g <= now - 1
        /\ (Confirmations <= 1) \/ g <= (now - 1) - Confirmations + 1
    BY <2>4, <2>5, <2>6, <2>7, <2>8, SMTT(30)
  <2>10. i \in batch'
    BY <1>1, <2>2, <2>9 DEF getEvents, Deposited, g, latestLedger
  <2>11. LedgerOf(i)' = g
    BY <1>1 DEF LedgerOf, g
  <2>12. LedgerOf(i)' = log'[i + 1].ledger
    BY DEF LedgerOf
  <2> QED BY <1>1, <2>9, <2>10, <2>11, <2>12 DEF confirmedDeposits, latestLedger, LedgerOf
<1> QED BY <1>2, <1>4

\* Screening approves what the tick has read and the policy approves.
LEMMA ReachScreened ==
  ASSUME Steady, Types, CoverInv, GrowsInv, pc = "screen", NEW verdict \in Screenings,
         NEW root \in Published
  PROVE  Range(root) \subseteq Range(screened(verdict).approvedIndices)
<1> DEFINE A == {i \in DOMAIN verdict : verdict[i] = "approve"}
<1>1. Range(screened(verdict).approvedIndices) = Range(work.approvedIndices) \cup A
  BY ScreenedFacts DEF ScreenedTo
<1>2. ASSUME NEW i \in Range(root), i \notin Range(work.approvedIndices) PROVE i \in A
  <2>1. i \in confirmedDeposits(batch)
    BY <1>2 DEF GrowsInv, Reach
  <2>2. Verdicts(i) = {"approve"}
    BY <1>2 DEF GrowsInv, Whole, Approvable
  <2>3. i \notin work.rejectedIndices
    BY <2>2 DEF GrowsInv, Settled
  <2>4. i \in undecided(confirmedDeposits(batch))
    BY <1>2, <2>1, <2>3 DEF undecided
  <2>5. i \in DOMAIN verdict /\ verdict[i] \in Verdicts(i)
    BY <2>4 DEF Screenings
  <2> QED BY <2>2, <2>5
<1> QED BY <1>1, <1>2

\* The batch of a tick loses no confirmed deposit while the chain goes on.
LEMMA ReachStays ==
  ASSUME Types, LogStep, now' = now \/ now' = now + 1, pc = "screen", pc' = "screen",
         batch' = batch, work' = work
  PROVE  Reach \subseteq Reach'
<1>1. ChainTypes /\ batch \in SUBSET Leaves /\ now \in Nat /\ Confirmations \in Nat
  BY AspBoundsAssumption DEF Types, ChainTypes, TickTypes
<1>2. \A i \in Leaves : log'[i + 1] = log[i + 1]
  BY <1>1, LogGrows
<1>3. ASSUME NEW i \in confirmedDeposits(batch) PROVE i \in confirmedDeposits(batch)'
  <2>1. i \in batch
    BY DEF confirmedDeposits
  <2>2. CASE Confirmations <= 1
    BY <2>1, <2>2 DEF confirmedDeposits
  <2>3. CASE ~ (Confirmations <= 1)
    <3> DEFINE g == log[i + 1].ledger
    <3>1. g <= (now - 1) - Confirmations + 1
      BY <2>3 DEF confirmedDeposits, LedgerOf, latestLedger
    <3>2. g \in Nat /\ log'[i + 1].ledger = g
      BY <1>1, <1>2, <2>1, LeafEvents DEF LedgerOf
    <3> HIDE DEF g
    <3>3. g <= (now' - 1) - Confirmations + 1
      BY <1>1, <3>1, <3>2, SMTT(30)
    <3> QED BY <2>1, <2>3, <3>2, <3>3 DEF confirmedDeposits, LedgerOf, latestLedger
  <2> QED BY <2>2, <2>3
<1> QED BY <1>3 DEF Reach

\* After the screening a tick keeps its list to its end.
LEMMA ListSteps ==
  ASSUME Types, Next \/ UNCHANGED vars, pc' \notin {"idle", "screen"}
  PROVE  \/ pc = "screen" /\ \E verdict \in Screenings : work' = screened(verdict)
         \/ pc \notin {"idle", "screen"} /\ work'.approvedIndices = work.approvedIndices
<1> DEFINE Same == pc \notin {"idle", "screen"} /\ work'.approvedIndices = work.approvedIndices
<1>1. CASE UNCHANGED vars \/ CloseLedger
  BY <1>1 DEF vars, tick, CloseLedger
<1>2. ASSUME NEW topic, PoolEvent(topic) PROVE Same
  BY <1>2 DEF PoolEvent, tick
<1>3. ASSUME NEW tx, Include(tx) PROVE Same
  BY <1>3 DEF Include, tick
<1>4. ASSUME NEW i, Reinstate(i) PROVE Same
  BY <1>4 DEF Reinstate
<1>5. CASE Screen
  <2>1. PICK verdict \in [undecided(confirmedDeposits(batch)) -> {"approve", "reject", "defer"}] :
          /\ \A i \in DOMAIN verdict : verdict[i] \in Verdicts(i)
          /\ work' = screened(verdict)
    BY <1>5 DEF Screen, TickEnds
  <2>2. verdict \in Screenings
    BY <2>1 DEF Screenings
  <2> QED BY <1>5, <2>1, <2>2 DEF Screen
<1>6. CASE MergeLeaves
  <2>1. pc = "merge_leaves" /\ work' = merged
    BY <1>6 DEF MergeLeaves, TickEnds, merged
  <2> QED BY <2>1, MergedFacts
<1>7. CASE readDeposits \/ NotConfirmed \/ Save \/ TickFails \/ Crash
  BY <1>7 DEF readDeposits, NotConfirmed, Save, TickFails, Crash, TickEnds
<1>8. CASE CompareAsp \/ PostAspRoot \/ Confirmed \/ CompareState \/ PostStateRoot
  BY <1>8 DEF CompareAsp, PostAspRoot, Confirmed, CompareState, PostStateRoot, Post
<1>9. CASE ReadDepositLeaves \/ ReadWithdrawLeaves
  BY <1>9 DEF ReadDepositLeaves, ReadWithdrawLeaves
<1> QED
  BY <1>1, <1>2, <1>3, <1>4, <1>5, <1>6, <1>7, <1>8, <1>9 DEF Next, TickStep

\* A tick under way has, after any step, what was published before it.
LEMMA ReachStep ==
  ASSUME Steady, Types, CoverInv, GrowsInv, Next \/ UNCHANGED vars, pc' # "idle",
         NEW root \in Published
  PROVE  Range(root) \subseteq Reach'
<1>1. CASE readDeposits
  BY <1>1, ReachRead
<1>2. CASE ~ readDeposits /\ pc' = "screen"
  <2>1. pc = "screen" /\ batch' = batch /\ work' = work
    BY <1>2, BatchSteps
  <2>2. Range(root) \subseteq Reach
    BY <2>1 DEF GrowsInv
  <2> QED BY <1>2, <2>1, <2>2, LogSteps, ReachStays
<1>3. CASE pc' # "screen"
  <2>1. Reach' = Range(work'.approvedIndices)
    BY <1>3 DEF Reach
  <2>2. CASE pc = "screen" /\ \E verdict \in Screenings : work' = screened(verdict)
    BY <2>1, <2>2, ReachScreened
  <2>3. CASE pc \notin {"idle", "screen"} /\ work'.approvedIndices = work.approvedIndices
    BY <2>1, <2>3 DEF GrowsInv, Reach
  <2> QED BY <1>3, <2>2, <2>3, ListSteps
<1> QED BY <1>1, <1>2, <1>3

\* Every step keeps the lists whole and nested.
LEMMA GrowsStep ==
  ASSUME Steady, Appeals = {}, Types, CoverInv, ServedInv, GrowsInv, Next \/ UNCHANGED vars
  PROVE  GrowsInv'
<1>1. LogStep /\ (now' = now \/ now' = now + 1) /\ ChainTypes
  BY LogSteps DEF Types
<1>2. \A root : Whole(root, log, now) => Whole(root, log', now')
  BY <1>1, WholeStays
<1>3. Settled(store', log, now) /\ Settled(work', log, now)
  BY StatesCome, ComesSettled
<1>4. Settled(store', log', now') /\ Settled(work', log', now')
  BY <1>2, <1>3 DEF Settled
<1> DEFINE chained == onchain'["asp"].root
<1>5. /\ \A root \in Published' : Whole(root, log', now') /\ Range(chained) \subseteq Range(root)
      /\ pc' # "idle" => \A root \in Published' : Range(root) \subseteq Reach'
  <2> DEFINE P == Published'
  <2>0. /\ \A root \in Published : Whole(root, log', now')
        /\ \A root \in Published : Range(onchain["asp"].root) \subseteq Range(root)
        /\ pc' # "idle" => \A root \in Published : Range(root) \subseteq Reach'
    BY <1>2, ReachStep DEF GrowsInv
  <2>1. CASE P = Published /\ chained = onchain["asp"].root
    BY <2>0, <2>1
  <2>2. CASE chained \in Published /\ P = {chained}
    BY <2>0, <2>2
  <2>3. CASE /\ pc = "post_asp" /\ pc' = "confirm" /\ UNCHANGED <<log, now, work>>
             /\ P = Published \cup {work.approvedIndices}
             /\ chained = onchain["asp"].root
    <3>1. Whole(work.approvedIndices, log', now')
      BY <2>3 DEF GrowsInv, Settled
    <3>2. Reach = Range(work.approvedIndices) /\ Reach' = Range(work.approvedIndices)
      BY <2>3 DEF Reach
    <3>3. onchain["asp"].root \in Published
      BY DEF Published
    <3>4. Range(chained) \subseteq Range(work.approvedIndices)
      BY <2>3, <3>2, <3>3 DEF GrowsInv
    <3> HIDE DEF chained, P
    <3> QED BY <2>0, <2>3, <3>1, <3>2, <3>4 DEF P
  <2> QED BY <2>1, <2>2, <2>3, PublishedSteps
<1> QED BY <1>4, <1>5 DEF GrowsInv

\* Nothing is approved or published at first.
LEMMA GrowsInit == Init => GrowsInv
<1>1. SUFFICES ASSUME Init PROVE GrowsInv
  OBVIOUS
<1>2. Range(<< >>) = {} /\ Ascending(<< >>)
  BY SMTT(30) DEF Range, Ascending
<1>3. Whole(<< >>, log, now)
  BY <1>2 DEF Whole
<1>4. initState.approvedIndices = << >> /\ initState.rejectedIndices = {}
  BY SMTT(30) DEF initState
<1>5. Settled(initState, log, now)
  BY <1>2, <1>3, <1>4 DEF Settled
<1>6. onchain["asp"].root = << >> /\ Published = {onchain["asp"].root}
  BY <1>1 DEF Init, NoRoot, Published
<1> QED BY <1>1, <1>3, <1>5, <1>6 DEF Init, GrowsInv

\* When an association set comes on chain it goes on where the last one ended.
LEMMA GrowsAtEnd ==
  ASSUME Types, ServedInv, GrowsInv, Next \/ UNCHANGED vars
  PROVE  Extends(onchain'["asp"].root, onchain["asp"].root)
<1> DEFINE r == onchain["asp"].root
           t == onchain'["asp"].root
<1>1. r \in Published /\ t \in Published
  BY PublishedSteps DEF Published
<1>2. \A root \in Published : root \in Seq(Nat)
  <2>1. onchain["asp"].root \in Seq(Nat)
    BY SMTT(30) DEF Types, ChainTypes
  <2>2. \A u \in txs : u.root \in Seq(Nat)
    BY SMTT(30) DEF Types, ChainTypes, Tx
  <2> QED BY <2>1, <2>2 DEF Published
<1>3. Whole(r, log, now) /\ Whole(t, log, now) /\ Range(r) \subseteq Range(t)
  BY <1>1 DEF GrowsInv
<1>4. r \in Seq(Nat) /\ t \in Seq(Nat)
  BY <1>1, <1>2
<1> HIDE DEF r, t
<1>5. \A x \in Range(t), e \in Range(r) : x < e => x \in Range(r)
  BY <1>3 DEF Whole
<1>6. Ascending(r) /\ Ascending(t)
  BY <1>3 DEF Whole
<1>7. Extends(t, r)
  BY <1>3, <1>4, <1>5, <1>6, AscendingPrefix
<1> QED BY <1>7 DEF r, t

\* With a steady policy and no appeals the association set on chain only grows
\* at its end, also when the root of a failed tick lands during a later one
\* (runPoolTick, postRoot): leaf indices stay what they are.
THEOREM AspRootGrowsHolds ==
  ASSUME Steady, Appeals = {}
  PROVE  Spec => AspRootGrows
<1>1. CoverInv /\ Types /\ Types' /\ [Next]_vars => CoverInv'
  BY SteadyDecides, CoverStep
<1>2. GrowsInv /\ ServedInv /\ CoverInv /\ Types /\ [Next]_vars => GrowsInv'
  BY GrowsStep
<1>3. GrowsInv /\ ServedInv /\ Types /\ [Next]_vars =>
        [Extends(onchain'["asp"].root, onchain["asp"].root)]_vars
  BY GrowsAtEnd
<1> QED
  BY <1>1, <1>2, <1>3, CoverInit, GrowsInit, ServedInvariant, AspTypes, PTL
     DEF Spec, AspRootGrows

==============================================================================
