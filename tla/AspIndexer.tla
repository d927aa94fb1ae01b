------------------------------ MODULE AspIndexer ------------------------------
(***************************************************************************)
(* The Association Set Provider (asp/): the indexer that reads the pool's  *)
(* events, screens deposits, and keeps the two roots of the privacy pool   *)
(* up to date.  One tick of asp/src/engine.ts is several steps, because    *)
(* ledgers close, transactions land, requests fail and the process crashes *)
(* between its calls.                                                      *)
(*                                                                         *)
(* A leaf is its index, and a root is the sequence of leaves it was        *)
(* computed from: the Merkle trees keep different sequences apart.  Event  *)
(* i of the pool inserts leaf i - 1 (PrivacyPool!LeafIndicesFollowEvents). *)
(***************************************************************************)
EXTENDS Integers, Sequences, FiniteSetsExt

CONSTANTS
  Verdicts(_),       \* the verdicts the policy may return for a deposit
  Confirmations,     \* ASP_CONFIRMATIONS
  MaxSets,           \* DEFAULT_MAX_SETS_PER_POOL
  Appeals,           \* the deposits an operator may reinstate
  MaxEvents,         \* bound: length of the event log
  MaxLedger,         \* bound: last open ledger
  MaxFailures,       \* bound: failing ticks and crashes
  MaxTxs             \* bound: root transactions that are included

ASSUME AspBoundsAssumption ==
  /\ Confirmations \in Nat /\ MaxSets \in Nat \ {0}
  /\ MaxEvents \in Nat /\ MaxLedger \in Nat \ {0} /\ MaxFailures \in Nat
  /\ MaxTxs \in Nat

Indices == 0 .. (MaxEvents - 1)

ASSUME AspPolicyAssumption ==
  /\ Appeals \subseteq Indices
  /\ \A i \in Indices : Verdicts(i) \subseteq {"approve", "reject", "defer"}

NoRoot == [root |-> << >>, ledger |-> 0]
NoTx == [kind |-> "none", root |-> << >>, seq |-> 0]

VARIABLES
  \* the chain
  now,        \* the open ledger; the RPC node serves the ledgers before it
  log,        \* the pool's events
  onchain,    \* get_latest_root of either kind and the ledger of its entry
  seq,        \* sequence number of the authority's account
  txs,        \* root transactions that were sent and may still be included
  landed,     \* the authority's last transaction that was included
  \* the data directory
  store,      \* PoolState
  sets,       \* manifests of sets/<poolId>, newest first
  \* the process
  pc, work, batch, seen, mytx,
  guard,      \* ReorgGuard.expectedNextLedger
  halted,     \* did the last tick halt for a reorg?
  failures

chain == <<now, log, onchain, seq, txs, landed>>
tick == <<pc, work, batch, seen, mytx>>
vars == <<chain, store, sets, tick, guard, halted, failures>>

\* A set of indices in ascending order, as sort((a, b) => a - b) leaves it.
Ascending(s) == \A j, k \in DOMAIN s : j < k => s[j] < s[k]
InOrder(S) ==
  CHOOSE s \in [1 .. Cardinality(S) -> S] : Range(s) = S /\ Ascending(s)

\* A list of files without one of them.
Without(files, file) ==
  IF file \in Range(files)
  THEN LET at == CHOOSE i \in DOMAIN files : files[i] = file
       IN  SubSeq(files, 1, at - 1) \o SubSeq(files, at + 1, Len(files))
  ELSE files

\* A list that begins with another.
Extends(new, old) == Len(old) <= Len(new) /\ SubSeq(new, 1, Len(old)) = old

-----------------------------------------------------------------------------
(* The RPC node.                                                           *)

latestLedger == now - 1

Leaves == 0 .. (Len(log) - 1)
LedgerOf(i) == log[i + 1].ledger

\* getEvents of one topic: everything in closed ledgers from startLedger on.
getEvents(topic, startLedger) ==
  {i \in Leaves : /\ log[i + 1].topic = topic
                  /\ LedgerOf(i) >= startLedger /\ LedgerOf(i) <= latestLedger}

-----------------------------------------------------------------------------
(* The chain's own steps.                                                  *)

\* A deposit or a withdrawal of the pool.  The bound leaves the indexer the
\* ledgers in which the deposit becomes final.
PoolEvent(topic) ==
  /\ Len(log) < MaxEvents
  /\ now + Confirmations < MaxLedger
  /\ topic = "Withdraw" => log # << >>
  /\ log' = Append(log, [topic |-> topic, ledger |-> now])
  /\ UNCHANGED <<now, onchain, seq, txs, landed, store, sets, tick, guard,
                 halted, failures>>

CloseLedger ==
  /\ now < MaxLedger
  /\ now' = now + 1
  /\ UNCHANGED <<log, onchain, seq, txs, landed, store, sets, tick, guard,
                 halted, failures>>

\* A transaction is included when it carries the account's next sequence
\* number; whatever else was sent under that number is void.
Include(tx) ==
  /\ tx \in txs /\ tx.seq = seq + 1
  /\ seq' = tx.seq
  /\ txs' = {t \in txs : t.seq > tx.seq}
  /\ landed' = tx
  /\ onchain' = [onchain EXCEPT ![tx.kind] = [root |-> tx.root, ledger |-> now]]
  /\ UNCHANGED <<now, log, store, sets, tick, guard, halted, failures>>

-----------------------------------------------------------------------------
(* The tick.                                                               *)

initState ==
  [approvedIndices |-> << >>, rejectedIndices |-> {}, deferredIndices |-> {},
   lastIndex |-> -1, lastLedger |-> 0, stateEventCursor |-> 0, stateLeaves |-> {}]

Init ==
  /\ now = 1 /\ log = << >> /\ seq = 0 /\ txs = {} /\ landed = NoTx
  /\ onchain = [asp |-> NoRoot, state |-> NoRoot]
  /\ store = initState /\ sets = << >>
  /\ pc = "idle" /\ work = initState /\ batch = {} /\ seen = {} /\ mytx = NoTx
  /\ guard = 0 /\ halted = FALSE /\ failures = 0

\* The tick is over, by returning or by throwing: the PoolState it worked on
\* is gone, what it saved is the store.
TickEnds ==
  pc' = "idle" /\ work' = store' /\ batch' = {} /\ seen' = {} /\ mytx' = NoTx

readDeposits ==
  LET readAfterIndex == IF store.deferredIndices # {} THEN -1 ELSE store.lastIndex
  IN  /\ pc = "idle"
      /\ batch' = {i \in getEvents("Deposit", store.lastLedger) : i > readAfterIndex}
      /\ work' = store
      /\ pc' = "screen"
      /\ UNCHANGED <<chain, store, sets, seen, mytx, guard, halted, failures>>

\* Mutant: deposits that are not final yet move the cursor too.
screened_All(verdict) ==
  [work EXCEPT
     !.approvedIndices = @ \o InOrder(
         {i \in DOMAIN verdict : verdict[i] = "approve"}),
     !.rejectedIndices = @ \cup {i \in DOMAIN verdict : verdict[i] = "reject"},
     !.deferredIndices = {i \in DOMAIN verdict : verdict[i] = "defer"},
     !.lastIndex = Max({@} \cup batch),
     !.lastLedger = Max({@} \cup {LedgerOf(i) : i \in DOMAIN verdict})]

\* Mutant: newly approved deposits come first.
screened_Unshift(verdict) ==
  [work EXCEPT
     !.approvedIndices = InOrder(
         {i \in DOMAIN verdict : verdict[i] = "approve"}) \o @,
     !.rejectedIndices = @ \cup {i \in DOMAIN verdict : verdict[i] = "reject"},
     !.deferredIndices = {i \in DOMAIN verdict : verdict[i] = "defer"},
     !.lastIndex = Max({@} \cup {i \in DOMAIN verdict : verdict[i] # "defer"}),
     !.lastLedger = Max({@} \cup {LedgerOf(i) : i \in DOMAIN verdict})]

\* The PoolState after the deposits have been screened.
screened(verdict) ==
  [work EXCEPT
     !.approvedIndices = @ \o InOrder(
         {i \in DOMAIN verdict : verdict[i] = "approve"}),
     !.rejectedIndices = @ \cup {i \in DOMAIN verdict : verdict[i] = "reject"},
     !.deferredIndices = {i \in DOMAIN verdict : verdict[i] = "defer"},
     !.lastIndex = Max({@} \cup {i \in DOMAIN verdict : verdict[i] # "defer"}),
     !.lastLedger = Max({@} \cup {LedgerOf(i) : i \in DOMAIN verdict})]

confirmedDeposits(deposits) ==
  IF Confirmations <= 1 THEN deposits
  ELSE {i \in deposits : LedgerOf(i) <= latestLedger - Confirmations + 1}

\* Mutant: a deposit that was decided before is screened again.
undecided_All(deposits) == deposits

undecided(deposits) ==
  deposits \ (Range(work.approvedIndices) \cup work.rejectedIndices)

\* ReorgGuard.validate accepts the batch.
validate(batchStartLedger) == guard = 0 \/ batchStartLedger >= guard

\* Screening, and the reorg guard over it.  A batch the guard refuses is saved
\* but not published.
Screen ==
  /\ pc = "screen"
  /\ LET deposits == confirmedDeposits(batch)
     IN  \E verdict \in [undecided(deposits) -> {"approve", "reject", "defer"}] :
           /\ \A i \in DOMAIN verdict : verdict[i] \in Verdicts(i)
           /\ LET state == screened(verdict)
                  refused == deposits # {} /\ ~validate(state.lastLedger)
              IN  /\ halted' = refused
                  /\ guard' = IF refused THEN state.lastLedger
                              ELSE IF deposits = {} THEN guard
                              ELSE Max({LedgerOf(i) : i \in deposits}) + 1
                  /\ IF refused
                     THEN store' = state /\ TickEnds
                     ELSE /\ work' = state /\ batch' = {} /\ pc' = "compare_asp"
                          /\ UNCHANGED <<store, seen, mytx>>
  /\ UNCHANGED <<chain, sets, failures>>

\* Mutant: retention keeps the files that come first by name.
writeManifest_ByName(root) ==
  LET roots == Range(sets) \cup {root}
      files == CHOOSE s \in [1 .. Cardinality(roots) -> roots] :
                 /\ Range(s) = roots
                 /\ \A j, k \in DOMAIN s : j < k => Len(s[j]) <= Len(s[k])
  IN  SubSeq(files, 1, Min({MaxSets, Len(files)}))

\* The manifests after one for root is written and the oldest are pruned.
writeManifest(root) ==
  LET files == <<root>> \o Without(sets, root)
  IN  SubSeq(files, 1, Min({MaxSets, Len(files)}))

\* Mutant: the tick publishes what it has approved itself.
CompareAsp_Append ==
  /\ pc = "compare_asp"
  /\ IF work.approvedIndices # store.approvedIndices
     THEN pc' = "post_asp" /\ sets' = writeManifest(work.approvedIndices)
     ELSE pc' = "read_deposit_leaves" /\ UNCHANGED sets
  /\ UNCHANGED <<chain, store, work, batch, seen, mytx, guard, halted, failures>>

\* Compare with the ASP root on chain; the manifest goes first.
CompareAsp ==
  /\ pc = "compare_asp"
  /\ LET localRoot == work.approvedIndices
     IN  IF localRoot # << >> /\ localRoot # onchain["asp"].root
         THEN pc' = "post_asp" /\ sets' = writeManifest(localRoot)
         ELSE pc' = "read_deposit_leaves" /\ UNCHANGED sets
  /\ UNCHANGED <<chain, store, work, batch, seen, mytx, guard, halted, failures>>

\* postRoot up to sendTransaction, with the account's sequence number.
Post(kind, root) ==
  /\ seq < MaxTxs
  /\ mytx' = [kind |-> kind, root |-> root, seq |-> seq + 1]
  /\ txs' = txs \cup {mytx'}
  /\ pc' = "confirm"
  /\ UNCHANGED <<now, log, onchain, seq, landed, store, sets, work, batch, seen,
                 guard, halted, failures>>

\* The leaves the state tree is built from, in order.
stateRoot == InOrder(work.stateLeaves)

PostAspRoot == pc = "post_asp" /\ Post("asp", work.approvedIndices)

PostStateRoot == pc = "post_state" /\ Post("state", stateRoot)

\* The polling loop of postRoot sees SUCCESS.
Confirmed ==
  /\ pc = "confirm" /\ landed = mytx
  /\ pc' = IF mytx.kind = "asp" THEN "read_deposit_leaves" ELSE "save"
  /\ mytx' = NoTx
  /\ UNCHANGED <<chain, store, sets, work, batch, seen, guard, halted, failures>>

\* Another transaction has used the sequence number: the post is rejected or
\* never found, and the tick throws.
NotConfirmed ==
  /\ pc = "confirm" /\ landed # mytx /\ seq >= mytx.seq
  /\ UNCHANGED store /\ TickEnds
  /\ UNCHANGED <<chain, sets, guard, halted, failures>>

\* readStateLeaves pages the Deposit topic, ...
ReadDepositLeaves ==
  /\ pc = "read_deposit_leaves"
  /\ seen' = getEvents("Deposit", work.stateEventCursor)
  /\ pc' = "read_withdraw_leaves"
  /\ UNCHANGED <<chain, store, sets, work, batch, mytx, guard, halted, failures>>

\* ... then the Withdraw topic, ...
ReadWithdrawLeaves ==
  /\ pc = "read_withdraw_leaves"
  /\ seen' = seen \cup getEvents("Withdraw", work.stateEventCursor)
  /\ pc' = "merge_leaves"
  /\ UNCHANGED <<chain, store, sets, work, batch, mytx, guard, halted, failures>>

\* Mutant: a missing leaf counts as the empty leaf.
hasHole_Never(leaves) == FALSE

\* The tree is built from the leaves in order, and BigInt throws on a hole.
hasHole(leaves) == \E i \in 0 .. Max(leaves) : i \notin leaves

\* ... and takes the latest ledger as the next cursor.  A hole ends the tick.
MergeLeaves ==
  /\ pc = "merge_leaves"
  /\ LET leaves == work.stateLeaves \cup seen
     IN  IF leaves # {} /\ hasHole(leaves)
         THEN UNCHANGED store /\ TickEnds
         ELSE /\ work' = [work EXCEPT !.stateLeaves = leaves,
                                      !.stateEventCursor = latestLedger]
              /\ seen' = {}
              /\ pc' = IF leaves = {} THEN "save" ELSE "compare_state"
              /\ UNCHANGED <<store, batch, mytx>>
  /\ UNCHANGED <<chain, sets, guard, halted, failures>>

CompareState ==
  /\ pc = "compare_state"
  /\ pc' = IF stateRoot # onchain["state"].root THEN "post_state" ELSE "save"
  /\ UNCHANGED <<chain, store, sets, work, batch, seen, mytx, guard, halted,
                 failures>>

Save ==
  /\ pc = "save"
  /\ store' = work
  /\ TickEnds
  /\ UNCHANGED <<chain, sets, guard, halted, failures>>

TickStep ==
  \/ readDeposits \/ Screen
  \/ CompareAsp \/ PostAspRoot \/ Confirmed \/ NotConfirmed
  \/ ReadDepositLeaves \/ ReadWithdrawLeaves \/ MergeLeaves
  \/ CompareState \/ PostStateRoot \/ Save

\* A request fails or times out: the loop catches it and starts a new tick.
TickFails ==
  /\ pc # "idle"
  /\ failures < MaxFailures
  /\ failures' = failures + 1
  /\ UNCHANGED store /\ TickEnds
  /\ UNCHANGED <<chain, sets, guard, halted>>

\* The process dies and is restarted: the guard starts from nothing.
Crash ==
  /\ failures < MaxFailures
  /\ failures' = failures + 1
  /\ guard' = 0
  /\ UNCHANGED store /\ TickEnds
  /\ UNCHANGED <<chain, sets, halted>>

\* scripts/reinstate.ts, a process of its own on the same store.
Reinstate(index) ==
  /\ index \in store.rejectedIndices
  /\ store' = [store EXCEPT
       !.rejectedIndices = @ \ {index},
       !.deferredIndices = @ \ {index},
       !.approvedIndices = InOrder(Range(@) \cup {index})]
  /\ work' = IF pc = "idle" THEN store' ELSE work
  /\ UNCHANGED <<chain, sets, pc, batch, seen, mytx, guard, halted, failures>>

Next ==
  \/ \E topic \in {"Deposit", "Withdraw"} : PoolEvent(topic)
  \/ CloseLedger
  \/ \E tx \in txs : Include(tx)
  \/ TickStep
  \/ TickFails
  \/ Crash
  \/ \E i \in Appeals : Reinstate(i)

Spec == Init /\ [][Next]_vars

\* The loop keeps ticking, the network includes what it was sent, and ledgers
\* keep closing; at most MaxFailures ticks fail.
Fairness ==
  /\ WF_vars(TickStep)
  /\ WF_vars(\E tx \in txs : Include(tx))
  /\ WF_vars(CloseLedger)

FairSpec == Spec /\ Fairness

-----------------------------------------------------------------------------
(* Properties.                                                             *)

\* No deposit is approved twice or both approved and rejected, although a tick
\* that fails, a deferred deposit and an appeal make the engine see the same
\* deposit again: a second label would shift every later leaf of the set.
DecidedOnce ==
  \A state \in {store, work} :
    /\ IsInjective(state.approvedIndices)
    /\ Range(state.approvedIndices) \cap state.rejectedIndices = {}

\* The cursor never passes a deposit that has no decision: every deposit up to
\* lastIndex, and every one in a ledger before lastLedger, is approved,
\* rejected or waiting in deferredIndices, whatever was final or failed when.
NoDepositForgotten ==
  \A i \in Leaves :
    /\ log[i + 1].topic = "Deposit"
    /\ i <= store.lastIndex \/ LedgerOf(i) < store.lastLedger
    => i \in Range(store.approvedIndices)
              \cup store.rejectedIndices \cup store.deferredIndices

\* The association set on chain only grows at its end, also when a tick failed
\* after it sent a root and the transaction lands during a later tick: the
\* leaf index a withdrawer proves stays the same.  (Reinstating a deposit sorts
\* it in; Appeals names none that has an approved one behind it.)
AspRootGrows == [][Extends(onchain'["asp"].root, onchain["asp"].root)]_vars

\* No state root with a hole, or with a leaf the pool does not have, is ever
\* sent, although the Deposit and the Withdraw events are paged one after the
\* other while ledgers close.
StateRootsAreReal ==
  \A tx \in txs : tx.kind = "state" =>
    /\ Len(tx.root) \in 1 .. Len(log)
    /\ \A k \in 1 .. Len(tx.root) : tx.root[k] = k - 1

\* Retention bounds the manifests on disk, and the one of the root on chain is
\* among them while no more publications failed than retention leaves room for:
\* it is written before the root is sent, and the oldest manifest is the one to go.
RootOnChainIsServed ==
  /\ Len(sets) <= MaxSets
  /\ onchain["asp"].root # << >> /\ failures + 2 <= MaxSets =>
       onchain["asp"].root \in Range(sets)

\* A deposit the policy approves is in the association set on chain at last,
\* whatever ticks fail, crash or are halted by the reorg guard on the way, and
\* even when the state tree cannot be rebuilt.
ApprovedReachesChain ==
  \A i \in Indices :
    (i \in Leaves /\ log[i + 1].topic = "Deposit" /\ Verdicts(i) = {"approve"})
      ~> (i \in Range(onchain["asp"].root))
==============================================================================
