------------------------------ MODULE Publisher ------------------------------
(***************************************************************************)
(* The reputation publisher and the verifier contract it publishes to      *)
(* (publisher/src: http.ts, engine.ts, store.ts, chains/stellar.ts).       *)
(*                                                                         *)
(* POST /v1/reputation/leaves queues a commitment in the inbox directory.  *)
(* A tick reads the state file and the inbox, checks every attestation on  *)
(* chain, prunes and merges leaves, posts the root when the verifier has   *)
(* another one, saves the state and archives what it read.  Requests and   *)
(* the tick interleave at their awaits; the process may die at any step;   *)
(* a root transaction may land after the tick that sent it is gone.        *)
(*                                                                         *)
(* A Merkle root is the sequence of its leaves.  Ledgers close for ever: a *)
(* root entry of the verifier has its age, and is forgotten when it is too *)
(* old to be used.                                                         *)
(***************************************************************************)
EXTENDS Integers, Sequences, FiniteSets, FiniteSetsExt, Functions, Folds

CONSTANTS
  Commitments,          \* records [id, leaf, uid] holders may submit
  Expires,              \* expiration_ledger of each attestation, 0: none
  MaxInbox,             \* FileStore.maxInboxSize
  root_expiry_ledgers,  \* of the verifier
  MaxLedger,            \* bound: ledgers are told apart up to this one
  MaxSubmissions,       \* bound: commitments that are queued
  MaxFailures,          \* bound: failing ticks and crashes
  MaxBlind              \* bound: attestations that read as null

Uids == {c.uid : c \in Commitments}

ASSUME PublisherAssumption ==
  /\ DOMAIN Expires = Uids /\ \A u \in Uids : Expires[u] \in Nat
  /\ MaxInbox \in Nat /\ root_expiry_ledgers \in Nat /\ MaxLedger \in Nat \ {0}
  /\ MaxSubmissions \in Nat /\ MaxFailures \in Nat /\ MaxBlind \in Nat

VARIABLES
  \* the chain
  now, revoked,
  latest,      \* the last root of the verifier's history
  entries,     \* the verifier's root entries that have not expired
  txs,         \* root transactions with the account's next sequence number
  \* the data directory
  leaves,      \* PublisherState.leaves
  inbox,       \* the inbox files: a commitment and the time in the name
  roots,       \* root manifests
  \* the process
  pc,
  ledger,      \* currentLedger of the tick
  box,         \* readInbox of the tick
  looked,      \* how many of the leaves were looked up
  todo,        \* the files of box to look up
  active,      \* activeLeaves: leaves found valid
  eligible,    \* validInbox: inbox entries found valid
  sent,        \* what became of the transaction of the tick
  \* history
  acked,       \* commitments that were answered with 202
  blinded,     \* commitments whose attestation once read as null
  submissions, failures

chain == <<now, revoked, latest, entries, txs>>
data == <<leaves, inbox, roots>>
work == <<ledger, box, looked, todo, active, eligible>>
tick == <<pc, work, sent>>
history == <<acked, blinded, submissions, failures>>
vars == <<chain, data, tick, history>>

-----------------------------------------------------------------------------
(* The chain.                                                              *)

CloseLedger ==
  /\ now' = IF now < MaxLedger THEN now + 1 ELSE now
  /\ entries' = {[root |-> e.root, age |-> e.age + 1] :
                   e \in {f \in entries : f.age < root_expiry_ledgers}}
  /\ UNCHANGED <<revoked, latest, txs, data, tick, history>>

\* revoke_attestation of the attestation engine.
Revoke(uid) ==
  /\ uid \notin revoked
  /\ revoked' = revoked \cup {uid}
  /\ UNCHANGED <<now, latest, entries, txs, data, tick, history>>

\* update_merkle_root, when the transaction is included.  It takes the sequence
\* number from every other one under way.
update_merkle_root(tx) ==
  /\ tx \in txs
  /\ txs' = {}
  /\ latest' = tx.root
  /\ entries' = {e \in entries : e.root # tx.root} \cup {[root |-> tx.root, age |-> 0]}
  /\ sent' = CASE pc # "wait" -> sent
               [] tx.mine     -> "landed"
               [] OTHER       -> "beaten"
  /\ UNCHANGED <<now, revoked, data, pc, work, history>>

\* The roots verify_reputation accepts a proof for: any entry that is not too
\* old, whether or not it is the latest.
Usable == {e.root : e \in entries}

\* get_latest_root fails on an expired root; currentRoot is then null, which
\* differs from every root.
currentRootIs(root) == latest \in Usable /\ latest = root

\* The attestation as isValidLeaf and the request check it.
IsValid(c, atLedger) ==
  c.uid \notin revoked /\ (Expires[c.uid] = 0 \/ Expires[c.uid] > atLedger)

-----------------------------------------------------------------------------
(* POST /v1/reputation/leaves.                                             *)

\* The checks, writeInbox and the answer.  The checks may be out of date when
\* the file is written; the tick makes them again.  A file of the same name is
\* replaced only within one millisecond.
Submit(c) ==
  /\ submissions < MaxSubmissions
  /\ IsValid(c, now)
  /\ Cardinality(inbox) < MaxInbox
  /\ inbox' = inbox \cup {[at |-> submissions, c |-> c]}
  /\ acked' = acked \cup {c}
  /\ submissions' = submissions + 1
  /\ UNCHANGED <<chain, leaves, roots, tick, blinded, failures>>

-----------------------------------------------------------------------------
(* runPublisherTick.                                                       *)

\* The transactions of a tick that is gone.
Orphans == {[root |-> tx.root, mine |-> FALSE] : tx \in txs}

TickEnds ==
  /\ pc' = "idle" /\ ledger' = 0
  /\ box' = {} /\ looked' = 0 /\ todo' = {}
  /\ active' = << >> /\ eligible' = << >> /\ sent' = "no"

\* load and readInbox, up to the answer of currentLedger.
StartTick ==
  /\ pc = "idle"
  /\ pc' = "check" /\ ledger' = now
  /\ box' = inbox /\ todo' = inbox
  /\ UNCHANGED <<chain, data, looked, active, eligible, sent, history>>

\* The answer for commitment c.  A simulation error reads as null.
isValidLeaf(c, valid) ==
  \/ valid = IsValid(c, ledger) /\ UNCHANGED blinded
  \/ ~ valid /\ Cardinality(blinded) < MaxBlind /\ blinded' = blinded \cup {c}

\* The next leaf is looked up.
CheckLeaf ==
  /\ pc = "check" /\ looked < Len(leaves)
  /\ looked' = looked + 1
  /\ \E valid \in BOOLEAN :
       /\ isValidLeaf(leaves[looked + 1], valid)
       /\ active' = IF valid THEN Append(active, leaves[looked + 1]) ELSE active
  /\ UNCHANGED <<chain, data, pc, ledger, box, todo, eligible, sent,
                 acked, submissions, failures>>

\* Then the next file, in the order of the names.
CheckFile ==
  /\ pc = "check" /\ looked = Len(leaves)
  /\ \E file \in todo, valid \in BOOLEAN :
       /\ \A other \in todo : file.at <= other.at
       /\ todo' = todo \ {file}
       /\ isValidLeaf(file.c, valid)
       /\ eligible' = IF valid THEN Append(eligible, file.c) ELSE eligible
  /\ UNCHANGED <<chain, data, pc, ledger, box, looked, active, sent,
                 acked, submissions, failures>>

\* Mutant: a leaf that is in the tree stays there.
priorLeaves_All == leaves

\* The leaves that stay.
priorLeaves == active

\* Neither a resubmission nor an identity collision.
fits(tree, c) == \A i \in DOMAIN tree : tree[i].id # c.id /\ tree[i].leaf # c.leaf

\* Mutant: new leaves come first.
mergeLeaf_Front(c, leavesSoFar) ==
  IF fits(leavesSoFar, c) THEN <<c>> \o leavesSoFar ELSE leavesSoFar

\* A new leaf is appended.
mergeLeaf(c, leavesSoFar) ==
  IF fits(leavesSoFar, c) THEN Append(leavesSoFar, c) ELSE leavesSoFar

\* New leaves are appended in submission order.
mergeLeaves(existing, incoming) ==
  MapThenFoldSet(mergeLeaf, existing, LAMBDA i : incoming[i], Max, DOMAIN incoming)

\* The tree of this tick.
tree == mergeLeaves(priorLeaves, eligible)
prunedLeaves == Len(priorLeaves) < Len(leaves)

\* Mutant: the manifest is written once the root is on chain.
Publish_Late ==
  /\ pc = "check" /\ looked = Len(leaves) /\ todo = {}
  /\ IF tree = << >> /\ ~ prunedLeaves
     THEN pc' = "save" /\ UNCHANGED <<roots, sent, txs>>
     ELSE IF currentRootIs(tree)
     THEN pc' = "save" /\ roots' = roots \cup {tree} /\ UNCHANGED <<sent, txs>>
     ELSE /\ pc' = "wait"
          /\ sent' = "yes" /\ txs' = txs \cup {[root |-> tree, mine |-> TRUE]}
          /\ UNCHANGED roots
  /\ UNCHANGED <<now, revoked, latest, entries, leaves, inbox, work, history>>

\* Mutant: publishes only when leaves were added.
Publish_OnChange ==
  /\ pc = "check" /\ looked = Len(leaves) /\ todo = {}
  /\ IF tree = leaves
     THEN pc' = "save" /\ UNCHANGED <<roots, sent, txs>>
     ELSE /\ pc' = "wait"
          /\ sent' = "yes" /\ txs' = txs \cup {[root |-> tree, mine |-> TRUE]}
          /\ roots' = roots \cup {tree}
  /\ UNCHANGED <<now, revoked, latest, entries, leaves, inbox, work, history>>

\* minLeaves is 1.  The manifest goes first, then postRoot up to
\* sendTransaction.
Publish ==
  /\ pc = "check" /\ looked = Len(leaves) /\ todo = {}
  /\ IF (tree = << >> /\ ~ prunedLeaves) \/ currentRootIs(tree)
     THEN pc' = "save" /\ UNCHANGED <<roots, sent, txs>>
     ELSE /\ pc' = "wait"
          /\ sent' = "yes" /\ txs' = txs \cup {[root |-> tree, mine |-> TRUE]}
          /\ roots' = roots \cup {tree}
  /\ UNCHANGED <<now, revoked, latest, entries, leaves, inbox, work, history>>

\* postRoot sees SUCCESS, or that another transaction used its number.
Confirmed ==
  /\ pc = "wait" /\ sent = "landed"
  /\ pc' = "save"
  /\ UNCHANGED <<chain, data, work, sent, history>>

NotConfirmed ==
  /\ pc = "wait" /\ sent = "beaten"
  /\ TickEnds
  /\ UNCHANGED <<chain, data, history>>

save ==
  /\ pc = "save"
  /\ leaves' = tree
  /\ pc' = "archive"
  /\ UNCHANGED <<chain, inbox, roots, work, sent, history>>

\* Mutant: archives every file that is there.
archiveInbox_All ==
  /\ pc = "archive"
  /\ inbox' = {}
  /\ TickEnds
  /\ UNCHANGED <<chain, leaves, roots, history>>

\* Every file with the id of a commitment the tick read.
archiveInbox ==
  /\ pc = "archive"
  /\ LET ids == {file.c.id : file \in box}
     IN  inbox' = {file \in inbox : file.c.id \notin ids}
  /\ TickEnds
  /\ UNCHANGED <<chain, leaves, roots, history>>

\* A request of the tick throws, or its transaction is dropped.
TickFails ==
  /\ pc \in {"check", "wait"} /\ failures < MaxFailures
  /\ failures' = failures + 1
  /\ txs' \in {Orphans, {tx \in txs : ~ tx.mine}}
  /\ TickEnds
  /\ UNCHANGED <<now, revoked, latest, entries, data, acked, blinded, submissions>>

\* The process dies and is started again.
Crash ==
  /\ failures < MaxFailures
  /\ pc # "idle"
  /\ failures' = failures + 1
  /\ txs' = Orphans
  /\ TickEnds
  /\ UNCHANGED <<now, revoked, latest, entries, data, acked, blinded, submissions>>

-----------------------------------------------------------------------------

Init ==
  /\ now = 1 /\ revoked = {} /\ latest = << >> /\ entries = {} /\ txs = {}
  /\ leaves = << >> /\ inbox = {} /\ roots = {}
  /\ pc = "idle" /\ ledger = 0
  /\ box = {} /\ looked = 0 /\ todo = {}
  /\ active = << >> /\ eligible = << >> /\ sent = "no"
  /\ acked = {} /\ blinded = {} /\ submissions = 0 /\ failures = 0

TickStep ==
  \/ StartTick \/ CheckLeaf \/ CheckFile \/ Publish \/ Confirmed \/ NotConfirmed
  \/ save \/ archiveInbox

Next ==
  \/ CloseLedger
  \/ \E uid \in Uids : Revoke(uid)
  \/ \E tx \in txs : update_merkle_root(tx)
  \/ \E c \in Commitments : Submit(c)
  \/ TickStep \/ TickFails \/ Crash

Spec == Init /\ [][Next]_vars

\* runPublisherLoop ticks for ever, the network includes what it was sent, and
\* ledgers close.
Fairness ==
  /\ WF_vars(TickStep)
  /\ WF_vars(\E tx \in txs : update_merkle_root(tx))
  /\ WF_vars(CloseLedger)

FairSpec == Spec /\ Fairness

-----------------------------------------------------------------------------
(* Properties.                                                             *)

\* A leaf is in the tree once, and an id names one leaf, through resubmission,
\* pruning and crashes between save and archive: a proof is made for the first
\* leaf that is found.
LeavesAreDistinct ==
  \A i, j \in DOMAIN leaves :
    i # j => leaves[i].id # leaves[j].id /\ leaves[i].leaf # leaves[j].leaf

\* Every root a proof can be verified against is one whose leaves are on disk,
\* whenever the process dies and whenever the transaction lands.
UsableRootHasManifest == Usable \subseteq roots

\* Leaves never change places among themselves, new ones go to the end, and none
\* is there twice: what is before a leaf was before it already, so an inclusion
\* path only moves when a leaf before it is pruned.  A leaf whose attestation once
\* read as null is pruned, and goes to the end when it is submitted again.
\* (engine.ts mergeLeaves, "existing leaves keep their positions")
LeavesKeepOrder ==
  [][/\ \A i, j \in DOMAIN leaves' :
          i < j /\ leaves'[j] \in Range(leaves) \ blinded =>
            \E k, l \in DOMAIN leaves :
              k < l /\ leaves[k] = leaves'[i] /\ leaves[l] = leaves'[j]
     /\ LeavesAreDistinct']_leaves

\* A proof for the leaf of c passes verify_reputation.
Verifiable(c) == \E root \in Usable : \E i \in DOMAIN root : root[i].leaf = c.leaf

\* A commitment that was acknowledged becomes verifiable, unless its attestation
\* ends, reads as null, or another commitment has its id or leaf; requests,
\* failing ticks, crashes and expiring roots notwithstanding.
AckedIsVerifiable ==
  \A c \in Commitments :
    c \in acked ~>
      \/ Verifiable(c) \/ ~ IsValid(c, now) \/ c \in blinded
      \/ \E e \in acked \ {c} : e.id = c.id \/ e.leaf = c.leaf

\* Once its attestation is revoked or has expired, a leaf stops being verifiable
\* and stays so: ticks that looked earlier, transactions that land late and old
\* roots that have not expired give way in the end.
EndedStopsVerifying ==
  \A c \in Commitments : ~ IsValid(c, now) ~> []~ Verifiable(c)

\* While there are leaves the verifier has a latest root that is not expired,
\* again and again: an expired root reads as null and is posted anew.
RootIsRenewed == []<>(leaves = << >> \/ latest \in Usable)
==============================================================================
