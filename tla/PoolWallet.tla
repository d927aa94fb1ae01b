------------------------------ MODULE PoolWallet ------------------------------
(***************************************************************************)
(* The privacy pool in the browser: the deposit dialog with its backup     *)
(* gate, the sweep of a stealth account into the pool, the withdrawal by   *)
(* the connected wallet or through the relayer market, and the note store  *)
(* with its optional encryption (frontend/src: PoolView.tsx, poolSweep.ts, *)
(* depositBackupGate.ts, poolNoteStore.ts, encryptedStorage.ts).           *)
(*                                                                         *)
(* Handlers interleave at their awaits.  A transaction that was sent may   *)
(* be included after the browser stopped waiting for it: polling ends      *)
(* after 60 seconds, the transaction is valid for 180.  A note's secrets   *)
(* are a number, fresh at newNoteSecrets; the commitment at leaf i binds   *)
(* the secrets and i.  The pool and the registry are their effects on the  *)
(* wallet's own notes and jobs.                                            *)
(***************************************************************************)
EXTENDS Integers, Sequences, FiniteSets

CONSTANTS
  Accounts,      \* wallet accounts the user switches between
  Handlers,      \* concurrent clicks on "Confirm & Sign Deposit"
  Plans,         \* what a user of these behaviours does, see Plan
  MaxSecrets,    \* bound: notes that are generated
  MaxTxs,        \* bound: transactions that are sent
  MaxLeaves,     \* bound: leaves of the pool
  MaxReloads     \* bound: page reloads

\* The number of chunks a sweep has (PoolSweepPlan.chunkCount, 0: no sweep),
\* and whether the user withdraws and turns on storage encryption.
Plan == [chunks : Nat, withdrawals : BOOLEAN, encryption : BOOLEAN]

ASSUME WalletAssumption ==
  /\ Accounts # {} /\ Plans # {} /\ \A p \in Plans : p \in Plan
  /\ MaxSecrets \in Nat /\ MaxTxs \in Nat
  /\ MaxLeaves \in Nat /\ MaxReloads \in Nat

VARIABLES
  \* the chain
  leaves,      \* whose secrets the commitment of each leaf holds; 0: not ours
  spent,       \* secrets whose nullifier is spent
  txs,         \* the transactions that were sent
  jobs,        \* status of the job that transaction i created
  due,         \* jobs past their deadline
  delivered,   \* jobs whose payload a relayer has
  \* the browser's storage
  disk,        \* localStorage: the notes, and whether they are encrypted
  writes,      \* setItem calls that still encrypt
  session,     \* sessionStorage: the backup gate
  encryption,  \* "off", "unlocked" or "locked" (enabled without passphrase)
  \* the page
  notes, account, busy, selected, draft, stalled, exec, flow, sweep,
  \* the user
  backedUp,    \* secrets the user proved to have written down
  abandoned,   \* secrets of deposits the user canceled
  secrets,     \* how many secrets were generated
  reloads,
  plan

chain == <<leaves, spent, txs, jobs, due, delivered>>
store == <<disk, writes, encryption, notes>>
page == <<account, busy, selected, draft, stalled, exec, flow, sweep>>
user == <<backedUp, abandoned, secrets, reloads, plan>>
vars == <<chain, store, session, page, user>>

TxIds == 1 .. MaxTxs
None == 0
NoSession == [sec |-> None, verified |-> FALSE]
Idle == [pc |-> "idle", sec |-> None, leaf |-> 0, tx |-> None]
NoSweep == [pc |-> "idle", sec |-> None, leaf |-> 0, tx |-> None, left |-> 0,
            attempt |-> 0]
NoFlow == [pc |-> "idle", kind |-> "none", leaf |-> 0, sec |-> None, tx |-> None,
           job |-> None]

-----------------------------------------------------------------------------
(* The chain.                                                              *)

\* sendTransaction returns once the transaction is queued.
sendTransaction(op, sec, leaf, job) ==
  /\ Len(txs) < MaxTxs
  /\ txs' = Append(txs, [op |-> op, sec |-> sec, leaf |-> leaf, job |-> job,
                         st |-> "sent"])

\* What the contracts demand of a transaction.
Valid(tx) ==
  CASE tx.op \in {"deposit", "sweep"} -> tx.leaf = Len(leaves)
    [] tx.op = "withdraw" -> tx.sec \notin spent
    [] tx.op = "create"   -> TRUE
    [] tx.op = "cancel"   -> jobs[tx.job] = "open" /\ tx.job \in due
    [] tx.op = "slash"    -> jobs[tx.job] = "accepted" /\ tx.job \in due

\* A transaction is included.  One that fails, or runs out of its 180 seconds,
\* has no effect and is never seen to succeed: it stays "sent".
Include(i) ==
  LET tx == txs[i] IN
  /\ tx.st = "sent" /\ Valid(tx)
  /\ txs' = [txs EXCEPT ![i].st = "ok"]
  /\ leaves' = CASE tx.op \in {"deposit", "sweep"} -> Append(leaves, tx.sec)
                 [] tx.op = "withdraw" -> Append(leaves, 0)
                 [] OTHER -> leaves
  /\ Len(leaves') <= MaxLeaves
  /\ spent' = IF tx.op = "withdraw" THEN spent \cup {tx.sec} ELSE spent
  /\ jobs' = CASE tx.op = "create" -> [jobs EXCEPT ![i] = "open"]
               [] tx.op = "cancel" -> [jobs EXCEPT ![tx.job] = "canceled"]
               [] tx.op = "slash"  -> [jobs EXCEPT ![tx.job] = "slashed"]
               [] OTHER -> jobs
  /\ UNCHANGED <<due, delivered, store, session, page, user>>

OtherDeposit ==
  /\ Len(leaves) < MaxLeaves
  /\ leaves' = Append(leaves, 0)
  /\ UNCHANGED <<spent, txs, jobs, due, delivered, store, session, page, user>>

\* The relayer that has the payload of job j accepts it, then withdraws.
Relayer(j) ==
  /\ j \in delivered \ due
  /\ \/ /\ jobs[j] = "open"
        /\ jobs' = [jobs EXCEPT ![j] = "accepted"]
        /\ UNCHANGED <<leaves, spent>>
     \/ /\ jobs[j] = "accepted"
        /\ txs[j].sec \notin spent /\ Len(leaves) < MaxLeaves
        /\ jobs' = [jobs EXCEPT ![j] = "submitted"]
        /\ spent' = spent \cup {txs[j].sec}
        /\ leaves' = Append(leaves, 0)
  /\ UNCHANGED <<txs, due, delivered, store, session, page, user>>

Deadline(j) ==
  /\ jobs[j] \in {"open", "accepted"} /\ j \notin due
  /\ due' = due \cup {j}
  /\ UNCHANGED <<leaves, spent, txs, jobs, delivered, store, session, page, user>>

-----------------------------------------------------------------------------
(* The note store.                                                         *)

\* Every set() of the persisted store is followed by setItem: at once when
\* there is no passphrase, after the encryption otherwise.
setItem(state) ==
  /\ notes' = state
  /\ IF encryption = "unlocked"
     THEN writes' = writes \cup {state} /\ UNCHANGED disk
     ELSE disk' = [enc |-> FALSE, notes |-> state] /\ UNCHANGED writes
  /\ UNCHANGED encryption

FinishWrite(state) ==
  /\ state \in writes
  /\ writes' = writes \ {state}
  /\ disk' = [enc |-> TRUE, notes |-> state]
  /\ UNCHANGED <<chain, encryption, notes, session, page, user>>

\* getItem at start-up, when no passphrase has been entered yet.
getItem == IF disk.enc THEN {} ELSE disk.notes

addNote(leaf, sec) ==
  LET same == {n \in notes : n.leaf = leaf /\ n.account = account}
  IN  setItem((notes \ same)
                \cup {[leaf |-> leaf, sec |-> sec, account |-> account, spent |-> FALSE]})

\* Only notes of the active account are marked.
markSpent(leaf) ==
  setItem({IF n.leaf = leaf /\ n.account = account
           THEN [n EXCEPT !.spent = TRUE] ELSE n : n \in notes})

\* handleEnable, handleUnlock and handleDisable of the settings page.
EncryptionSettings ==
  /\ plan.encryption
  /\ encryption' \in CASE encryption = "off" -> {"unlocked"}
                       [] encryption = "locked" -> {"unlocked", "off"}
                       [] OTHER -> {"off"}
  /\ UNCHANGED <<chain, disk, writes, notes, session, page, user>>

\* useAccountScope.  Handlers keep the public key they started with.
SwitchAccount(a) ==
  /\ account # a
  /\ account' = a
  /\ setItem(notes)
  /\ UNCHANGED <<chain, session, busy, selected, draft, stalled, exec, flow, sweep, user>>

\* The page is loaded anew: the store hydrates, then useAccountScope sets the
\* active account, which writes the store back.
Reload ==
  /\ reloads < MaxReloads
  /\ reloads' = reloads + 1
  /\ notes' = getItem
  /\ disk' = [enc |-> FALSE, notes |-> getItem]
  /\ writes' = {}
  /\ encryption' = IF encryption = "off" THEN "off" ELSE "locked"
  /\ busy' = "no" /\ selected' = {} /\ draft' = None /\ stalled' = FALSE
  /\ exec' = [h \in Handlers |-> Idle] /\ flow' = NoFlow
  /\ sweep' = NoSweep
  /\ UNCHANGED <<chain, session, account, backedUp, abandoned, secrets, plan>>

-----------------------------------------------------------------------------
(* The deposit dialog.                                                     *)

\* The dialog hides the page while there is a session.
handleDeposit ==
  /\ session = NoSession /\ busy = "no" /\ secrets < MaxSecrets
  /\ secrets' = secrets + 1
  /\ session' = [sec |-> secrets', verified |-> FALSE]
  /\ UNCHANGED <<chain, store, page, backedUp, abandoned, reloads, plan>>

verifyDepositFragment ==
  /\ session # NoSession /\ busy # "deposit"
  /\ session' = [session EXCEPT !.verified = TRUE]
  /\ backedUp' = backedUp \cup {session.sec}
  /\ UNCHANGED <<chain, store, page, abandoned, secrets, reloads, plan>>

\* Escape and the close button work while the transaction is being signed.
CancelDeposit ==
  /\ session # NoSession
  /\ session' = NoSession
  /\ abandoned' = abandoned \cup {session.sec}
  /\ UNCHANGED <<chain, store, page, backedUp, secrets, reloads, plan>>

\* Mutant: the dialog's own check is the only one.
executeDepositAfterBackup_Unchecked(h) ==
  /\ session # NoSession
  /\ exec[h].pc = "idle" /\ busy # "deposit"
  /\ exec' = [exec EXCEPT ![h] = [Idle EXCEPT !.pc = "fetch", !.sec = session.sec]]
  /\ UNCHANGED <<chain, store, session, account, busy, selected, draft, stalled,
                 flow, sweep, user>>

executeDepositAfterBackup(h) ==
  /\ session.verified
  /\ exec[h].pc = "idle" /\ busy # "deposit"
  /\ exec' = [exec EXCEPT ![h] = [Idle EXCEPT !.pc = "fetch", !.sec = session.sec]]
  /\ UNCHANGED <<chain, store, session, account, busy, selected, draft, stalled,
                 flow, sweep, user>>

\* fetchNextLeafIndex has answered: the commitment is derived for that leaf.
deriveDeposit(h) ==
  /\ exec[h].pc = "fetch"
  /\ exec' = [exec EXCEPT ![h].pc = "sign", ![h].leaf = Len(leaves)]
  /\ busy' = "deposit"
  /\ UNCHANGED <<chain, store, session, account, selected, draft, stalled, flow,
                 sweep, user>>

\* The simulation passed and the user signed.
invokePoolDeposit(h) ==
  /\ exec[h].pc = "sign" /\ exec[h].leaf = Len(leaves)
  /\ sendTransaction("deposit", exec[h].sec, exec[h].leaf, None)
  /\ exec' = [exec EXCEPT ![h].pc = "wait", ![h].tx = Len(txs')]
  /\ UNCHANGED <<leaves, spent, jobs, due, delivered, store, session, account,
                 busy, selected, draft, stalled, flow, sweep, user>>

\* Mutant: the note is kept as soon as the transaction is queued.
confirmDeposit_Queued(h) ==
  /\ exec[h].pc = "wait"
  /\ txs' = IF txs[exec[h].tx].st = "ok"
            THEN [txs EXCEPT ![exec[h].tx].st = "seen"] ELSE txs
  /\ addNote(exec[h].leaf, exec[h].sec)
  /\ session' = NoSession
  /\ exec' = [exec EXCEPT ![h] = Idle] /\ busy' = "no"
  /\ UNCHANGED <<leaves, spent, jobs, due, delivered, account, selected, draft,
                 stalled, flow, sweep, user>>

confirmDeposit(h) ==
  /\ exec[h].pc = "wait" /\ txs[exec[h].tx].st = "ok"
  /\ txs' = [txs EXCEPT ![exec[h].tx].st = "seen"]
  /\ addNote(exec[h].leaf, exec[h].sec)
  /\ session' = NoSession
  /\ exec' = [exec EXCEPT ![h] = Idle] /\ busy' = "no"
  /\ UNCHANGED <<leaves, spent, jobs, due, delivered, account, selected, draft,
                 stalled, flow, sweep, user>>

\* Mutant: a failed deposit closes the dialog.
failDeposit_Clears(h) ==
  /\ exec[h].pc # "idle"
  /\ exec' = [exec EXCEPT ![h] = Idle]
  /\ busy' = IF exec[h].pc = "fetch" THEN busy ELSE "no"
  /\ session' = NoSession
  /\ UNCHANGED <<chain, store, account, selected, draft, stalled, flow, sweep, user>>

\* The index was taken, the user declined, the request failed, or polling
\* gave up: the session stays.
failDeposit(h) ==
  /\ exec[h].pc # "idle"
  /\ exec' = [exec EXCEPT ![h] = Idle]
  /\ busy' = IF exec[h].pc = "fetch" THEN busy ELSE "no"
  /\ UNCHANGED <<chain, store, session, account, selected, draft, stalled, flow,
                 sweep, user>>

-----------------------------------------------------------------------------
(* The sweep of a stealth account.                                         *)

sweepStealthIntoPool ==
  /\ sweep.pc = "idle" /\ plan.chunks > 0
  /\ sweep' = [NoSweep EXCEPT !.pc = "fetch", !.left = plan.chunks]
  /\ UNCHANGED <<chain, store, session, account, busy, selected, draft, stalled,
                 exec, flow, user>>

\* One attempt for one chunk: read the next leaf, send, and after an index
\* mismatch try again with new secrets.
depositChunk ==
  /\ \/ /\ sweep.pc = "fetch" /\ secrets < MaxSecrets
        /\ secrets' = secrets + 1
        /\ sweep' = [sweep EXCEPT !.pc = "send", !.sec = secrets', !.leaf = Len(leaves)]
        /\ UNCHANGED <<txs, backedUp, abandoned, reloads, plan>>
     \/ /\ sweep.pc = "send" /\ sweep.leaf = Len(leaves)
        /\ sendTransaction("sweep", sweep.sec, sweep.leaf, None)
        /\ sweep' = [sweep EXCEPT !.pc = "wait", !.tx = Len(txs')]
        /\ UNCHANGED user
     \/ /\ sweep.pc = "send" /\ sweep.leaf # Len(leaves) /\ sweep.attempt < 2
        /\ sweep' = [sweep EXCEPT !.pc = "fetch", !.attempt = @ + 1]
        /\ UNCHANGED <<txs, user>>
  /\ UNCHANGED <<leaves, spent, jobs, due, delivered, store, session, account,
                 busy, selected, draft, stalled, exec, flow>>

NextChunk ==
  sweep' = IF sweep.left > 1
           THEN [NoSweep EXCEPT !.pc = "fetch", !.left = sweep.left - 1]
           ELSE NoSweep

\* Mutant: the note is added after the last chunk.
chunkConfirmed_Batch ==
  /\ sweep.pc = "wait" /\ txs[sweep.tx].st = "ok"
  /\ txs' = [txs EXCEPT ![sweep.tx].st = "seen"]
  /\ IF sweep.left = 1 THEN addNote(sweep.leaf, sweep.sec) ELSE UNCHANGED store
  /\ NextChunk
  /\ UNCHANGED <<leaves, spent, jobs, due, delivered, session, account, busy,
                 selected, draft, stalled, exec, flow, user>>

chunkConfirmed ==
  /\ sweep.pc = "wait" /\ txs[sweep.tx].st = "ok"
  /\ txs' = [txs EXCEPT ![sweep.tx].st = "seen"]
  /\ addNote(sweep.leaf, sweep.sec)
  /\ NextChunk
  /\ UNCHANGED <<leaves, spent, jobs, due, delivered, session, account, busy,
                 selected, draft, stalled, exec, flow, user>>

\* The error leaves sweepStealthIntoPool.
sweepFails ==
  /\ sweep.pc # "idle"
  /\ sweep' = NoSweep
  /\ UNCHANGED <<chain, store, session, account, busy, selected, draft, stalled,
                 exec, flow, user>>

-----------------------------------------------------------------------------
(* The withdrawal.                                                         *)

\* The list shows the unspent notes of every account.
unspent == {n \in notes : ~ n.spent}

\* Mutant: a pending relayer job outlives the selection it was made for.
ChangeInputs_KeepsDraft(leaf) ==
  /\ plan.withdrawals /\ busy = "no" /\ session = NoSession
  /\ leaf \in {n.leaf : n \in unspent}
  /\ selected' = {leaf}
  /\ UNCHANGED <<chain, store, session, account, busy, draft, stalled, exec, flow,
                 sweep, user>>

\* Another note is selected or the recipient is edited: the effect forgets
\* the relayer job.
ChangeInputs(leaf) ==
  /\ plan.withdrawals /\ busy = "no" /\ session = NoSession
  /\ leaf \in {n.leaf : n \in unspent}
  /\ selected' = {leaf}
  /\ draft' = None /\ stalled' = FALSE
  /\ UNCHANGED <<chain, store, session, account, busy, exec, flow, sweep, user>>

\* handleWalletWithdraw, startRelayerWithdraw, resubmitViaAlternateRelayer and
\* assignRelayer up to their first await.
Begin(kind, pc) ==
  /\ busy = "no" /\ session = NoSession /\ flow = NoFlow
  /\ \E n \in unspent :
       /\ n.leaf \in selected
       /\ flow' = [NoFlow EXCEPT !.pc = pc, !.kind = kind, !.leaf = n.leaf,
                                 !.sec = n.sec, !.job = draft]
  /\ busy' = "flow"

handleWalletWithdraw ==
  /\ Begin("withdraw", "prove")
  /\ UNCHANGED <<chain, store, session, account, selected, draft, stalled, exec,
                 sweep, user>>

startRelayerWithdraw ==
  /\ Begin("create", "prove")
  /\ draft' = None
  /\ UNCHANGED <<chain, store, session, account, selected, stalled, exec, sweep, user>>

resubmitViaAlternateRelayer ==
  /\ draft # None /\ stalled
  /\ Begin("resubmit", "prove")
  /\ stalled' = FALSE
  /\ UNCHANGED <<chain, store, session, account, selected, draft, exec, sweep, user>>

assignRelayer ==
  /\ draft # None
  /\ Begin("assign", "poll")
  /\ delivered' = delivered \cup {draft}
  /\ stalled' = FALSE
  /\ UNCHANGED <<leaves, spent, txs, jobs, due, store, session, account, selected,
                 draft, exec, sweep, user>>

\* recoverRelayerJob needs no note.
recoverRelayerJob(kind) ==
  /\ busy = "no" /\ session = NoSession /\ flow = NoFlow /\ draft # None
  /\ flow' = [NoFlow EXCEPT !.pc = "prove", !.kind = kind, !.job = draft]
  /\ busy' = "flow"
  /\ UNCHANGED <<chain, store, session, account, selected, draft, stalled, exec,
                 sweep, user>>

\* The proof exists (generateWithdrawProof found the note's commitment at its
\* leaf) and the transaction passed its simulation and was sent.
Submit ==
  LET op == IF flow.kind = "resubmit" THEN "create" ELSE flow.kind
      tx == [op |-> op, sec |-> flow.sec, leaf |-> flow.leaf, job |-> flow.job, st |-> "sent"]
  IN  /\ flow.pc = "prove" /\ Valid(tx)
      /\ op \in {"withdraw", "create"} => leaves[flow.leaf + 1] = flow.sec
      /\ sendTransaction(op, flow.sec, flow.leaf, flow.job)
      /\ flow' = [flow EXCEPT !.pc = "wait", !.tx = Len(txs')]
      /\ UNCHANGED <<leaves, spent, jobs, due, delivered, store, session, account,
                     busy, selected, draft, stalled, exec, sweep, user>>

\* The note is marked, and unselecting it clears the relayer job.
FinishWithdraw ==
  /\ markSpent(flow.leaf)
  /\ selected' = {} /\ draft' = None /\ stalled' = FALSE
  /\ flow' = NoFlow /\ busy' = "no"
  /\ UNCHANGED <<chain, session, account, exec, sweep, user>>

withdrawConfirmed ==
  /\ flow.pc = "wait" /\ flow.kind = "withdraw" /\ txs[flow.tx].st = "ok"
  /\ FinishWithdraw

\* setRelayerDraft; a resubmission goes on to deliver the payload.
jobCreated ==
  /\ flow.pc = "wait" /\ flow.kind \in {"create", "resubmit"} /\ txs[flow.tx].st = "ok"
  /\ draft' = flow.tx
  /\ IF flow.kind = "create"
     THEN flow' = NoFlow /\ busy' = "no" /\ UNCHANGED delivered
     ELSE /\ flow' = [flow EXCEPT !.pc = "poll", !.job = flow.tx] /\ UNCHANGED busy
          /\ delivered' = delivered \cup {flow.tx}
  /\ UNCHANGED <<leaves, spent, txs, jobs, due, store, session, account, selected,
                 stalled, exec, sweep, user>>

jobRecovered ==
  /\ flow.pc = "wait" /\ flow.kind \in {"cancel", "slash"} /\ txs[flow.tx].st = "ok"
  /\ draft' = None
  /\ flow' = NoFlow /\ busy' = "no"
  /\ UNCHANGED <<chain, store, session, account, selected, stalled, exec, sweep, user>>

\* deliverAndWaitForSubmission sees the job submitted.
finishRelayer ==
  /\ flow.pc = "poll" /\ jobs[flow.job] = "submitted"
  /\ FinishWithdraw

\* STALL_THRESHOLD_MS passed.
stall ==
  /\ flow.pc = "poll"
  /\ stalled' = TRUE
  /\ flow' = NoFlow /\ busy' = "no"
  /\ UNCHANGED <<chain, store, session, account, selected, draft, exec, sweep, user>>

\* Any await of the flow throws.
flowFails ==
  /\ flow # NoFlow
  /\ flow' = NoFlow /\ busy' = "no"
  /\ UNCHANGED <<chain, store, session, account, selected, draft, stalled, exec,
                 sweep, user>>

-----------------------------------------------------------------------------

Init ==
  /\ leaves = << >> /\ spent = {} /\ txs = << >>
  /\ jobs = [i \in TxIds |-> "none"] /\ due = {} /\ delivered = {}
  /\ disk = [enc |-> FALSE, notes |-> {}] /\ writes = {}
  /\ session = NoSession /\ encryption = "off"
  /\ notes = {} /\ account \in Accounts /\ busy = "no" /\ selected = {}
  /\ draft = None /\ stalled = FALSE
  /\ exec = [h \in Handlers |-> Idle] /\ flow = NoFlow /\ sweep = NoSweep
  /\ backedUp = {} /\ abandoned = {} /\ secrets = 0 /\ reloads = 0 /\ plan \in Plans

Next ==
  \/ \E i \in DOMAIN txs : Include(i)
  \/ OtherDeposit
  \/ \E j \in TxIds : Relayer(j) \/ Deadline(j)
  \/ \E state \in writes : FinishWrite(state)
  \/ EncryptionSettings \/ Reload
  \/ \E a \in Accounts : SwitchAccount(a)
  \/ handleDeposit \/ verifyDepositFragment \/ CancelDeposit
  \/ \E h \in Handlers :
       \/ executeDepositAfterBackup(h) \/ deriveDeposit(h) \/ invokePoolDeposit(h)
       \/ confirmDeposit(h) \/ failDeposit(h)
  \/ sweepStealthIntoPool \/ depositChunk \/ chunkConfirmed \/ sweepFails
  \/ \E leaf \in 0 .. (MaxLeaves - 1) : ChangeInputs(leaf)
  \/ handleWalletWithdraw \/ startRelayerWithdraw \/ resubmitViaAlternateRelayer
  \/ assignRelayer \/ \E kind \in {"cancel", "slash"} : recoverRelayerJob(kind)
  \/ Submit \/ withdrawConfirmed \/ jobCreated \/ jobRecovered
  \/ finishRelayer \/ stall \/ flowFails

Spec == Init /\ [][Next]_vars

-----------------------------------------------------------------------------
(* Properties.                                                             *)

\* A note in the store is a note in the pool: its leaf holds its commitment,
\* although the leaf index is read before the transaction is signed and others
\* deposit meanwhile.
NotesAreReal ==
  \A n \in notes : n.leaf < Len(leaves) /\ leaves[n.leaf + 1] = n.sec

\* A note is only marked spent when the chain has spent it: the job that was
\* submitted is the job of the note that is marked, through stalls,
\* resubmissions, reloads and edits of the form.  (A deposit dialog closed in
\* mid-deposit unlocks the page while a withdrawal runs: excluded.  So is a
\* second click on "Confirm & Sign Deposit" before the page is busy.)
SpentIsSpent ==
  abandoned = {} => \A n \in notes : n.spent => n.sec \in spent

\* Every deposit of the dialog that reaches the pool has secrets the user
\* proved to have written down, over reloads, retries and late inclusion.
DepositsAreBackedUp ==
  \A i \in DOMAIN txs :
    txs[i].op = "deposit" /\ txs[i].st \in {"ok", "seen"} => txs[i].sec \in backedUp

\* Unless the user cancels or encrypts the storage, the secrets of a deposit
\* that reached the pool are in the note store or still in the dialog, even when
\* the page was told that the deposit failed.  One click at a time: of two
\* handlers that started before the page was busy, the one that ends last
\* clears the session of a later deposit.
DepositSecretKept ==
  abandoned = {} /\ ~ plan.encryption =>
    \A i \in DOMAIN txs :
      txs[i].op = "deposit" /\ txs[i].st \in {"ok", "seen"} =>
        txs[i].sec \in {session.sec} \cup {n.sec : n \in notes}

\* A deposit the page saw confirmed has its note in the store, across reloads
\* and account switches, unless the storage is encrypted: the first write after
\* a reload replaces notes nobody has decrypted.
ConfirmedIsKept ==
  ~ plan.encryption =>
    \A i \in DOMAIN txs : txs[i].st = "seen" =>
      \E n \in notes : n.leaf = txs[i].leaf /\ n.sec = txs[i].sec
=============================================================================
