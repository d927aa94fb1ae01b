--------------------------- MODULE PoolWalletProofs ---------------------------
(***************************************************************************)
(* What the wallet's note store promises, for every number of accounts,    *)
(* handlers, transactions, leaves and reloads.                             *)
(*                                                                         *)
(* The invariant follows the secrets of a deposit from the dialog to the   *)
(* store.  A handler that waits knows a transaction with the leaf and the  *)
(* secrets it will add (Waits); a deposit that was included is at that leaf*)
(* (Landed); every copy of the store, in memory, on disk or still being    *)
(* encrypted, holds such notes only (Stored); whoever holds secrets in the *)
(* dialog has proved to have written them down (Backed).                   *)
(***************************************************************************)
EXTENDS PoolWallet, TLAPS

USE ZenonT(20)

Kinds == {"none", "withdraw", "create", "resubmit", "assign", "cancel", "slash"}
Tx == [op : Kinds \cup {"deposit", "sweep"}, sec : Nat, leaf : Nat, job : Nat,
       st : {"sent", "ok", "seen"}]
Exec == [pc : {"idle", "fetch", "sign", "wait"}, sec : Nat, leaf : Nat, tx : Nat]
Sweep == [pc : {"idle", "fetch", "send", "wait"}, sec : Nat, leaf : Nat, tx : Nat,
          left : Nat, attempt : Nat]
Flow == [pc : {"idle", "prove", "wait", "poll"}, kind : Kinds, leaf : Nat, sec : Nat,
         tx : Nat, job : Nat]
Note == [leaf : Nat, sec : Nat, account : Accounts, spent : BOOLEAN]

\* Types of what the argument reads.
Shape ==
  /\ leaves \in Seq(Nat) /\ txs \in Seq(Tx)
  /\ exec \in [Handlers -> Exec] /\ sweep \in Sweep /\ flow \in Flow
  /\ session \in [sec : Nat, verified : BOOLEAN]
  /\ draft \in Nat /\ secrets \in Nat /\ account \in Accounts /\ plan \in Plan

\* Leaf l of the pool holds the commitment of the secrets s.
At(l, s) == l < Len(leaves) /\ leaves[l + 1] = s

Real(ns) == ns \subseteq Note /\ \A n \in ns : At(n.leaf, n.sec)

Stored == Real(notes) /\ Real(disk.notes) /\ \A ns \in writes : Real(ns)

Deposits == {"deposit", "sweep"}

Landed ==
  \A i \in DOMAIN txs :
    txs[i].op \in Deposits /\ txs[i].st \in {"ok", "seen"} => At(txs[i].leaf, txs[i].sec)

\* Transaction i is the deposit of the secrets s at leaf l.
IsDeposit(i, op, l, s) ==
  i \in DOMAIN txs /\ txs[i].op = op /\ txs[i].leaf = l /\ txs[i].sec = s

Waits ==
  /\ \A h \in Handlers : exec[h].pc = "wait" =>
       IsDeposit(exec[h].tx, "deposit", exec[h].leaf, exec[h].sec)
  /\ sweep.pc = "wait" => IsDeposit(sweep.tx, "sweep", sweep.leaf, sweep.sec)

Backed ==
  /\ session.verified => session.sec \in backedUp
  /\ \A h \in Handlers : exec[h].pc # "idle" => exec[h].sec \in backedUp
  /\ \A i \in DOMAIN txs : txs[i].op = "deposit" => txs[i].sec \in backedUp

\* Without encryption every write reaches the disk at once.
Plain ==
  ~ plan.encryption =>
    encryption = "off" /\ writes = {} /\ disk = [enc |-> FALSE, notes |-> notes]

Core == Stored /\ Landed /\ Waits /\ Backed /\ Plain /\ ConfirmedIsKept

WalletInv == Shape /\ Core

-----------------------------------------------------------------------------
(* Leaves, transactions and the store.                                     *)

\* A leaf keeps its commitment when the pool grows.
LEMMA LeavesGrow ==
  ASSUME leaves \in Seq(Nat), NEW x \in Nat, leaves' \in {leaves, Append(leaves, x)},
         NEW l \in Nat, NEW s, At(l, s)
  PROVE  At(l, s)'
<1>1. l + 1 \in 1 .. Len(leaves)
  BY SMTT(30) DEF At
<1>2. CASE leaves' = leaves
  BY <1>2 DEF At
<1>3. CASE leaves' = Append(leaves, x)
  BY <1>1, <1>3, SMTT(30) DEF At
<1>. QED BY <1>2, <1>3

\* A transaction of the log has its fields.
LEMMA TxTypes ==
  ASSUME Shape, NEW i \in DOMAIN txs
  PROVE  txs[i] \in Tx /\ txs[i].leaf \in Nat /\ txs[i].sec \in Nat
<1>1. txs[i] \in Tx
  BY SMTT(30) DEF Shape
<1>. QED BY <1>1 DEF Tx

\* The notes of every copy stay real when the pool grows.
LEMMA StoredGrows ==
  ASSUME leaves \in Seq(Nat), NEW x \in Nat, leaves' \in {leaves, Append(leaves, x)},
         Stored, UNCHANGED <<notes, disk, writes>>
  PROVE  Stored'
<1>1. ASSUME NEW ns, Real(ns) PROVE Real(ns)'
  <2>1. \A n \in ns : n.leaf \in Nat /\ At(n.leaf, n.sec)
    BY <1>1 DEF Real, Note
  <2>2. \A n \in ns : At(n.leaf, n.sec)'
    BY <2>1, LeavesGrow DEF At
  <2>. QED BY <1>1, <2>2 DEF Real
<1>. QED BY <1>1 DEF Stored

\* Included deposits stay where they are when the pool grows.
LEMMA LandedGrows ==
  ASSUME Shape, NEW x \in Nat, leaves' \in {leaves, Append(leaves, x)},
         Landed, UNCHANGED txs
  PROVE  Landed'
<1>1. \A i \in DOMAIN txs : txs[i].leaf \in Nat
  BY TxTypes
<1>. QED BY <1>1, LeavesGrow DEF Landed, Shape

\* set() of the note store keeps every copy real.
LEMMA SetItemStored ==
  ASSUME Stored, NEW ns, Real(ns), setItem(ns), UNCHANGED leaves
  PROVE  Stored'
<1>1. \A ms : Real(ms) => Real(ms)'
  BY DEF Real, At
<1>2. CASE encryption = "unlocked"
  BY <1>1, <1>2 DEF setItem, Stored
<1>3. CASE encryption # "unlocked"
  BY <1>1, <1>3, SMTT(30) DEF setItem, Stored
<1>. QED BY <1>2, <1>3

\* Without encryption, set() writes the disk at once.
LEMMA SetItemPlain ==
  ASSUME Plain, NEW ns, setItem(ns), UNCHANGED plan
  PROVE  Plain'
BY DEF Plain, setItem

\* addNote replaces a note of the same leaf, which has the same secrets.
LEMMA AddNote ==
  ASSUME Shape, Stored, NEW l \in Nat, NEW s \in Nat, At(l, s), addNote(l, s),
         UNCHANGED leaves
  PROVE  /\ Stored'
         /\ \E n \in notes' : n.leaf = l /\ n.sec = s
         /\ \A m \in notes : \E n \in notes' : n.leaf = m.leaf /\ n.sec = m.sec
<1>. DEFINE same == {n \in notes : n.leaf = l /\ n.account = account}
            new  == [leaf |-> l, sec |-> s, account |-> account, spent |-> FALSE]
            ns   == (notes \ same) \cup {new}
<1>1. new \in Note /\ new.leaf = l /\ new.sec = s
  BY DEF Shape, Note
<1>2. setItem(ns)
  BY DEF addNote
<1>3. Real(ns)
  BY <1>1 DEF Stored, Real
<1>4. Stored'
  BY <1>2, <1>3, SetItemStored
<1>5. notes' = ns
  BY <1>2 DEF setItem
<1>6. \A m \in same : m.leaf = l /\ m.sec = s
  BY DEF Stored, Real, At
<1>7. \A m \in notes : \E n \in ns : n.leaf = m.leaf /\ n.sec = m.sec
  BY <1>1, <1>6
<1>. HIDE DEF ns, new, same
<1>8. \E n \in ns : n.leaf = l /\ n.sec = s
  BY <1>1 DEF ns
<1>. QED BY <1>4, <1>5, <1>7, <1>8

\* markSpent only changes the flag of a note.
LEMMA MarkSpent ==
  ASSUME Shape, Stored, NEW l, markSpent(l), UNCHANGED leaves
  PROVE  /\ Stored'
         /\ \A m \in notes : \E n \in notes' : n.leaf = m.leaf /\ n.sec = m.sec
<1>. DEFINE mark(n) == IF n.leaf = l /\ n.account = account
                       THEN [n EXCEPT !.spent = TRUE] ELSE n
            ns == {mark(n) : n \in notes}
<1>1. \A n \in notes : mark(n) \in Note /\ mark(n).leaf = n.leaf /\ mark(n).sec = n.sec
  BY DEF Stored, Real, Note
<1>2. setItem(ns)
  BY DEF markSpent
<1>. HIDE DEF mark
<1>3. Real(ns)
  BY <1>1 DEF Stored, Real
<1>4. notes' = ns
  BY <1>2 DEF setItem
<1>. QED BY <1>1, <1>2, <1>3, <1>4, SetItemStored

\* What a new transaction, or the progress of one, leaves as it was.
LEMMA SendTransaction ==
  ASSUME Shape, Landed, NEW tx, tx.st = "sent", txs' = Append(txs, tx), UNCHANGED leaves
  PROVE  /\ Landed'
         /\ DOMAIN txs' = DOMAIN txs \cup {Len(txs')}
         /\ \A i \in DOMAIN txs : txs'[i] = txs[i]
         /\ txs'[Len(txs')] = tx
<1>1. /\ DOMAIN txs' = DOMAIN txs \cup {Len(txs')}
      /\ \A i \in DOMAIN txs : txs'[i] = txs[i]
      /\ txs'[Len(txs')] = tx
  BY SMTT(30) DEF Shape
<1>2. Landed'
  BY <1>1 DEF Landed, At
<1>. QED BY <1>1, <1>2

\* The progress of a transaction changes its status only.
LEMMA Progress ==
  ASSUME Shape, NEW i \in DOMAIN txs, NEW st \in {"ok", "seen"},
         txs' = [txs EXCEPT ![i].st = st]
  PROVE  /\ txs' \in Seq(Tx) /\ DOMAIN txs' = DOMAIN txs
         /\ \A k \in DOMAIN txs : /\ txs'[k].op = txs[k].op /\ txs'[k].leaf = txs[k].leaf
                                  /\ txs'[k].sec = txs[k].sec
         /\ \A k \in DOMAIN txs \ {i} : txs'[k].st = txs[k].st
         /\ txs'[i].st = st
<1>. DEFINE e == [txs[i] EXCEPT !.st = st]
<1>1. txs[i] \in Tx
  BY TxTypes
<1>2. e \in Tx /\ e.op = txs[i].op /\ e.leaf = txs[i].leaf /\ e.sec = txs[i].sec /\ e.st = st
  BY <1>1 DEF Tx
<1>3. txs \in Seq(Tx) /\ i \in 1 .. Len(txs) /\ DOMAIN txs = 1 .. Len(txs)
  BY SMTT(30) DEF Shape
<1>4. txs' = [txs EXCEPT ![i] = e]
  OBVIOUS
<1>. HIDE DEF e
<1>5. /\ txs' \in Seq(Tx) /\ Len(txs') = Len(txs)
      /\ \A k \in 1 .. Len(txs) : txs'[k] = IF k = i THEN e ELSE txs[k]
  BY <1>2, <1>3, <1>4, SMTT(30)
<1>. QED BY <1>2, <1>3, <1>5

-----------------------------------------------------------------------------
(* The types of the control state.                                         *)

\* The initial state is well typed.
LEMMA ShapeInit == Init => Shape
<1>. SUFFICES ASSUME Init PROVE Shape
  OBVIOUS
<1>1. Idle \in Exec /\ NoSweep \in Sweep /\ NoFlow \in Flow
  BY DEF Idle, Exec, NoSweep, Sweep, NoFlow, Flow, Kinds, None
<1>2. plan \in Plan
  BY WalletAssumption DEF Init
<1>. QED BY <1>1, <1>2, SMTT(30) DEF Init, Shape, NoSession, None

\* Steps of the chain.
LEMMA IncludeLeaves ==
  ASSUME Shape, NEW i \in DOMAIN txs, Include(i)
  PROVE  \E x \in Nat : leaves' \in {leaves, Append(leaves, x)}
<1>1. txs[i].sec \in Nat
  BY TxTypes
<1>2. leaves' \in {leaves, Append(leaves, txs[i].sec), Append(leaves, 0)}
  BY DEF Include
<1>. QED BY <1>1, <1>2

\* A new leaf or a transaction's progress keeps the types.
LEMMA ShapeChain ==
  ASSUME Shape, NEW x \in Nat, leaves' \in {leaves, Append(leaves, x)}, txs' \in Seq(Tx),
         UNCHANGED <<session, page, user>>
  PROVE  Shape'
<1>1. leaves \in Seq(Nat) /\ Append(leaves, x) \in Seq(Nat)
  BY SMTT(30) DEF Shape
<1>2. leaves' \in Seq(Nat)
  BY <1>1
<1>. QED BY <1>2 DEF Shape, page, user

\* The handler of "Confirm & Sign Deposit" keeps the types.
LEMMA ShapeDialog ==
  ASSUME Shape, Waits, NEW h \in Handlers,
         \/ executeDepositAfterBackup(h) \/ deriveDeposit(h) \/ invokePoolDeposit(h)
         \/ confirmDeposit(h) \/ failDeposit(h)
  PROVE  Shape'
<1>0. exec[h] \in Exec /\ Idle \in Exec /\ NoSession \in [sec : Nat, verified : BOOLEAN]
  BY DEF Shape, Idle, Exec, NoSession, None
<1>a. Len(leaves) \in Nat
  BY SMTT(30) DEF Shape
<1>1. CASE executeDepositAfterBackup(h)
  <2>1. [Idle EXCEPT !.pc = "fetch", !.sec = session.sec] \in Exec
    BY <1>0 DEF Exec, Shape
  <2>2. exec' \in [Handlers -> Exec]
    BY <1>1, <2>1 DEF executeDepositAfterBackup, Shape
  <2>. QED BY <1>1, <2>2 DEF executeDepositAfterBackup, Shape, chain, user
<1>2. CASE deriveDeposit(h)
  <2>1. [exec[h] EXCEPT !.pc = "sign", !.leaf = Len(leaves)] \in Exec
    BY <1>0, <1>a DEF Exec
  <2>2. exec' \in [Handlers -> Exec]
    BY <1>2, <2>1 DEF deriveDeposit, Shape
  <2>. QED BY <1>2, <2>2 DEF deriveDeposit, Shape, chain, user
<1>3. CASE invokePoolDeposit(h)
  <2>1. [op |-> "deposit", sec |-> exec[h].sec, leaf |-> exec[h].leaf, job |-> None,
         st |-> "sent"] \in Tx
    BY <1>0 DEF Exec, Tx, None
  <2>2. txs' \in Seq(Tx) /\ Len(txs') \in Nat
    BY <1>3, <2>1, SMTT(30) DEF invokePoolDeposit, sendTransaction, Shape
  <2>3. [exec[h] EXCEPT !.pc = "wait", !.tx = Len(txs')] \in Exec
    BY <1>0, <2>2 DEF Exec
  <2>4. exec' \in [Handlers -> Exec]
    BY <1>3, <2>3 DEF invokePoolDeposit, Shape
  <2>. QED BY <1>3, <2>2, <2>4 DEF invokePoolDeposit, Shape, user
<1>4. CASE confirmDeposit(h)
  <2>1. txs' \in Seq(Tx)
    BY <1>4, Progress DEF confirmDeposit, Waits, IsDeposit
  <2>2. exec' \in [Handlers -> Exec]
    BY <1>0, <1>4 DEF confirmDeposit, Shape
  <2>. QED BY <1>0, <1>4, <2>1, <2>2 DEF confirmDeposit, Shape, user
<1>5. CASE failDeposit(h)
  <2>1. exec' \in [Handlers -> Exec]
    BY <1>0, <1>5 DEF failDeposit, Shape
  <2>. QED BY <1>5, <2>1 DEF failDeposit, Shape, chain, user
<1>. QED BY <1>1, <1>2, <1>3, <1>4, <1>5

\* sweepStealthIntoPool keeps the types.
LEMMA ShapeSweep ==
  ASSUME Shape, Waits,
         sweepStealthIntoPool \/ depositChunk \/ chunkConfirmed \/ sweepFails
  PROVE  Shape'
<1>0. sweep \in Sweep /\ NoSweep \in Sweep /\ Len(leaves) \in Nat /\ plan.chunks \in Nat
  BY SMTT(30) DEF Shape, Sweep, NoSweep, None, Plan
<1>1. CASE sweepStealthIntoPool
  <2>1. sweep' \in Sweep
    BY <1>0, <1>1 DEF sweepStealthIntoPool, Sweep
  <2>. QED BY <1>1, <2>1 DEF sweepStealthIntoPool, Shape, chain, user
<1>2. CASE depositChunk
  <2>1. [op |-> "sweep", sec |-> sweep.sec, leaf |-> sweep.leaf, job |-> None,
         st |-> "sent"] \in Tx
    BY <1>0 DEF Sweep, Tx, None
  <2>2. /\ txs \in Seq(Tx) /\ secrets \in Nat
        /\ sweep.left \in Nat /\ sweep.attempt \in Nat /\ sweep.attempt + 1 \in Nat
    BY <1>0, SMTT(30) DEF Shape, Sweep
  <2>3. ASSUME txs' = txs, secrets' = secrets + 1,
               sweep' = [sweep EXCEPT !.pc = "send", !.sec = secrets', !.leaf = Len(leaves)]
        PROVE  txs' \in Seq(Tx) /\ secrets' \in Nat /\ sweep' \in Sweep
    <3>1. secrets' \in Nat
      BY <2>2, <2>3, SMTT(30)
    <3>2. sweep' \in Sweep
      BY <1>0, <2>3, <3>1 DEF Sweep
    <3>. QED BY <2>2, <2>3, <3>1, <3>2
  <2>4. ASSUME sendTransaction("sweep", sweep.sec, sweep.leaf, None),
               sweep' = [sweep EXCEPT !.pc = "wait", !.tx = Len(txs')], UNCHANGED user
        PROVE  txs' \in Seq(Tx) /\ secrets' \in Nat /\ sweep' \in Sweep
    <3>1. txs' \in Seq(Tx) /\ Len(txs') \in Nat
      BY <2>1, <2>2, <2>4, SMTT(30) DEF sendTransaction
    <3>2. sweep' \in Sweep
      BY <1>0, <2>4, <3>1 DEF Sweep
    <3>. QED BY <2>2, <2>4, <3>1, <3>2 DEF user
  <2>6. ASSUME sweep' = [sweep EXCEPT !.pc = "fetch", !.attempt = sweep.attempt + 1],
               UNCHANGED <<txs, user>>
        PROVE  txs' \in Seq(Tx) /\ secrets' \in Nat /\ sweep' \in Sweep
    BY <1>0, <2>2, <2>6 DEF Sweep, user
  <2>7. txs' \in Seq(Tx) /\ secrets' \in Nat /\ sweep' \in Sweep
    BY <1>2, <2>3, <2>4, <2>6 DEF depositChunk
  <2>5. UNCHANGED <<leaves, exec, flow, session, draft, account, plan>>
    BY <1>2 DEF depositChunk, user
  <2>. QED BY <2>5, <2>7 DEF Shape
<1>3. CASE chunkConfirmed
  <2>1. txs' \in Seq(Tx)
    BY <1>3, Progress DEF chunkConfirmed, Waits, IsDeposit
  <2>2. sweep.left \in Nat /\ (sweep.left > 1 => sweep.left - 1 \in Nat)
    BY <1>0, SMTT(30) DEF Sweep
  <2>3. sweep' \in Sweep
    BY <1>0, <1>3, <2>2 DEF chunkConfirmed, NextChunk, Sweep
  <2>. QED BY <1>3, <2>1, <2>3 DEF chunkConfirmed, Shape, user
<1>4. CASE sweepFails
  BY <1>0, <1>4 DEF sweepFails, Shape, chain, user
<1>. QED BY <1>1, <1>2, <1>3, <1>4

\* Steps of a withdrawal that send nothing and write no note.
Quiet ==
  \/ \E leaf \in 0 .. (MaxLeaves - 1) : ChangeInputs(leaf)
  \/ handleWalletWithdraw \/ startRelayerWithdraw \/ resubmitViaAlternateRelayer
  \/ assignRelayer \/ \E kind \in {"cancel", "slash"} : recoverRelayerJob(kind)
  \/ jobCreated \/ jobRecovered \/ stall \/ flowFails

\* A withdrawal begins with a note of the store.
LEMMA BeginFlow ==
  ASSUME Shape, Stored, NEW kind \in Kinds, NEW pc \in {"prove", "poll"}, Begin(kind, pc)
  PROVE  flow' \in Flow
<1>1. PICK n \in unspent : flow' = [NoFlow EXCEPT !.pc = pc, !.kind = kind, !.leaf = n.leaf,
                                                  !.sec = n.sec, !.job = draft]
  BY DEF Begin
<1>2. n \in Note /\ draft \in Nat
  BY DEF Shape, Stored, Real, unspent
<1>. QED BY <1>1, <1>2 DEF Note, NoFlow, Flow, None

\* Such steps leave the chain, the store and the deposits alone.
LEMMA QuietFrame ==
  ASSUME Quiet
  PROVE  UNCHANGED <<leaves, txs, store, session, account, exec, sweep, user>>
BY DEF Quiet, ChangeInputs, handleWalletWithdraw, startRelayerWithdraw,
       resubmitViaAlternateRelayer, assignRelayer, recoverRelayerJob, jobCreated,
       jobRecovered, stall, flowFails, chain

\* Such steps keep the types.
LEMMA ShapeQuiet ==
  ASSUME Shape, Stored, Quiet
  PROVE  Shape'
<1>0. NoFlow \in Flow /\ None \in Nat /\ flow \in Flow /\ draft \in Nat
  BY DEF NoFlow, Flow, Kinds, None, Shape
<1>1. flow' \in Flow
  <2>1. CASE \/ \E leaf \in 0 .. (MaxLeaves - 1) : ChangeInputs(leaf)
             \/ jobRecovered \/ stall \/ flowFails
    BY <1>0, <2>1 DEF ChangeInputs, jobRecovered, stall, flowFails
  <2>2. CASE handleWalletWithdraw \/ startRelayerWithdraw \/ resubmitViaAlternateRelayer
             \/ assignRelayer
    BY <2>2, BeginFlow DEF handleWalletWithdraw, startRelayerWithdraw,
       resubmitViaAlternateRelayer, assignRelayer, Kinds
  <2>3. CASE \E kind \in {"cancel", "slash"} : recoverRelayerJob(kind)
    BY <1>0, <2>3 DEF recoverRelayerJob, NoFlow, Flow, Kinds
  <2>4. CASE jobCreated
    BY <1>0, <2>4 DEF jobCreated, Flow
  <2>. QED BY <2>1, <2>2, <2>3, <2>4 DEF Quiet
<1>2. draft' \in Nat
  <2>1. flow.tx \in Nat
    BY <1>0 DEF Flow
  <2>. QED BY <1>0, <2>1 DEF Quiet, ChangeInputs, handleWalletWithdraw,
       startRelayerWithdraw, resubmitViaAlternateRelayer, assignRelayer,
       recoverRelayerJob, jobCreated, jobRecovered, stall, flowFails
<1>. QED BY <1>1, <1>2, QuietFrame DEF Shape, user

-----------------------------------------------------------------------------
(* Notes, transactions and secrets.                                        *)

\* Nothing is stored, sent or waited for at first.
LEMMA CoreInit == Init => Core
<1> SUFFICES ASSUME Init PROVE Core
  OBVIOUS
<1>1. Stored /\ Plain
  BY DEF Init, Stored, Real, Plain
<1>2. Landed /\ ConfirmedIsKept
  BY SMTT(30) DEF Init, Landed, ConfirmedIsKept
<1>3. Waits /\ Backed
  BY SMTT(30) DEF Init, Waits, Backed, Idle, NoSweep, NoSession
<1>. QED BY <1>1, <1>2, <1>3 DEF Core

\* The transactions of a handler that waits are still there.
LEMMA WaitsFrame ==
  ASSUME Waits, UNCHANGED <<exec, sweep>>, DOMAIN txs \subseteq DOMAIN txs',
         \A k \in DOMAIN txs : /\ txs'[k].op = txs[k].op /\ txs'[k].leaf = txs[k].leaf
                               /\ txs'[k].sec = txs[k].sec
  PROVE  Waits'
BY SMTT(30) DEF Waits, IsDeposit

\* An included transaction lands at the leaf it was made for.
LEMMA CoreInclude ==
  ASSUME Shape, Core, NEW i \in DOMAIN txs, Include(i)
  PROVE  Core'
<1>1. /\ DOMAIN txs' = DOMAIN txs
      /\ \A k \in DOMAIN txs : /\ txs'[k].op = txs[k].op /\ txs'[k].leaf = txs[k].leaf
                               /\ txs'[k].sec = txs[k].sec
      /\ \A k \in DOMAIN txs \ {i} : txs'[k].st = txs[k].st
      /\ txs'[i].st = "ok"
  BY Progress DEF Include
<1>2. UNCHANGED <<notes, disk, writes, encryption, session, exec, sweep, backedUp, plan>>
  BY DEF Include, store, page, user
<1>3. PICK x \in Nat : leaves' \in {leaves, Append(leaves, x)}
  BY IncludeLeaves
<1>4. Stored'
  BY <1>2, <1>3, StoredGrows DEF Core, Shape
<1>5. Landed'
  <2>1. ASSUME txs[i].op \in Deposits
        PROVE  txs[i].leaf < Len(leaves') /\ leaves'[txs[i].leaf + 1] = txs[i].sec
    <3>1. txs[i].leaf = Len(leaves) /\ leaves' = Append(leaves, txs[i].sec)
      BY <2>1 DEF Include, Valid, Deposits
    <3>2. leaves \in Seq(Nat) /\ txs[i].sec \in Nat
      BY TxTypes DEF Shape
    <3>. QED BY <3>1, <3>2, SMTT(30)
  <2>2. ASSUME NEW k \in DOMAIN txs, txs[k].op \in Deposits, txs[k].st \in {"ok", "seen"}
        PROVE  txs[k].leaf < Len(leaves') /\ leaves'[txs[k].leaf + 1] = txs[k].sec
    <3>1. txs[k].leaf \in Nat /\ At(txs[k].leaf, txs[k].sec)
      BY <2>2, TxTypes DEF Core, Landed
    <3>2. leaves \in Seq(Nat) /\ txs[k].leaf + 1 \in 1 .. Len(leaves)
      BY <3>1, SMTT(30) DEF Shape, At
    <3>. QED BY <1>3, <3>1, <3>2, SMTT(30) DEF At
  <2>. QED BY <1>1, <2>1, <2>2, SMTT(30) DEF Landed, At
<1>6. Waits'
  BY <1>1, <1>2, WaitsFrame DEF Core
<1>7. Backed'
  BY <1>1, <1>2 DEF Core, Backed
<1>8. Plain' /\ ConfirmedIsKept'
  BY <1>1, <1>2, SMTT(30) DEF Core, Plain, ConfirmedIsKept
<1>. QED BY <1>4, <1>5, <1>6, <1>7, <1>8 DEF Core

\* Other leaves of the pool.
LEMMA CoreLeaves ==
  ASSUME Shape, Core, NEW x \in Nat, leaves' \in {leaves, Append(leaves, x)},
         UNCHANGED <<txs, store, session, page, user>>
  PROVE  Core'
<1>1. Stored' /\ Landed'
  BY StoredGrows, LandedGrows DEF Core, Shape, store
<1>. QED BY <1>1 DEF Core, Waits, IsDeposit, Backed, Plain, ConfirmedIsKept, store, page, user

\* The store hydrates, is written back, or has its encryption changed.
LEMMA CoreStore ==
  ASSUME Shape, Core,
         \/ \E state \in writes : FinishWrite(state)
         \/ EncryptionSettings \/ \E a \in Accounts : SwitchAccount(a)
  PROVE  Core'
<1>1. UNCHANGED <<leaves, txs, session, exec, sweep, backedUp, plan, notes>>
  BY DEF FinishWrite, EncryptionSettings, SwitchAccount, setItem, chain, page, user
<1>2. Landed' /\ Waits' /\ Backed' /\ ConfirmedIsKept'
  BY <1>1 DEF Core, Landed, At, Waits, IsDeposit, Backed, ConfirmedIsKept
<1>3. CASE \E state \in writes : FinishWrite(state)
  <2>1. PICK state \in writes : disk'.notes = state /\ writes' = writes \ {state}
    BY <1>3, SMTT(30) DEF FinishWrite
  <2>2. \A ns : Real(ns) => Real(ns)'
    BY <1>1 DEF Real, At
  <2>3. Stored'
    BY <1>1, <2>1, <2>2 DEF Core, Stored
  <2>4. Plain'
    BY <1>1, <1>3 DEF Core, FinishWrite, Plain
  <2>. QED BY <1>2, <2>3, <2>4 DEF Core
<1>4. CASE EncryptionSettings
  BY <1>1, <1>2, <1>4 DEF Core, EncryptionSettings, Stored, Real, At, Plain
<1>5. CASE \E a \in Accounts : SwitchAccount(a)
  BY <1>1, <1>2, <1>5, SetItemStored, SetItemPlain DEF Core, SwitchAccount, Stored
<1>. QED BY <1>3, <1>4, <1>5

\* A reload keeps what is on disk, which is everything without encryption.
LEMMA InvReload ==
  ASSUME Shape, Core, Reload
  PROVE  Shape' /\ Core'
<1>1. /\ UNCHANGED <<leaves, txs, session, backedUp, plan, account, secrets>>
      /\ exec' = [h \in Handlers |-> Idle] /\ sweep' = NoSweep /\ flow' = NoFlow
      /\ draft' = None
  BY DEF Reload, chain
<1>2. Idle \in Exec /\ NoSweep \in Sweep /\ NoFlow \in Flow
  BY DEF Idle, Exec, NoSweep, Sweep, NoFlow, Flow, Kinds, None
<1>3. Shape'
  BY <1>1, <1>2 DEF Shape, None
<1>4. Stored'
  <2>1. Real(getItem)
    BY DEF Core, Stored, Real, getItem
  <2>2. notes' = getItem /\ disk' = [enc |-> FALSE, notes |-> getItem] /\ writes' = {}
    BY DEF Reload
  <2>. HIDE DEF getItem
  <2>. QED BY <1>1, <2>1, <2>2 DEF Stored, Real, At
<1>5. Landed' /\ Waits' /\ Backed'
  BY <1>1 DEF Core, Landed, At, Waits, Backed, Idle, NoSweep
<1>6. Plain'
  BY <1>1 DEF Core, Plain, Reload
<1>7. ~ plan.encryption => notes' = notes
  BY SMTT(30) DEF Core, Plain, Reload, getItem
<1>8. ConfirmedIsKept'
  BY <1>1, <1>7 DEF Core, ConfirmedIsKept
<1>. QED BY <1>3, <1>4, <1>5, <1>6, <1>8 DEF Core

\* The dialog opens, checks a fragment or is closed.
LEMMA InvGate ==
  ASSUME Shape, Core, handleDeposit \/ verifyDepositFragment \/ CancelDeposit
  PROVE  Shape' /\ Core'
<1>1. UNCHANGED <<leaves, txs, notes, disk, writes, encryption, account, exec, flow, sweep,
                  draft, plan>>
  BY DEF handleDeposit, verifyDepositFragment, CancelDeposit, chain, store, page
<1>2. /\ backedUp \subseteq backedUp' /\ secrets' \in Nat
      /\ session' \in [sec : Nat, verified : BOOLEAN]
      /\ session'.verified => session'.sec \in backedUp'
  <2>0. session.sec \in Nat /\ secrets \in Nat /\ session \in [sec : Nat, verified : BOOLEAN]
    BY DEF Shape
  <2>1. CASE handleDeposit
    <3>1. secrets' \in Nat /\ session' = [sec |-> secrets', verified |-> FALSE]
      BY <2>0, <2>1, SMTT(30) DEF handleDeposit
    <3>. QED BY <2>1, <3>1, SMTT(30) DEF handleDeposit
  <2>2. CASE verifyDepositFragment
    <3>1. session' = [sec |-> session.sec, verified |-> TRUE]
      BY <2>0, <2>2 DEF verifyDepositFragment
    <3>. QED BY <2>0, <2>2, <3>1 DEF verifyDepositFragment
  <2>3. CASE CancelDeposit
    BY <2>0, <2>3 DEF CancelDeposit, NoSession, None
  <2>. QED BY <2>1, <2>2, <2>3
<1>3. Shape'
  BY <1>1, <1>2 DEF Shape
<1>4. Backed'
  BY <1>1, <1>2 DEF Core, Backed
<1>. QED BY <1>1, <1>3, <1>4, SMTT(30)
     DEF Core, Stored, Real, Landed, At, Waits, IsDeposit, Plain, ConfirmedIsKept

\* Keeping every note's leaf and secrets keeps the confirmed deposits.
LEMMA KeptFrame ==
  ASSUME ConfirmedIsKept, UNCHANGED plan,
         \A m \in notes : \E n \in notes' : n.leaf = m.leaf /\ n.sec = m.sec,
         \A k \in DOMAIN txs' : txs'[k].st = "seen" =>
           \/ k \in DOMAIN txs /\ txs[k].st = "seen" /\ txs'[k].leaf = txs[k].leaf
                /\ txs'[k].sec = txs[k].sec
           \/ \E n \in notes' : n.leaf = txs'[k].leaf /\ n.sec = txs'[k].sec
  PROVE  ConfirmedIsKept'
BY SMTT(30) DEF ConfirmedIsKept

\* A handler that waits sees its deposit included and adds the note.
LEMMA CoreConfirm ==
  ASSUME Shape, Core, NEW i, NEW l \in Nat, NEW s \in Nat, NEW op \in Deposits,
         IsDeposit(i, op, l, s), txs[i].st = "ok",
         txs' = [txs EXCEPT ![i].st = "seen"], addNote(l, s), UNCHANGED <<leaves, plan>>
  PROVE  /\ Stored' /\ Landed' /\ Plain' /\ ConfirmedIsKept'
         /\ DOMAIN txs' = DOMAIN txs
         /\ \A k \in DOMAIN txs : /\ txs'[k].op = txs[k].op /\ txs'[k].leaf = txs[k].leaf
                                  /\ txs'[k].sec = txs[k].sec
<1>0. i \in DOMAIN txs /\ txs[i].op \in Deposits /\ txs[i].leaf = l /\ txs[i].sec = s
  BY DEF IsDeposit
<1>1. /\ DOMAIN txs' = DOMAIN txs
      /\ \A k \in DOMAIN txs : /\ txs'[k].op = txs[k].op /\ txs'[k].leaf = txs[k].leaf
                               /\ txs'[k].sec = txs[k].sec
      /\ \A k \in DOMAIN txs \ {i} : txs'[k].st = txs[k].st
  BY <1>0, Progress
<1>2. At(l, s)
  BY <1>0 DEF Core, Landed
<1>3. /\ Stored'
      /\ \E n \in notes' : n.leaf = l /\ n.sec = s
      /\ \A m \in notes : \E n \in notes' : n.leaf = m.leaf /\ n.sec = m.sec
  BY <1>2, AddNote DEF Core
<1>4. Plain'
  BY SetItemPlain DEF Core, addNote
<1>5. Landed'
  BY <1>0, <1>1, SMTT(30) DEF Core, Landed, At
<1>6. ConfirmedIsKept'
  BY <1>0, <1>1, <1>3, KeptFrame, SMTT(30) DEF Core
<1>. QED BY <1>1, <1>3, <1>4, <1>5, <1>6

\* A deposit of the dialog.
LEMMA CoreDialog ==
  ASSUME Shape, Core, NEW h \in Handlers,
         \/ executeDepositAfterBackup(h) \/ deriveDeposit(h) \/ invokePoolDeposit(h)
         \/ confirmDeposit(h) \/ failDeposit(h)
  PROVE  Core'
<1>0. exec[h] \in Exec /\ exec[h].leaf \in Nat /\ exec[h].sec \in Nat
  BY DEF Shape, Exec
<1>1. CASE executeDepositAfterBackup(h) \/ deriveDeposit(h) \/ failDeposit(h)
  <2>1. UNCHANGED <<leaves, txs, notes, disk, writes, encryption, session, sweep, backedUp, plan>>
    BY <1>1 DEF executeDepositAfterBackup, deriveDeposit, failDeposit, chain, store, user
  <2>2. /\ exec'[h].pc # "wait" /\ (exec'[h].pc # "idle" => exec'[h].sec \in backedUp)
        /\ \A g \in Handlers \ {h} : exec'[g] = exec[g]
    <3>1. CASE executeDepositAfterBackup(h)
      <4>1. exec'[h] = [Idle EXCEPT !.pc = "fetch", !.sec = session.sec]
            /\ \A g \in Handlers \ {h} : exec'[g] = exec[g]
        BY <3>1 DEF executeDepositAfterBackup, Shape
      <4>2. session.sec \in backedUp
        BY <3>1 DEF executeDepositAfterBackup, Core, Backed
      <4>. QED BY <4>1, <4>2 DEF Idle
    <3>2. CASE deriveDeposit(h)
      <4>1. exec'[h] = [exec[h] EXCEPT !.pc = "sign", !.leaf = Len(leaves)]
            /\ \A g \in Handlers \ {h} : exec'[g] = exec[g]
        BY <3>2 DEF deriveDeposit, Shape
      <4>2. exec[h].sec \in backedUp
        BY <3>2 DEF deriveDeposit, Core, Backed
      <4>. QED BY <1>0, <4>1, <4>2 DEF Exec
    <3>3. CASE failDeposit(h)
      BY <3>3 DEF failDeposit, Idle, Shape
    <3>. QED BY <1>1, <3>1, <3>2, <3>3
  <2>3. Waits'
    BY <2>1, <2>2, SMTT(30) DEF Core, Waits, IsDeposit
  <2>4. Backed'
    BY <2>1, <2>2 DEF Core, Backed
  <2>. QED BY <2>1, <2>3, <2>4 DEF Core, Stored, Real, Landed, At, Plain, ConfirmedIsKept
<1>2. CASE invokePoolDeposit(h)
  <2>1. UNCHANGED <<leaves, notes, disk, writes, encryption, session, sweep, backedUp, plan>>
    BY <1>2 DEF invokePoolDeposit, store, user
  <2>. DEFINE tx == [op |-> "deposit", sec |-> exec[h].sec, leaf |-> exec[h].leaf,
                     job |-> None, st |-> "sent"]
  <2>2. /\ Landed' /\ DOMAIN txs' = DOMAIN txs \cup {Len(txs')}
        /\ \A i \in DOMAIN txs : txs'[i] = txs[i]
        /\ txs'[Len(txs')] = tx
    <3>1. txs' = Append(txs, tx) /\ tx.st = "sent"
      BY <1>2 DEF invokePoolDeposit, sendTransaction
    <3>. HIDE DEF tx
    <3>2. Landed /\ leaves' = leaves
      BY <2>1 DEF Core
    <3>. QED BY <3>1, <3>2, SendTransaction
  <2>3. /\ exec'[h].pc = "wait" /\ exec'[h].tx = Len(txs') /\ exec'[h].sec = exec[h].sec
        /\ exec'[h].leaf = exec[h].leaf /\ exec[h].pc = "sign"
        /\ \A g \in Handlers \ {h} : exec'[g] = exec[g]
    BY <1>0, <1>2 DEF invokePoolDeposit, Shape, Exec
  <2>4. tx.op = "deposit" /\ tx.leaf = exec[h].leaf /\ tx.sec = exec[h].sec /\ tx.st = "sent"
    OBVIOUS
  <2>. HIDE DEF tx
  <2>5. Waits'
    <3>1. sweep'.pc = "wait" => IsDeposit(sweep.tx, "sweep", sweep.leaf, sweep.sec)'
      BY <2>1, <2>2 DEF Core, Waits, IsDeposit
    <3>2. ASSUME NEW g \in Handlers \ {h}, exec'[g].pc = "wait"
          PROVE  IsDeposit(exec[g].tx, "deposit", exec[g].leaf, exec[g].sec)'
      <4>1. exec'[g] = exec[g] /\ g \in Handlers
        BY <2>3, <3>2
      <4>2. IsDeposit(exec[g].tx, "deposit", exec[g].leaf, exec[g].sec)
        BY <3>2, <4>1 DEF Core, Waits
      <4>. QED BY <2>2, <4>1, <4>2 DEF IsDeposit
    <3>3. IsDeposit(exec[h].tx, "deposit", exec[h].leaf, exec[h].sec)'
      BY <2>2, <2>3, <2>4 DEF IsDeposit
    <3>. QED BY <2>1, <3>1, <3>2, <3>3 DEF Waits
  <2>6. exec[h].sec \in backedUp
    BY <2>3 DEF Core, Backed
  <2>7. Backed'
    BY <2>1, <2>2, <2>3, <2>4, <2>6 DEF Core, Backed
  <2>8. ConfirmedIsKept'
    BY <2>1, <2>2, <2>4 DEF Core, ConfirmedIsKept
  <2>. QED BY <2>1, <2>2, <2>5, <2>7, <2>8 DEF Core, Stored, Real, At, Plain
<1>3. CASE confirmDeposit(h)
  <2>1. UNCHANGED <<leaves, sweep, backedUp, plan>> /\ session' = NoSession
    BY <1>3 DEF confirmDeposit, user
  <2>2. IsDeposit(exec[h].tx, "deposit", exec[h].leaf, exec[h].sec)
    BY <1>3 DEF confirmDeposit, Core, Waits
  <2>3. /\ Stored' /\ Landed' /\ Plain' /\ ConfirmedIsKept'
        /\ DOMAIN txs' = DOMAIN txs
        /\ \A k \in DOMAIN txs : /\ txs'[k].op = txs[k].op /\ txs'[k].leaf = txs[k].leaf
                                 /\ txs'[k].sec = txs[k].sec
    BY <1>0, <1>3, <2>1, <2>2, CoreConfirm DEF confirmDeposit, Deposits
  <2>4. exec'[h].pc = "idle" /\ \A g \in Handlers \ {h} : exec'[g] = exec[g]
    BY <1>3 DEF confirmDeposit, Idle, Shape
  <2>5. Waits'
    <3>1. ASSUME NEW g \in Handlers, exec'[g].pc = "wait"
          PROVE  IsDeposit(exec[g].tx, "deposit", exec[g].leaf, exec[g].sec)'
      <4>1. g # h /\ exec'[g] = exec[g]
        BY <2>4, <3>1
      <4>2. IsDeposit(exec[g].tx, "deposit", exec[g].leaf, exec[g].sec)
        BY <3>1, <4>1 DEF Core, Waits
      <4>. QED BY <2>3, <4>1, <4>2 DEF IsDeposit
    <3>2. (sweep.pc = "wait" => IsDeposit(sweep.tx, "sweep", sweep.leaf, sweep.sec))'
      BY <2>1, <2>3 DEF Core, Waits, IsDeposit
    <3>. QED BY <3>1, <3>2 DEF Waits
  <2>6. Backed'
    BY <2>1, <2>3, <2>4 DEF Core, Backed, NoSession
  <2>. QED BY <2>3, <2>5, <2>6 DEF Core
<1>. QED BY <1>1, <1>2, <1>3

\* A chunk of a sweep.
LEMMA CoreSweep ==
  ASSUME Shape, Core, sweepStealthIntoPool \/ depositChunk \/ chunkConfirmed \/ sweepFails
  PROVE  Core'
<1>0. sweep \in Sweep /\ sweep.leaf \in Nat /\ sweep.sec \in Nat
  BY DEF Shape, Sweep
<1>1. CASE UNCHANGED <<leaves, txs, store, session, exec, backedUp, plan>> /\ sweep'.pc # "wait"
  BY <1>1 DEF Core, Stored, Real, Landed, At, Waits, IsDeposit, Backed, Plain,
     ConfirmedIsKept, store
<1>2. CASE /\ sendTransaction("sweep", sweep.sec, sweep.leaf, None)
           /\ sweep' = [sweep EXCEPT !.pc = "wait", !.tx = Len(txs')]
           /\ UNCHANGED <<leaves, store, session, exec, backedUp, plan>>
  <2>. DEFINE tx == [op |-> "sweep", sec |-> sweep.sec, leaf |-> sweep.leaf,
                     job |-> None, st |-> "sent"]
  <2>1. /\ Landed' /\ DOMAIN txs' = DOMAIN txs \cup {Len(txs')}
        /\ \A i \in DOMAIN txs : txs'[i] = txs[i]
        /\ txs'[Len(txs')] = tx
    <3>1. txs' = Append(txs, tx) /\ tx.st = "sent"
      BY <1>2 DEF sendTransaction
    <3>. HIDE DEF tx
    <3>2. Landed /\ leaves' = leaves
      BY <1>2 DEF Core
    <3>. QED BY <3>1, <3>2, SendTransaction
  <2>2. /\ tx.op = "sweep" /\ tx.leaf = sweep.leaf /\ tx.sec = sweep.sec /\ tx.st = "sent"
        /\ sweep'.tx = Len(txs') /\ sweep'.leaf = sweep.leaf /\ sweep'.sec = sweep.sec
    BY <1>0, <1>2 DEF Sweep
  <2>. HIDE DEF tx
  <2>3. Waits'
    <3>1. ASSUME NEW g \in Handlers, exec'[g].pc = "wait"
          PROVE  IsDeposit(exec[g].tx, "deposit", exec[g].leaf, exec[g].sec)'
      BY <1>2, <2>1, <3>1 DEF Core, Waits, IsDeposit
    <3>2. IsDeposit(sweep.tx, "sweep", sweep.leaf, sweep.sec)'
      BY <2>1, <2>2 DEF IsDeposit
    <3>. QED BY <3>1, <3>2 DEF Waits
  <2>4. Backed'
    BY <1>2, <2>1, <2>2 DEF Core, Backed
  <2>5. ConfirmedIsKept'
    BY <1>2, <2>1, <2>2 DEF Core, ConfirmedIsKept, store
  <2>. QED BY <1>2, <2>1, <2>3, <2>4, <2>5 DEF Core, Stored, Real, At, Plain, store
<1>3. CASE chunkConfirmed
  <2>1. UNCHANGED <<leaves, session, exec, backedUp, plan>> /\ sweep'.pc # "wait"
    BY <1>3 DEF chunkConfirmed, NextChunk, NoSweep, user
  <2>2. IsDeposit(sweep.tx, "sweep", sweep.leaf, sweep.sec)
    BY <1>3 DEF chunkConfirmed, Core, Waits
  <2>3. /\ Stored' /\ Landed' /\ Plain' /\ ConfirmedIsKept'
        /\ DOMAIN txs' = DOMAIN txs
        /\ \A k \in DOMAIN txs : /\ txs'[k].op = txs[k].op /\ txs'[k].leaf = txs[k].leaf
                                 /\ txs'[k].sec = txs[k].sec
    BY <1>0, <1>3, <2>1, <2>2, CoreConfirm DEF chunkConfirmed, Deposits
  <2>4. Waits'
    BY <2>1, <2>3, SMTT(30) DEF Core, Waits, IsDeposit
  <2>5. Backed'
    BY <2>1, <2>3 DEF Core, Backed
  <2>. QED BY <2>3, <2>4, <2>5 DEF Core
<1>4. CASE sweepStealthIntoPool \/ sweepFails
  <2>1. NoSweep.pc = "idle" /\ [NoSweep EXCEPT !.pc = "fetch", !.left = plan.chunks].pc = "fetch"
    BY DEF NoSweep
  <2>2. sweep'.pc # "wait"
    BY <1>4, <2>1 DEF sweepStealthIntoPool, sweepFails
  <2>. QED BY <1>1, <1>4, <2>2 DEF sweepStealthIntoPool, sweepFails, chain, user
<1>5. CASE depositChunk
  <2>1. UNCHANGED <<leaves, store, session, exec, backedUp, plan>>
    BY <1>5 DEF depositChunk, user
  <2>2. \/ txs' = txs /\ sweep'.pc # "wait"
        \/ /\ sendTransaction("sweep", sweep.sec, sweep.leaf, None)
           /\ sweep' = [sweep EXCEPT !.pc = "wait", !.tx = Len(txs')]
    BY <1>0, <1>5 DEF depositChunk, Sweep
  <2>. QED BY <1>1, <1>2, <2>1, <2>2
<1>. QED BY <1>3, <1>4, <1>5

\* A withdrawal or a job transaction is sent: it is no deposit.
LEMMA InvSubmit ==
  ASSUME Shape, Core, Submit
  PROVE  Shape' /\ Core'
<1>. DEFINE op == IF flow.kind = "resubmit" THEN "create" ELSE flow.kind
            tx == [op |-> op, sec |-> flow.sec, leaf |-> flow.leaf, job |-> flow.job,
                   st |-> "sent"]
<1>1. /\ txs' = Append(txs, tx) /\ flow' = [flow EXCEPT !.pc = "wait", !.tx = Len(txs')]
      /\ UNCHANGED <<leaves, notes, disk, writes, encryption, session, account, draft, exec,
                     sweep, backedUp, secrets, plan>>
  BY DEF Submit, sendTransaction, store, user
<1>2. flow \in Flow /\ txs \in Seq(Tx)
  BY DEF Shape
<1>3. tx \in Tx /\ tx.op \notin Deposits /\ tx.st = "sent"
  BY <1>2 DEF Flow, Tx, Kinds, Deposits
<1>. HIDE DEF tx
<1>4. txs' \in Seq(Tx) /\ Len(txs') \in Nat
  BY <1>1, <1>2, <1>3, SMTT(30)
<1>5. flow' \in Flow
  BY <1>1, <1>2, <1>4 DEF Flow
<1>6. Shape'
  BY <1>1, <1>4, <1>5 DEF Shape
<1>7. /\ Landed' /\ DOMAIN txs' = DOMAIN txs \cup {Len(txs')}
      /\ \A i \in DOMAIN txs : txs'[i] = txs[i]
      /\ txs'[Len(txs')] = tx
  BY <1>1, <1>3, SendTransaction DEF Core
<1>8. Waits'
  BY <1>1, <1>7, WaitsFrame DEF Core
<1>9. Backed' /\ ConfirmedIsKept'
  BY <1>1, <1>3, <1>7, SMTT(30) DEF Core, Backed, ConfirmedIsKept, Deposits
<1>. QED BY <1>1, <1>6, <1>7, <1>8, <1>9 DEF Core, Stored, Real, At, Plain

\* The note of a finished withdrawal is marked.
LEMMA InvFinish ==
  ASSUME Shape, Core, FinishWithdraw
  PROVE  Shape' /\ Core'
<1>1. /\ markSpent(flow.leaf) /\ flow' = NoFlow /\ draft' = None
      /\ UNCHANGED <<leaves, txs, session, account, exec, sweep, backedUp, secrets, plan>>
  BY DEF FinishWithdraw, chain, user
<1>2. Shape'
  BY <1>1 DEF Shape, NoFlow, Flow, Kinds, None
<1>3. /\ Stored'
      /\ \A m \in notes : \E n \in notes' : n.leaf = m.leaf /\ n.sec = m.sec
  BY <1>1, MarkSpent DEF Core
<1>4. Plain'
  BY <1>1, SetItemPlain DEF Core, markSpent
<1>5. ConfirmedIsKept'
  BY <1>1, <1>3, KeptFrame DEF Core
<1>6. Landed' /\ Waits' /\ Backed'
  BY <1>1 DEF Core, Landed, At, Waits, IsDeposit, Backed
<1>. QED BY <1>2, <1>3, <1>4, <1>5, <1>6 DEF Core

\* What is neither stored, sent nor waited for may change.
LEMMA CoreQuiet ==
  ASSUME Core, UNCHANGED <<leaves, txs, store, session, exec, sweep, user>>
  PROVE  Core'
BY DEF Core, Stored, Real, Landed, At, Waits, IsDeposit, Backed, Plain, ConfirmedIsKept,
       store, user

-----------------------------------------------------------------------------

\* The invariant holds at first.
LEMMA WalletInit == Init => WalletInv
BY ShapeInit, CoreInit DEF WalletInv

\* Every step of the page, the chain and the user keeps the invariant.
LEMMA WalletStep == WalletInv /\ [Next]_vars => WalletInv'
<1>. SUFFICES ASSUME Shape, Core, [Next]_vars PROVE Shape' /\ Core'
  BY DEF WalletInv
<1>. Stored /\ Waits
  BY DEF Core
<1>1. CASE \E i \in DOMAIN txs : Include(i)
  <2>1. PICK i \in DOMAIN txs : Include(i)
    BY <1>1
  <2>2. PICK x \in Nat : leaves' \in {leaves, Append(leaves, x)}
    BY <2>1, IncludeLeaves
  <2>3. txs' \in Seq(Tx)
    BY <2>1, Progress DEF Include
  <2>4. Shape'
    BY <2>1, <2>2, <2>3, ShapeChain DEF Include
  <2>. QED BY <2>1, <2>4, CoreInclude
<1>2. CASE OtherDeposit \/ \E j \in TxIds : Relayer(j)
  <2>1. leaves' \in {leaves, Append(leaves, 0)} /\ UNCHANGED <<txs, store, session, page, user>>
    BY <1>2 DEF OtherDeposit, Relayer
  <2>2. 0 \in Nat /\ txs' \in Seq(Tx)
    BY <2>1 DEF Shape
  <2>. QED BY <2>1, <2>2, ShapeChain, CoreLeaves
<1>3. CASE \E j \in TxIds : Deadline(j)
  <2>1. UNCHANGED <<leaves, txs, store, session, page, user>>
    BY <1>3 DEF Deadline
  <2>. QED BY <2>1, CoreQuiet DEF Shape, page, user
<1>4. CASE \/ \E state \in writes : FinishWrite(state)
           \/ EncryptionSettings \/ \E a \in Accounts : SwitchAccount(a)
  <2>1. Shape'
    BY <1>4 DEF FinishWrite, EncryptionSettings, SwitchAccount, Shape, chain, page, user
  <2>. QED BY <1>4, <2>1, CoreStore
<1>5. CASE Reload
  BY <1>5, InvReload
<1>6. CASE handleDeposit \/ verifyDepositFragment \/ CancelDeposit
  BY <1>6, InvGate
<1>7. CASE \E h \in Handlers :
             \/ executeDepositAfterBackup(h) \/ deriveDeposit(h) \/ invokePoolDeposit(h)
             \/ confirmDeposit(h) \/ failDeposit(h)
  BY <1>7, ShapeDialog, CoreDialog
<1>8. CASE sweepStealthIntoPool \/ depositChunk \/ chunkConfirmed \/ sweepFails
  BY <1>8, ShapeSweep, CoreSweep
<1>9. CASE Quiet
  BY <1>9, ShapeQuiet, QuietFrame, CoreQuiet
<1>10. CASE Submit
  BY <1>10, InvSubmit
<1>11. CASE withdrawConfirmed \/ finishRelayer
  BY <1>11, InvFinish DEF withdrawConfirmed, finishRelayer
<1>12. CASE UNCHANGED vars
  <2>1. UNCHANGED <<leaves, txs, store, session, page, user>>
    BY <1>12 DEF vars, chain
  <2>. QED BY <2>1, CoreQuiet DEF Shape, page, user
<1>. QED
  BY <1>1, <1>2, <1>3, <1>4, <1>5, <1>6, <1>7, <1>8, <1>9, <1>10, <1>11, <1>12
     DEF Next, Quiet

-----------------------------------------------------------------------------
(* One deposit dialog at a time: what the page holds of a deposit and of a *)
(* withdrawal belongs together.                                            *)

\* No second click on "Confirm & Sign Deposit" while the first one runs.
OneClick == \A g, h \in Handlers : g = h

\* A deposit runs for the session of the dialog, and not beside a withdrawal.
Alone ==
  /\ \A h \in Handlers :
       exec[h].pc # "idle" => session.verified /\ session.sec = exec[h].sec
  /\ flow # NoFlow => session = NoSession /\ busy = "flow"

\* The secrets s are in the dialog or in the store.
Held(s) == (session.verified /\ session.sec = s) \/ (\E n \in notes : n.sec = s)

Kept ==
  ~ plan.encryption => \A i \in DOMAIN txs : txs[i].op = "deposit" => Held(txs[i].sec)

\* No copy of the store marks a note the chain has not spent.
Marked(ns) == \A n \in ns : n.spent => n.sec \in spent

Copies == Marked(notes) /\ Marked(disk.notes) /\ \A ns \in writes : Marked(ns)

\* What the chain knows: who withdrew has spent the note.
JobStatus == {"none", "open", "accepted", "submitted", "canceled", "slashed"}

Settled ==
  /\ DOMAIN txs \subseteq TxIds /\ jobs \in [TxIds -> JobStatus]
  /\ \A j \in TxIds : jobs[j] # "none" => j \in DOMAIN txs
  /\ \A j \in TxIds : jobs[j] = "submitted" => txs[j].sec \in spent
  /\ \A i \in DOMAIN txs :
       txs[i].op = "withdraw" /\ txs[i].st # "sent" => txs[i].sec \in spent

\* The selected note, the pending relayer job and the running withdrawal have the
\* same secrets.
Spending == {"withdraw", "create", "resubmit", "assign"}
TxOp(kind) == IF kind = "resubmit" THEN "create" ELSE kind

Links ==
  /\ selected \subseteq Nat /\ \A l, m \in selected : l = m
  /\ draft # None =>
       draft \in DOMAIN txs /\ \A l \in selected : At(l, txs[draft].sec)
  /\ flow.pc # "idle" /\ flow.kind \in Spending =>
       flow.leaf \in selected /\ At(flow.leaf, flow.sec)
  /\ flow.pc = "wait" =>
       /\ flow.tx \in DOMAIN txs /\ txs[flow.tx].sec = flow.sec
       /\ txs[flow.tx].op = TxOp(flow.kind)
  /\ flow.pc = "poll" =>
       /\ flow.job \in DOMAIN txs /\ txs[flow.job].sec = flow.sec
       /\ flow.kind \in Spending

\* A deposit that was canceled may still run beside anything.
Together == Alone /\ Kept /\ Copies /\ Links

PageInv == Settled /\ (abandoned = {} => Together)

\* What every step leaves: transactions and leaves are only added, nullifiers stay
\* spent and a canceled deposit stays canceled.
Grows ==
  /\ DOMAIN txs \subseteq DOMAIN txs'
  /\ \A k \in DOMAIN txs : txs'[k].op = txs[k].op /\ txs'[k].sec = txs[k].sec
  /\ \A l \in Nat, s \in Nat : At(l, s) => At(l, s)'
  /\ spent \subseteq spent'
  /\ abandoned \subseteq abandoned' /\ plan' = plan

\* How the page changes the transactions: not at all, by a new one, or by seeing
\* one confirmed.
PageTxs ==
  \/ txs' = txs
  \/ \E tx \in Tx : tx.st = "sent" /\ Len(txs) < MaxTxs /\ txs' = Append(txs, tx)
  \/ \E i \in DOMAIN txs : txs[i].st = "ok" /\ txs' = [txs EXCEPT ![i].st = "seen"]

\* What the page does grows, and settles nothing on the chain.
LEMMA PageGrows ==
  ASSUME Shape, Settled, PageTxs, UNCHANGED <<leaves, spent, jobs, plan>>,
         abandoned \subseteq abandoned'
  PROVE  Grows /\ Settled'
<1>1. \A l \in Nat, s \in Nat : At(l, s) => At(l, s)'
  BY DEF At
<1>2. CASE txs' = txs
  BY <1>1, <1>2 DEF Grows, Settled
<1>3. CASE \E tx \in Tx : tx.st = "sent" /\ Len(txs) < MaxTxs /\ txs' = Append(txs, tx)
  <2>1. PICK tx \in Tx : tx.st = "sent" /\ Len(txs) < MaxTxs /\ txs' = Append(txs, tx)
    BY <1>3
  <2>2. /\ DOMAIN txs' = DOMAIN txs \cup {Len(txs')}
        /\ \A i \in DOMAIN txs : txs'[i] = txs[i]
        /\ txs'[Len(txs')] = tx /\ Len(txs') \in TxIds
    BY <2>1, WalletAssumption, SMTT(30) DEF Shape, TxIds
  <2>3. Grows
    BY <1>1, <2>2 DEF Grows
  <2>. QED BY <2>1, <2>2, <2>3 DEF Settled
<1>4. CASE \E i \in DOMAIN txs : txs[i].st = "ok" /\ txs' = [txs EXCEPT ![i].st = "seen"]
  <2>1. PICK i \in DOMAIN txs : txs[i].st = "ok" /\ txs' = [txs EXCEPT ![i].st = "seen"]
    BY <1>4
  <2>2. /\ DOMAIN txs' = DOMAIN txs
        /\ \A k \in DOMAIN txs : txs'[k].op = txs[k].op /\ txs'[k].sec = txs[k].sec
        /\ \A k \in DOMAIN txs \ {i} : txs'[k].st = txs[k].st
    BY <2>1, Progress
  <2>4. \A k \in DOMAIN txs : txs'[k].st # "sent" => txs[k].st # "sent"
    BY <2>1, <2>2
  <2>3. Grows
    BY <1>1, <2>2 DEF Grows
  <2>. QED BY <2>2, <2>3, <2>4 DEF Settled
<1>. QED BY <1>2, <1>3, <1>4 DEF PageTxs

\* Links that nobody touches stay.
LEMMA LinksStay ==
  ASSUME Shape, Links, Grows, UNCHANGED <<draft, selected, flow>>
  PROVE  Links'
<1>1. flow.leaf \in Nat /\ flow.sec \in Nat /\ \A k \in DOMAIN txs : txs[k].sec \in Nat
  BY TxTypes DEF Shape, Flow
<1>. QED BY <1>1 DEF Links, Grows

\* Copies that nobody writes stay.
LEMMA CopiesStay ==
  ASSUME Copies, Grows, UNCHANGED <<notes, disk, writes>>
  PROVE  Copies'
BY DEF Copies, Marked, Grows

\* A write of notes that are marked rightly.
LEMMA SetItemCopies ==
  ASSUME Copies, UNCHANGED spent, NEW ns, Marked(ns), setItem(ns)
  PROVE  Copies'
<1>1. CASE encryption = "unlocked"
  BY <1>1 DEF setItem, Copies, Marked
<1>2. CASE encryption # "unlocked"
  <2>1. disk'.notes = ns /\ notes' = ns /\ writes' = writes
    BY <1>2, SMTT(30) DEF setItem
  <2>. QED BY <2>1 DEF Copies, Marked
<1>. QED BY <1>1, <1>2

\* A page on which nothing starts or ends.
LEMMA AloneStays ==
  ASSUME Alone, UNCHANGED <<exec, session, flow, busy>>
  PROVE  Alone'
BY DEF Alone

\* Deposits stay held while the dialog and the notes' secrets stay.
LEMMA KeptStays ==
  ASSUME Kept, Grows, UNCHANGED session,
         ~ plan.encryption => \A m \in notes : \E n \in notes' : n.sec = m.sec,
         \A i \in DOMAIN txs' \ DOMAIN txs : txs'[i].op # "deposit"
  PROVE  Kept'
<1>. SUFFICES ASSUME ~ plan'.encryption, NEW i \in DOMAIN txs', txs'[i].op = "deposit"
              PROVE  Held(txs[i].sec)'
  BY DEF Kept
<1>1. i \in DOMAIN txs /\ txs[i].op = "deposit" /\ txs'[i].sec = txs[i].sec /\ ~ plan.encryption
  BY DEF Grows
<1>2. Held(txs[i].sec)
  BY <1>1 DEF Kept
<1>. QED BY <1>1, <1>2 DEF Held

-----------------------------------------------------------------------------
(* What has happened on the chain.                                         *)

\* An included withdrawal spends its nullifier; jobs open, or are settled.
LEMMA SettledInclude ==
  ASSUME Shape, Settled, NEW i \in DOMAIN txs, Include(i)
  PROVE  Grows /\ Settled'
<1>1. /\ DOMAIN txs' = DOMAIN txs
      /\ \A k \in DOMAIN txs : txs'[k].op = txs[k].op /\ txs'[k].sec = txs[k].sec
      /\ \A k \in DOMAIN txs \ {i} : txs'[k].st = txs[k].st
  BY Progress DEF Include
<1>2. PICK x \in Nat : leaves' \in {leaves, Append(leaves, x)}
  BY IncludeLeaves
<1>3. leaves \in Seq(Nat)
  BY DEF Shape
<1>4. \A l \in Nat, s \in Nat : At(l, s) => At(l, s)'
  BY <1>2, <1>3, LeavesGrow
<1>5. /\ spent \subseteq spent' /\ UNCHANGED <<abandoned, plan>>
      /\ txs[i].op = "withdraw" => txs[i].sec \in spent'
  BY DEF Include, user
<1>6. Grows
  BY <1>1, <1>4, <1>5 DEF Grows
<1>7. /\ jobs' \in [TxIds -> JobStatus]
      /\ \A j \in TxIds : \/ jobs'[j] = jobs[j]
                          \/ j = i /\ jobs'[j] = "open"
                          \/ jobs[j] # "none" /\ jobs'[j] \in {"canceled", "slashed"}
  <2>0. i \in TxIds /\ jobs \in [TxIds -> JobStatus]
    BY DEF Settled
  <2>1. CASE txs[i].op = "create"
    <3>1. jobs' = [jobs EXCEPT ![i] = "open"]
      BY <2>1 DEF Include
    <3>. QED BY <2>0, <3>1 DEF JobStatus
  <2>2. CASE txs[i].op = "cancel"
    <3>1. jobs' = [jobs EXCEPT ![txs[i].job] = "canceled"] /\ jobs[txs[i].job] = "open"
      BY <2>2 DEF Include, Valid
    <3>. QED BY <2>0, <3>1 DEF JobStatus
  <2>3. CASE txs[i].op = "slash"
    <3>1. jobs' = [jobs EXCEPT ![txs[i].job] = "slashed"] /\ jobs[txs[i].job] = "accepted"
      BY <2>3 DEF Include, Valid
    <3>. QED BY <2>0, <3>1 DEF JobStatus
  <2>4. CASE txs[i].op \notin {"create", "cancel", "slash"}
    <3>1. jobs' = jobs
      BY <2>4 DEF Include
    <3>. QED BY <2>0, <3>1
  <2>. QED BY <2>1, <2>2, <2>3, <2>4
<1>8. \A j \in TxIds : jobs'[j] # "none" => j \in DOMAIN txs'
  BY <1>1, <1>7 DEF Settled
<1>9. \A j \in TxIds : jobs'[j] = "submitted" => txs'[j].sec \in spent'
  BY <1>1, <1>5, <1>7 DEF Settled
<1>10. \A k \in DOMAIN txs' :
         txs'[k].op = "withdraw" /\ txs'[k].st # "sent" => txs'[k].sec \in spent'
  BY <1>1, <1>5 DEF Settled
<1>. QED BY <1>1, <1>6, <1>7, <1>8, <1>9, <1>10 DEF Settled

\* The relayer withdraws with the secrets of the job's transaction.
LEMMA SettledRelayer ==
  ASSUME Shape, Settled, NEW j \in TxIds, Relayer(j)
  PROVE  Grows /\ Settled'
<1>1. /\ leaves' \in {leaves, Append(leaves, 0)} /\ spent \subseteq spent'
      /\ UNCHANGED <<txs, abandoned, plan>>
  BY DEF Relayer, user
<1>2. leaves \in Seq(Nat) /\ 0 \in Nat
  BY DEF Shape
<1>3. \A l \in Nat, s \in Nat : At(l, s) => At(l, s)'
  BY <1>1, <1>2, LeavesGrow
<1>4. Grows
  BY <1>1, <1>3 DEF Grows
<1>5. /\ jobs' \in [TxIds -> JobStatus] /\ jobs[j] # "none"
      /\ \A k \in TxIds \ {j} : jobs'[k] = jobs[k]
      /\ jobs'[j] = "submitted" => txs[j].sec \in spent'
  BY DEF Relayer, Settled, JobStatus
<1>. QED BY <1>1, <1>4, <1>5 DEF Settled

\* What the page does to the transactions.
LEMMA PageSends ==
  ASSUME Shape, Waits, NEW h \in Handlers,
         \/ executeDepositAfterBackup(h) \/ deriveDeposit(h) \/ invokePoolDeposit(h)
         \/ confirmDeposit(h) \/ failDeposit(h)
  PROVE  PageTxs /\ UNCHANGED <<leaves, spent, jobs, plan, abandoned>>
<1>1. UNCHANGED <<leaves, spent, jobs, plan, abandoned>>
  BY DEF executeDepositAfterBackup, deriveDeposit, invokePoolDeposit, confirmDeposit,
     failDeposit, chain, user
<1>2. CASE executeDepositAfterBackup(h) \/ deriveDeposit(h) \/ failDeposit(h)
  BY <1>1, <1>2 DEF executeDepositAfterBackup, deriveDeposit, failDeposit, chain, PageTxs
<1>3. CASE invokePoolDeposit(h)
  <2>. DEFINE tx == [op |-> "deposit", sec |-> exec[h].sec, leaf |-> exec[h].leaf,
                     job |-> None, st |-> "sent"]
  <2>1. tx \in Tx /\ tx.st = "sent"
    BY DEF Shape, Exec, Tx, None
  <2>2. Len(txs) < MaxTxs /\ txs' = Append(txs, tx)
    BY <1>3 DEF invokePoolDeposit, sendTransaction
  <2>. HIDE DEF tx
  <2>. QED BY <1>1, <2>1, <2>2 DEF PageTxs
<1>4. CASE confirmDeposit(h)
  BY <1>1, <1>4 DEF confirmDeposit, Waits, IsDeposit, PageTxs
<1>. QED BY <1>2, <1>3, <1>4

\* A sweep sends its chunks and sees them confirmed.
LEMMA SweepSends ==
  ASSUME Shape, Waits, sweepStealthIntoPool \/ depositChunk \/ chunkConfirmed \/ sweepFails
  PROVE  PageTxs /\ UNCHANGED <<leaves, spent, jobs, plan, abandoned>>
<1>1. UNCHANGED <<leaves, spent, jobs, plan, abandoned>>
  BY DEF sweepStealthIntoPool, depositChunk, chunkConfirmed, sweepFails, chain, user
<1>2. CASE txs' = txs
  BY <1>1, <1>2 DEF PageTxs
<1>3. CASE sendTransaction("sweep", sweep.sec, sweep.leaf, None)
  <2>. DEFINE tx == [op |-> "sweep", sec |-> sweep.sec, leaf |-> sweep.leaf,
                     job |-> None, st |-> "sent"]
  <2>1. tx \in Tx /\ tx.st = "sent"
    BY DEF Shape, Sweep, Tx, None
  <2>2. Len(txs) < MaxTxs /\ txs' = Append(txs, tx)
    BY <1>3 DEF sendTransaction
  <2>. HIDE DEF tx
  <2>. QED BY <1>1, <2>1, <2>2 DEF PageTxs
<1>4. CASE chunkConfirmed
  BY <1>1, <1>4 DEF chunkConfirmed, Waits, IsDeposit, PageTxs
<1>. QED BY <1>2, <1>3, <1>4 DEF sweepStealthIntoPool, depositChunk, sweepFails, chain

\* A withdrawal sends one transaction.
LEMMA SubmitSends ==
  ASSUME Shape, Submit
  PROVE  PageTxs /\ UNCHANGED <<leaves, spent, jobs, plan, abandoned>>
<1>. DEFINE op == IF flow.kind = "resubmit" THEN "create" ELSE flow.kind
            tx == [op |-> op, sec |-> flow.sec, leaf |-> flow.leaf, job |-> flow.job,
                   st |-> "sent"]
<1>1. /\ txs' = Append(txs, tx) /\ Len(txs) < MaxTxs
      /\ UNCHANGED <<leaves, spent, jobs, plan, abandoned>>
  BY DEF Submit, sendTransaction, user
<1>2. flow \in Flow
  BY DEF Shape
<1>3. tx \in Tx /\ tx.st = "sent"
  BY <1>2 DEF Flow, Tx, Kinds
<1>. HIDE DEF tx
<1>. QED BY <1>1, <1>3 DEF PageTxs

\* Every step grows, and keeps what is settled on the chain.
LEMMA SettledStep ==
  ASSUME Shape, Waits, Settled, [Next]_vars
  PROVE  Grows /\ Settled'
<1>1. CASE \E i \in DOMAIN txs : Include(i)
  BY <1>1, SettledInclude
<1>2. CASE OtherDeposit
  <2>1. leaves' = Append(leaves, 0) /\ UNCHANGED <<spent, txs, jobs, abandoned, plan>>
    BY <1>2 DEF OtherDeposit, user
  <2>2. leaves \in Seq(Nat) /\ 0 \in Nat
    BY DEF Shape
  <2>3. \A l \in Nat, s \in Nat : At(l, s) => At(l, s)'
    BY <2>1, <2>2, LeavesGrow
  <2>. QED BY <2>1, <2>3 DEF Grows, Settled
<1>3. CASE \E j \in TxIds : Relayer(j)
  BY <1>3, SettledRelayer
<1>4. ASSUME UNCHANGED <<leaves, spent, jobs, plan, txs>>, abandoned \subseteq abandoned'
      PROVE  Grows /\ Settled'
  BY <1>4, PageGrows DEF PageTxs
<1>5. CASE \/ \E j \in TxIds : Deadline(j)
           \/ \E state \in writes : FinishWrite(state)
           \/ EncryptionSettings \/ \E a \in Accounts : SwitchAccount(a)
           \/ Reload \/ handleDeposit \/ verifyDepositFragment \/ CancelDeposit
  BY <1>4, <1>5 DEF Deadline, FinishWrite, EncryptionSettings, SwitchAccount, Reload,
     handleDeposit, verifyDepositFragment, CancelDeposit, chain, user
<1>6. CASE \E h \in Handlers :
             \/ executeDepositAfterBackup(h) \/ deriveDeposit(h) \/ invokePoolDeposit(h)
             \/ confirmDeposit(h) \/ failDeposit(h)
  BY <1>6, PageSends, PageGrows
<1>7. CASE sweepStealthIntoPool \/ depositChunk \/ chunkConfirmed \/ sweepFails
  BY <1>7, SweepSends, PageGrows
<1>8. CASE Quiet
  <2>1. spent' = spent /\ jobs' = jobs
    BY <1>8 DEF Quiet, ChangeInputs, handleWalletWithdraw, startRelayerWithdraw,
       resubmitViaAlternateRelayer, assignRelayer, recoverRelayerJob, jobCreated,
       jobRecovered, stall, flowFails, chain
  <2>. QED BY <1>4, <1>8, <2>1, QuietFrame DEF user
<1>9. CASE Submit
  BY <1>9, SubmitSends, PageGrows
<1>10. CASE withdrawConfirmed \/ finishRelayer \/ UNCHANGED vars
  BY <1>4, <1>10 DEF withdrawConfirmed, finishRelayer, FinishWithdraw, vars, chain, user
<1>. QED
  BY <1>1, <1>2, <1>3, <1>5, <1>6, <1>7, <1>8, <1>9, <1>10 DEF Next, Quiet

-----------------------------------------------------------------------------
(* What the page holds.                                                    *)

\* Steps that touch neither the page nor the store.
LEMMA TogetherFrame ==
  ASSUME Shape, Together, Grows, UNCHANGED <<exec, session, flow, busy, draft, selected>>,
         UNCHANGED <<notes, disk, writes>>,
         \A i \in DOMAIN txs' \ DOMAIN txs : txs'[i].op # "deposit"
  PROVE  Together'
<1>1. Kept'
  BY KeptStays DEF Together
<1>. QED BY <1>1, AloneStays, CopiesStay, LinksStay DEF Together

\* The notes of the store stay, only their copies move.
LEMMA TogetherStore ==
  ASSUME Shape, Together, Grows,
         \/ \E state \in writes : FinishWrite(state)
         \/ EncryptionSettings \/ \E a \in Accounts : SwitchAccount(a)
  PROVE  Together'
<1>1. UNCHANGED <<spent, txs, exec, session, flow, busy, draft, selected, notes>>
  BY DEF FinishWrite, EncryptionSettings, SwitchAccount, setItem, chain, page
<1>2. Alone' /\ Kept' /\ Links'
  BY <1>1, AloneStays, KeptStays, LinksStay DEF Together
<1>3. Copies'
  <2>1. CASE \E state \in writes : FinishWrite(state)
    <3>1. PICK state \in writes : disk'.notes = state /\ writes' = writes \ {state}
      BY <2>1, SMTT(30) DEF FinishWrite
    <3>. QED BY <1>1, <3>1 DEF Together, Copies, Marked
  <2>2. CASE EncryptionSettings
    BY <1>1, <2>2, CopiesStay DEF Together, EncryptionSettings
  <2>3. CASE \E a \in Accounts : SwitchAccount(a)
    BY <1>1, <2>3, SetItemCopies DEF Together, SwitchAccount, Copies
  <2>. QED BY <2>1, <2>2, <2>3
<1>. QED BY <1>2, <1>3 DEF Together

\* A reload keeps the session, and without encryption the notes.
LEMMA TogetherReload ==
  ASSUME Shape, Core, Together, Grows, Reload
  PROVE  Together'
<1>1. /\ UNCHANGED <<spent, txs, session>> /\ exec' = [h \in Handlers |-> Idle]
      /\ flow' = NoFlow /\ draft' = None /\ selected' = {}
      /\ notes' = getItem /\ disk' = [enc |-> FALSE, notes |-> getItem] /\ writes' = {}
  BY DEF Reload, chain
<1>2. ~ plan.encryption => notes' = notes
  BY <1>1, SMTT(30) DEF Core, Plain, getItem
<1>3. Kept'
  BY <1>1, <1>2, KeptStays DEF Together
<1>4. Alone' /\ Links'
  BY <1>1 DEF Alone, Links, Idle, NoFlow
<1>5. Marked(getItem)
  BY DEF Together, Copies, Marked, getItem
<1>. HIDE DEF getItem
<1>6. Copies'
  BY <1>1, <1>5 DEF Copies, Marked
<1>. QED BY <1>3, <1>4, <1>6 DEF Together

\* The dialog opens on a page where nothing runs, or checks a fragment.
LEMMA TogetherGate ==
  ASSUME Shape, Together, Grows, handleDeposit \/ verifyDepositFragment
  PROVE  Together'
<1>1. UNCHANGED <<spent, txs, exec, flow, busy, draft, selected, notes, disk, writes, plan>>
  BY DEF handleDeposit, verifyDepositFragment, chain, store, page
<1>2. Copies' /\ Links'
  BY <1>1, CopiesStay, LinksStay DEF Together
<1>3. CASE handleDeposit
  <2>1. session = NoSession /\ busy = "no" /\ ~ session.verified
    BY <1>3 DEF handleDeposit, NoSession
  <2>2. Alone'
    BY <1>1, <2>1 DEF Together, Alone
  <2>3. Kept'
    BY <1>1, <2>1 DEF Together, Kept, Held
  <2>. QED BY <1>2, <2>2, <2>3 DEF Together
<1>4. CASE verifyDepositFragment
  <2>1. session # NoSession /\ session' = [sec |-> session.sec, verified |-> TRUE]
    BY <1>4 DEF verifyDepositFragment, Shape
  <2>2. session'.verified /\ session'.sec = session.sec
    BY <2>1
  <2>3. Alone'
    BY <1>1, <2>1, <2>2 DEF Together, Alone
  <2>4. Kept'
    BY <1>1, <2>2 DEF Together, Kept, Held
  <2>. QED BY <1>2, <2>3, <2>4 DEF Together
<1>. QED BY <1>3, <1>4

\* A new note is not spent, and replaces a note with the same secrets.
LEMMA AddNoteCopies ==
  ASSUME Shape, Copies, UNCHANGED spent, NEW l, NEW s, addNote(l, s)
  PROVE  Copies'
<1>. DEFINE same == {n \in notes : n.leaf = l /\ n.account = account}
            new  == [leaf |-> l, sec |-> s, account |-> account, spent |-> FALSE]
            ns   == (notes \ same) \cup {new}
<1>1. ~ new.spent
  OBVIOUS
<1>2. setItem(ns)
  BY DEF addNote
<1>. HIDE DEF new
<1>3. Marked(ns)
  BY <1>1 DEF Copies, Marked
<1>. HIDE DEF ns
<1>. QED BY <1>2, <1>3, SetItemCopies

\* A deposit runs for the session of the dialog; its note replaces the session.
LEMMA TogetherDialog ==
  ASSUME OneClick, Shape, Core, Together, Grows, NEW h \in Handlers,
         \/ executeDepositAfterBackup(h) \/ deriveDeposit(h) \/ invokePoolDeposit(h)
         \/ confirmDeposit(h) \/ failDeposit(h)
  PROVE  Together'
<1>0. /\ UNCHANGED <<draft, selected, flow, spent, plan>>
      /\ exec[h] \in Exec /\ exec[h].sec \in Nat /\ exec[h].leaf \in Nat
      /\ \A g \in Handlers : g = h
  BY DEF executeDepositAfterBackup, deriveDeposit, invokePoolDeposit, confirmDeposit,
     failDeposit, chain, user, Shape, Exec, OneClick
<1>1. Links'
  BY <1>0, LinksStay DEF Together
<1>2. exec[h].pc # "idle" \/ session.verified
  BY DEF executeDepositAfterBackup, deriveDeposit, invokePoolDeposit, confirmDeposit,
     failDeposit
<1>3. session.verified /\ flow = NoFlow /\ (exec[h].pc # "idle" => session.sec = exec[h].sec)
  <2>1. ~ NoSession.verified
    BY DEF NoSession
  <2>2. session.verified
    BY <1>2 DEF Together, Alone
  <2>3. session # NoSession
    BY <2>1, <2>2
  <2>. QED BY <2>2, <2>3 DEF Together, Alone
<1>4. CASE executeDepositAfterBackup(h) \/ deriveDeposit(h) \/ failDeposit(h)
  <2>1. UNCHANGED <<txs, notes, disk, writes, session>>
    BY <1>4 DEF executeDepositAfterBackup, deriveDeposit, failDeposit, chain, store
  <2>2. Copies' /\ Kept'
    BY <2>1, CopiesStay, KeptStays DEF Together
  <2>3. exec'[h].pc # "idle" => exec'[h].sec = session.sec
    <3>1. CASE executeDepositAfterBackup(h)
      <4>1. exec'[h] = [Idle EXCEPT !.pc = "fetch", !.sec = session.sec]
        BY <3>1 DEF executeDepositAfterBackup, Shape
      <4>. QED BY <4>1 DEF Idle
    <3>2. CASE deriveDeposit(h)
      <4>1. exec'[h] = [exec[h] EXCEPT !.pc = "sign", !.leaf = Len(leaves)]
            /\ exec[h].pc = "fetch"
        BY <3>2 DEF deriveDeposit, Shape
      <4>. QED BY <1>0, <1>3, <4>1 DEF Exec
    <3>3. CASE failDeposit(h)
      BY <3>3 DEF failDeposit, Idle, Shape
    <3>. QED BY <1>4, <3>1, <3>2, <3>3
  <2>4. Alone'
    BY <1>0, <1>3, <2>1, <2>3 DEF Alone
  <2>. QED BY <1>1, <2>2, <2>4 DEF Together
<1>5. CASE invokePoolDeposit(h)
  <2>1. UNCHANGED <<notes, disk, writes, session>>
    BY <1>5 DEF invokePoolDeposit, store
  <2>2. exec[h].pc = "sign" /\ exec'[h].sec = exec[h].sec
    BY <1>0, <1>5 DEF invokePoolDeposit, Shape, Exec
  <2>3. Alone'
    BY <1>0, <1>3, <2>1, <2>2 DEF Alone
  <2>. DEFINE tx == [op |-> "deposit", sec |-> exec[h].sec, leaf |-> exec[h].leaf,
                     job |-> None, st |-> "sent"]
  <2>4. /\ DOMAIN txs' = DOMAIN txs \cup {Len(txs')}
        /\ \A i \in DOMAIN txs : txs'[i] = txs[i]
        /\ txs'[Len(txs')].sec = exec[h].sec
    <3>1. txs' = Append(txs, tx) /\ tx.st = "sent" /\ tx.sec = exec[h].sec
      BY <1>5 DEF invokePoolDeposit, sendTransaction
    <3>. HIDE DEF tx
    <3>2. Landed /\ leaves' = leaves
      BY <1>5 DEF Core, invokePoolDeposit
    <3>. QED BY <3>1, <3>2, SendTransaction
  <2>5. Kept'
    BY <1>0, <1>3, <2>1, <2>2, <2>4 DEF Together, Kept, Held
  <2>. QED BY <1>1, <2>1, <2>3, <2>5, CopiesStay DEF Together
<1>6. CASE confirmDeposit(h)
  <2>1. /\ exec[h].pc = "wait" /\ txs[exec[h].tx].st = "ok" /\ UNCHANGED <<leaves, spent>>
        /\ addNote(exec[h].leaf, exec[h].sec) /\ exec'[h].pc = "idle"
    BY <1>6 DEF confirmDeposit, Shape, Idle
  <2>2. IsDeposit(exec[h].tx, "deposit", exec[h].leaf, exec[h].sec)
    BY <2>1 DEF Core, Waits
  <2>3. At(exec[h].leaf, exec[h].sec)
    BY <2>1, <2>2 DEF Core, Landed, IsDeposit, Deposits
  <2>4. /\ \E n \in notes' : n.sec = exec[h].sec
        /\ \A m \in notes : \E n \in notes' : n.sec = m.sec
    BY <1>0, <2>1, <2>3, AddNote DEF Core
  <2>5. DOMAIN txs' = DOMAIN txs
    BY <1>6, <2>2, Progress DEF confirmDeposit, IsDeposit
  <2>6. Kept'
    <3>. SUFFICES ASSUME ~ plan'.encryption, NEW i \in DOMAIN txs', txs'[i].op = "deposit"
                  PROVE  Held(txs[i].sec)'
      BY DEF Kept
    <3>1. i \in DOMAIN txs /\ txs[i].op = "deposit" /\ txs'[i].sec = txs[i].sec
      BY <2>5 DEF Grows
    <3>2. Held(txs[i].sec)
      BY <1>0, <3>1 DEF Together, Kept
    <3>. QED BY <1>3, <2>1, <2>4, <3>1, <3>2 DEF Held
  <2>7. Alone'
    BY <1>0, <1>3, <2>1 DEF Alone
  <2>8. Copies'
    BY <2>1, AddNoteCopies DEF Together
  <2>. QED BY <1>1, <2>6, <2>7, <2>8 DEF Together
<1>. QED BY <1>4, <1>5, <1>6

\* A sweep only adds notes.
LEMMA TogetherSweep ==
  ASSUME Shape, Core, Together, Grows,
         sweepStealthIntoPool \/ depositChunk \/ chunkConfirmed \/ sweepFails
  PROVE  Together'
<1>0. /\ UNCHANGED <<exec, session, flow, busy, draft, selected, spent, leaves>>
      /\ sweep.leaf \in Nat /\ sweep.sec \in Nat
  BY DEF sweepStealthIntoPool, depositChunk, chunkConfirmed, sweepFails, chain, Shape, Sweep
<1>1. CASE sweepStealthIntoPool \/ sweepFails
  BY <1>0, <1>1, TogetherFrame DEF sweepStealthIntoPool, sweepFails, chain, store
<1>2. CASE depositChunk
  <2>1. UNCHANGED <<notes, disk, writes>>
    BY <1>2 DEF depositChunk, store
  <2>2. CASE txs' = txs
    BY <1>0, <2>1, <2>2, TogetherFrame
  <2>3. CASE sendTransaction("sweep", sweep.sec, sweep.leaf, None)
    <3>. DEFINE tx == [op |-> "sweep", sec |-> sweep.sec, leaf |-> sweep.leaf,
                       job |-> None, st |-> "sent"]
    <3>1. txs' = Append(txs, tx) /\ tx.st = "sent" /\ tx.op = "sweep"
      BY <2>3 DEF sendTransaction
    <3>. HIDE DEF tx
    <3>2. DOMAIN txs' = DOMAIN txs \cup {Len(txs')} /\ txs'[Len(txs')] = tx
      BY <1>0, <3>1, SendTransaction DEF Core
    <3>. QED BY <1>0, <2>1, <3>1, <3>2, TogetherFrame
  <2>. QED BY <1>2, <2>2, <2>3 DEF depositChunk
<1>3. CASE chunkConfirmed
  <2>1. /\ sweep.pc = "wait" /\ txs[sweep.tx].st = "ok" /\ addNote(sweep.leaf, sweep.sec)
        /\ txs' = [txs EXCEPT ![sweep.tx].st = "seen"]
    BY <1>3 DEF chunkConfirmed
  <2>2. IsDeposit(sweep.tx, "sweep", sweep.leaf, sweep.sec)
    BY <2>1 DEF Core, Waits
  <2>3. At(sweep.leaf, sweep.sec)
    BY <2>1, <2>2 DEF Core, Landed, IsDeposit, Deposits
  <2>4. \A m \in notes : \E n \in notes' : n.sec = m.sec
    BY <1>0, <2>1, <2>3, AddNote DEF Core
  <2>5. DOMAIN txs' = DOMAIN txs
    BY <2>1, <2>2, Progress DEF IsDeposit
  <2>6. Kept'
    BY <1>0, <2>4, <2>5, KeptStays DEF Together
  <2>7. Copies'
    BY <1>0, <2>1, AddNoteCopies DEF Together
  <2>. QED BY <1>0, <2>6, <2>7, AloneStays, LinksStay DEF Together
<1>. QED BY <1>1, <1>2, <1>3

\* A withdrawal starts with a note of the store that is selected.
LEMMA BeginLinks ==
  ASSUME Shape, Core, Together, NEW kind \in Spending, NEW pc \in {"prove", "poll"},
         Begin(kind, pc), pc = "poll" => draft # None, draft' \in {draft, None},
         UNCHANGED <<txs, leaves, selected, session, exec>>
  PROVE  Alone' /\ Links'
<1>1. PICK n \in unspent :
        /\ n.leaf \in selected
        /\ flow' = [NoFlow EXCEPT !.pc = pc, !.kind = kind, !.leaf = n.leaf, !.sec = n.sec,
                                  !.job = draft]
  BY DEF Begin
<1>2. /\ flow'.pc = pc /\ flow'.kind = kind /\ flow'.leaf = n.leaf /\ flow'.sec = n.sec
      /\ flow'.job = draft
  BY <1>1 DEF NoFlow
<1>3. At(n.leaf, n.sec)
  BY DEF unspent, Core, Stored, Real
<1>4. draft # None => draft \in DOMAIN txs /\ txs[draft].sec = n.sec
  BY <1>1, <1>3 DEF Together, Links, At
<1>5. Links'
  <2>1. (selected \subseteq Nat /\ \A l, m \in selected : l = m)'
    BY DEF Together, Links
  <2>2. (draft # None => draft \in DOMAIN txs /\ \A l \in selected : At(l, txs[draft].sec))'
    <3>1. draft # None => draft \in DOMAIN txs /\ \A l \in selected : At(l, txs[draft].sec)
      BY DEF Together, Links
    <3>2. ASSUME draft' # None PROVE draft' = draft /\ draft # None
      BY <3>2
    <3>. QED BY <3>1, <3>2 DEF At
  <2>3. flow'.leaf \in selected' /\ At(flow.leaf, flow.sec)'
    BY <1>1, <1>2, <1>3, SMTT(30) DEF At
  <2>4. flow'.pc # "wait"
    BY <1>2
  <2>5. flow'.pc = "poll" => /\ flow'.job \in DOMAIN txs' /\ txs'[flow'.job].sec = flow'.sec
                             /\ flow'.kind \in Spending
    BY <1>2, <1>4
  <2>. QED BY <2>1, <2>2, <2>3, <2>4, <2>5 DEF Links
<1>6. Alone'
  BY DEF Begin, Together, Alone
<1>. QED BY <1>5, <1>6

\* Steps of a withdrawal that send nothing and write no note.
LEMMA TogetherQuiet ==
  ASSUME Shape, Core, Together, Grows, Quiet
  PROVE  Together'
<1>0. UNCHANGED <<leaves, txs, notes, disk, writes, session, exec>>
  BY QuietFrame DEF store
<1>1. Kept' /\ Copies'
  BY <1>0, KeptStays, CopiesStay DEF Together
<1>. SUFFICES Alone' /\ Links'
  BY <1>1 DEF Together
<1>2. NoFlow.pc = "idle"
  BY DEF NoFlow
<1>3. \A l, s : At(l, s)' <=> At(l, s)
  BY <1>0 DEF At
<1>4. CASE \E leaf \in 0 .. (MaxLeaves - 1) : ChangeInputs(leaf)
  <2>1. PICK leaf \in 0 .. (MaxLeaves - 1) : ChangeInputs(leaf)
    BY <1>4
  <2>2. leaf \in Nat
    BY WalletAssumption, SMTT(30)
  <2>3. busy = "no" /\ selected' = {leaf} /\ draft' = None /\ UNCHANGED <<flow, busy>>
    BY <2>1 DEF ChangeInputs
  <2>4. flow = NoFlow
    BY <2>3 DEF Together, Alone
  <2>. QED BY <1>0, <1>2, <2>2, <2>3, <2>4 DEF Together, Alone, Links
<1>5. CASE handleWalletWithdraw
  BY <1>0, <1>5, BeginLinks DEF handleWalletWithdraw, Spending
<1>6. CASE startRelayerWithdraw
  BY <1>0, <1>6, BeginLinks DEF startRelayerWithdraw, Spending
<1>7. CASE resubmitViaAlternateRelayer
  BY <1>0, <1>7, BeginLinks DEF resubmitViaAlternateRelayer, Spending
<1>8. CASE assignRelayer
  BY <1>0, <1>8, BeginLinks DEF assignRelayer, Spending
<1>9. CASE \E kind \in {"cancel", "slash"} : recoverRelayerJob(kind)
  <2>1. PICK kind \in {"cancel", "slash"} : recoverRelayerJob(kind)
    BY <1>9
  <2>2. /\ flow' = [NoFlow EXCEPT !.pc = "prove", !.kind = kind, !.job = draft]
        /\ session = NoSession /\ busy' = "flow" /\ UNCHANGED <<selected, draft>>
    BY <2>1 DEF recoverRelayerJob
  <2>3. flow'.pc = "prove" /\ flow'.kind \notin Spending
    BY <2>2 DEF NoFlow, Spending
  <2>4. Alone'
    BY <1>0, <2>2 DEF Together, Alone
  <2>. QED BY <1>0, <1>3, <2>2, <2>3, <2>4 DEF Together, Links
<1>10. CASE jobCreated
  <2>0. flow \in Flow
    BY DEF Shape
  <2>1. /\ flow.pc = "wait" /\ flow.kind \in {"create", "resubmit"}
        /\ draft' = flow.tx /\ selected' = selected
    BY <1>10 DEF jobCreated
  <2>2. flow # NoFlow
    BY <1>2, <2>1
  <2>3. /\ flow.leaf \in selected /\ At(flow.leaf, flow.sec)
        /\ flow.tx \in DOMAIN txs /\ txs[flow.tx].sec = flow.sec
    BY <2>1 DEF Together, Links, Spending
  <2>4. \A l \in selected : At(l, txs[flow.tx].sec)
    BY <2>3 DEF Together, Links
  <2>5. CASE flow' = NoFlow
    BY <1>0, <1>2, <1>3, <2>1, <2>3, <2>4, <2>5 DEF Together, Alone, Links
  <2>6. CASE flow' = [flow EXCEPT !.pc = "poll", !.job = flow.tx] /\ busy' = busy
    <3>1. /\ flow'.pc = "poll" /\ flow'.job = flow.tx /\ flow'.kind = flow.kind
          /\ flow'.leaf = flow.leaf /\ flow'.sec = flow.sec
      BY <2>0, <2>6 DEF Flow
    <3>2. Alone'
      BY <1>0, <2>2, <2>6 DEF Together, Alone
    <3>. QED BY <1>0, <1>3, <2>1, <2>3, <2>4, <3>1, <3>2 DEF Together, Links, Spending
  <2>. QED BY <1>10, <2>5, <2>6 DEF jobCreated
<1>11. CASE jobRecovered \/ stall \/ flowFails
  <2>1. flow' = NoFlow /\ draft' \in {draft, None} /\ selected' = selected
    BY <1>11 DEF jobRecovered, stall, flowFails
  <2>. QED BY <1>0, <1>2, <1>3, <2>1 DEF Together, Alone, Links
<1>. QED BY <1>4, <1>5, <1>6, <1>7, <1>8, <1>9, <1>10, <1>11 DEF Quiet

\* The transaction of a withdrawal has the secrets of its note.
LEMMA TogetherSubmit ==
  ASSUME Shape, Core, Together, Grows, Submit
  PROVE  Together'
<1>. DEFINE op == IF flow.kind = "resubmit" THEN "create" ELSE flow.kind
            tx == [op |-> op, sec |-> flow.sec, leaf |-> flow.leaf, job |-> flow.job,
                   st |-> "sent"]
<1>1. /\ flow.pc = "prove" /\ txs' = Append(txs, tx)
      /\ flow' = [flow EXCEPT !.pc = "wait", !.tx = Len(txs')]
      /\ UNCHANGED <<leaves, notes, disk, writes, session, busy, selected, draft, exec>>
  BY DEF Submit, sendTransaction, store
<1>2. flow \in Flow /\ flow.kind \in Kinds /\ flow.leaf \in Nat /\ flow.sec \in Nat
  BY DEF Shape, Flow
<1>3. tx.op = TxOp(flow.kind) /\ tx.op # "deposit" /\ tx.st = "sent" /\ tx.sec = flow.sec
  BY <1>2 DEF TxOp, Kinds
<1>. HIDE DEF tx
<1>4. /\ DOMAIN txs' = DOMAIN txs \cup {Len(txs')}
      /\ txs'[Len(txs')] = tx
  BY <1>1, <1>3, SendTransaction DEF Core
<1>5. /\ flow'.pc = "wait" /\ flow'.tx = Len(txs') /\ flow'.kind = flow.kind
      /\ flow'.leaf = flow.leaf /\ flow'.sec = flow.sec
  BY <1>1, <1>2 DEF Flow
<1>6. flow # NoFlow
  <2>1. NoFlow.pc = "idle"
    BY DEF NoFlow
  <2>. QED BY <1>1, <2>1
<1>7. Alone'
  BY <1>1, <1>6 DEF Together, Alone
<1>8. Kept' /\ Copies'
  BY <1>1, <1>3, <1>4, KeptStays, CopiesStay DEF Together
<1>9. Links'
  <2>1. (selected \subseteq Nat /\ \A l, m \in selected : l = m)'
    BY <1>1 DEF Together, Links
  <2>2. draft # None => /\ draft \in DOMAIN txs' /\ txs'[draft].sec = txs[draft].sec
                        /\ \A l \in selected : At(l, txs[draft].sec)
    BY DEF Together, Links, Grows
  <2>3. (draft # None => draft \in DOMAIN txs /\ \A l \in selected : At(l, txs[draft].sec))'
    BY <1>1, <2>2 DEF At
  <2>4. (flow.kind \in Spending => flow.leaf \in selected /\ At(flow.leaf, flow.sec))'
    <3>1. flow.kind \in Spending => flow.leaf \in selected /\ At(flow.leaf, flow.sec)
      BY <1>1 DEF Together, Links
    <3>. QED BY <1>1, <1>5, <3>1, SMTT(30) DEF At
  <2>5. /\ flow'.tx \in DOMAIN txs' /\ txs'[flow'.tx].sec = flow'.sec
        /\ txs'[flow'.tx].op = TxOp(flow'.kind) /\ flow'.pc # "poll"
    BY <1>3, <1>4, <1>5
  <2>. QED BY <2>1, <2>3, <2>4, <2>5 DEF Links
<1>. QED BY <1>7, <1>8, <1>9 DEF Together

\* A note is marked once the chain has spent its secrets.
LEMMA TogetherFinish ==
  ASSUME Shape, Core, Settled, Together, Grows, withdrawConfirmed \/ finishRelayer
  PROVE  Together'
<1>1. /\ markSpent(flow.leaf) /\ flow' = NoFlow /\ draft' = None /\ selected' = {}
      /\ UNCHANGED <<leaves, spent, txs, session, exec, account>>
  BY DEF withdrawConfirmed, finishRelayer, FinishWithdraw, chain
<1>2. At(flow.leaf, flow.sec) /\ flow.sec \in spent
  <2>1. CASE withdrawConfirmed
    <3>1. flow.pc = "wait" /\ flow.kind = "withdraw" /\ txs[flow.tx].st = "ok"
      BY <2>1 DEF withdrawConfirmed
    <3>2. /\ flow.tx \in DOMAIN txs /\ txs[flow.tx].sec = flow.sec
          /\ txs[flow.tx].op = "withdraw" /\ At(flow.leaf, flow.sec)
      BY <3>1 DEF Together, Links, Spending, TxOp
    <3>. QED BY <3>1, <3>2 DEF Settled
  <2>2. CASE finishRelayer
    <3>1. flow.pc = "poll" /\ jobs[flow.job] = "submitted"
      BY <2>2 DEF finishRelayer
    <3>2. /\ flow.job \in DOMAIN txs /\ txs[flow.job].sec = flow.sec
          /\ At(flow.leaf, flow.sec)
      BY <3>1 DEF Together, Links
    <3>. QED BY <3>1, <3>2 DEF Settled
  <2>. QED BY <2>1, <2>2
<1>3. Kept'
  <2>1. \A m \in notes : \E n \in notes' : n.sec = m.sec
    BY <1>1, MarkSpent DEF Core
  <2>. QED BY <1>1, <2>1, KeptStays DEF Together
<1>4. Alone' /\ Links'
  BY <1>1 DEF Together, Alone, Links, NoFlow
<1>5. Copies'
  <2>. DEFINE mark(n) == IF n.leaf = flow.leaf /\ n.account = account
                         THEN [n EXCEPT !.spent = TRUE] ELSE n
              ns == {mark(n) : n \in notes}
  <2>1. setItem(ns)
    BY <1>1 DEF markSpent
  <2>2. \A n \in notes : n \in Note /\ At(n.leaf, n.sec)
    BY DEF Core, Stored, Real
  <2>3. \A n \in notes : mark(n).sec = n.sec /\ (n.leaf # flow.leaf => mark(n) = n)
    BY <2>2 DEF Note
  <2>4. \A n \in notes : n.leaf = flow.leaf => n.sec = flow.sec
    BY <1>2, <2>2 DEF At
  <2>. HIDE DEF mark
  <2>5. Marked(ns)
    BY <1>2, <2>3, <2>4 DEF Together, Copies, Marked
  <2>. HIDE DEF ns
  <2>. QED BY <1>1, <2>1, <2>5, SetItemCopies DEF Together
<1>. QED BY <1>3, <1>4, <1>5 DEF Together

\* Unless a deposit is canceled, what the page holds stays together.
LEMMA TogetherStep ==
  ASSUME OneClick, Shape, Core, Settled, Together, Grows, abandoned' = {}, [Next]_vars
  PROVE  Together'
<1>1. CASE \/ \E i \in DOMAIN txs : Include(i)
           \/ OtherDeposit \/ \E j \in TxIds : Relayer(j) \/ Deadline(j)
  <2>1. UNCHANGED <<exec, session, flow, busy, draft, selected, notes, disk, writes>>
    BY <1>1 DEF Include, OtherDeposit, Relayer, Deadline, store, page
  <2>2. DOMAIN txs' = DOMAIN txs
    BY <1>1, Progress DEF Include, OtherDeposit, Relayer, Deadline
  <2>. QED BY <2>1, <2>2, TogetherFrame
<1>2. CASE \/ \E state \in writes : FinishWrite(state)
           \/ EncryptionSettings \/ \E a \in Accounts : SwitchAccount(a)
  BY <1>2, TogetherStore
<1>3. CASE Reload
  BY <1>3, TogetherReload
<1>4. CASE handleDeposit \/ verifyDepositFragment
  BY <1>4, TogetherGate
<1>5. CASE CancelDeposit
  BY <1>5 DEF CancelDeposit
<1>6. CASE \E h \in Handlers :
             \/ executeDepositAfterBackup(h) \/ deriveDeposit(h) \/ invokePoolDeposit(h)
             \/ confirmDeposit(h) \/ failDeposit(h)
  BY <1>6, TogetherDialog
<1>7. CASE sweepStealthIntoPool \/ depositChunk \/ chunkConfirmed \/ sweepFails
  BY <1>7, TogetherSweep
<1>8. CASE Quiet
  BY <1>8, TogetherQuiet
<1>9. CASE Submit
  BY <1>9, TogetherSubmit
<1>10. CASE withdrawConfirmed \/ finishRelayer
  BY <1>10, TogetherFinish
<1>11. CASE UNCHANGED vars
  BY <1>11, TogetherFrame DEF vars, chain, store, page
<1>. QED
  BY <1>1, <1>2, <1>3, <1>4, <1>5, <1>6, <1>7, <1>8, <1>9, <1>10, <1>11 DEF Next, Quiet

\* Nothing runs on a new page.
LEMMA PageInit == Init => PageInv
<1>. SUFFICES ASSUME Init PROVE PageInv
  OBVIOUS
<1>1. DOMAIN txs = {}
  BY SMTT(30) DEF Init
<1>2. Settled
  BY <1>1 DEF Init, Settled, JobStatus
<1>3. Alone /\ Links
  BY DEF Init, Alone, Links, Idle, NoFlow
<1>4. Kept /\ Copies
  BY <1>1, SMTT(30) DEF Init, Kept, Copies, Marked
<1>. QED BY <1>2, <1>3, <1>4 DEF PageInv, Together

\* With one click at a time, every step keeps the invariant of the page.
LEMMA PageStep ==
  ASSUME OneClick
  PROVE  WalletInv /\ PageInv /\ [Next]_vars => PageInv'
<1>. SUFFICES ASSUME Shape, Core, Settled, abandoned = {} => Together, [Next]_vars
              PROVE  Settled' /\ (abandoned' = {} => Together')
  BY DEF WalletInv, PageInv
<1>1. Grows /\ Settled'
  BY SettledStep DEF Core
<1>2. ASSUME abandoned' = {} PROVE Together'
  <2>1. abandoned = {}
    BY <1>1, <1>2 DEF Grows
  <2>. QED BY <1>1, <1>2, <2>1, TogetherStep
<1>. QED BY <1>1, <1>2

\* A note in the wallet is a note in the pool, although its leaf was read before the
\* deposit was signed and others deposit meanwhile.
THEOREM NotesAreRealTheorem == Spec => []NotesAreReal
<1>1. WalletInv => NotesAreReal
  BY DEF WalletInv, Core, Stored, Real, At, NotesAreReal
<1>. QED BY WalletInit, WalletStep, <1>1, PTL DEF Spec

\* No deposit of the dialog reaches the pool with secrets the user has not written
\* down, over reloads, retries and late inclusion.
THEOREM BackedUpTheorem == Spec => []DepositsAreBackedUp
<1>1. WalletInv => DepositsAreBackedUp
  BY DEF WalletInv, Core, Backed, DepositsAreBackedUp
<1>. QED BY WalletInit, WalletStep, <1>1, PTL DEF Spec

\* A deposit the page saw confirmed keeps its note, across reloads, account switches
\* and withdrawals, as long as the storage is not encrypted.
THEOREM ConfirmedTheorem == Spec => []ConfirmedIsKept
<1>1. WalletInv => ConfirmedIsKept
  BY DEF WalletInv, Core
<1>. QED BY WalletInit, WalletStep, <1>1, PTL DEF Spec

\* With one click at a time and no canceled deposit, a note is marked spent only when
\* its nullifier is: the transaction or the job the page saw through is the one of
\* the note it marks, over stalls, resubmissions, reloads and edits of the form.
THEOREM SpentTheorem ==
  ASSUME OneClick
  PROVE  Spec => []SpentIsSpent
<1>1. PageInv => SpentIsSpent
  BY DEF PageInv, Together, Copies, Marked, SpentIsSpent
<1>. QED BY WalletInit, WalletStep, PageInit, PageStep, <1>1, PTL DEF Spec

\* With one click at a time, the secrets of every deposit that reached the pool are in
\* the note store or still in the dialog, unless the user canceled a deposit or
\* encrypts the storage.
THEOREM SecretKeptTheorem ==
  ASSUME OneClick
  PROVE  Spec => []DepositSecretKept
<1>1. PageInv => DepositSecretKept
  BY DEF PageInv, Together, Kept, Held, DepositSecretKept
<1>. QED BY WalletInit, WalletStep, PageInit, PageStep, <1>1, PTL DEF Spec
===============================================================================
