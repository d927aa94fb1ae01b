------------------------ MODULE RelayerEngineProofs --------------------------
(***************************************************************************)
(* The theorems about RelayerEngine, for any jobs, deliveries, deadline,   *)
(* margin and bounds: its types, the invariant that keeps the bonds of the *)
(* relayer node safe, and the refinement of BondedJobs.                    *)
(*                                                                         *)
(* The argument for the bonds needs to know that an accept_job under way   *)
(* is covered by an entry until the job is taken, that an entry is marked  *)
(* accepted only when the job is no longer open, and that a process that   *)
(* is about to resolve an entry has seen the job submitted.                *)
(***************************************************************************)
EXTENDS RelayerEngine, TLAPS

USE DEF Procs
USE ZenonT(20)

\* Labels of a process that has submit attempts left.
Early == Labels \ {"send", "await", "failed", "resolve", "record", "gave_up"}

\* Where a process is determines which job and transaction it is about.
Flow ==
  \A p \in Procs :
    /\ pc[p] \notin {"idle", "pick"} => at[p] \in Jobs
    /\ pc[p] \in Early => attempt[p] < maxAttempts
    /\ pc[p] # "await" => mytx[p] = NoTx
    /\ pc[p] = "await" => /\ mytx[p] \in Transactions
                          /\ mytx[p].job = at[p]
                          /\ mytx[p].kind = "accept" => attempt[p] < maxAttempts

TInv == TypeOK /\ Flow


-----------------------------------------------------------------------------
(* Types.                                                                  *)

\* The resume pass is a process.
LEMMA ResumeIsProc == Resume \in Procs
  OBVIOUS

\* The engine starts well typed.
LEMMA InitTypes == Init => TInv
<1> SUFFICES ASSUME Init PROVE TInv
  OBVIOUS
<1>1. EntriesOf(NoEntries)
  BY DEF EntriesOf, NoEntries
<1>2. EntriesOf(disk) /\ EntriesOf(queue) /\ EntriesOf(held)
  BY <1>1 DEF Init
<1>3. /\ status \in [Jobs -> Statuses] /\ owner \in [Jobs -> {Self, Other, Nobody}]
      /\ pc \in [Procs -> Labels] /\ at \in [Procs -> Jobs \cup {NoJob}]
      /\ attempt \in [Procs -> 0..maxAttempts]
      /\ mytx \in [Procs -> Transactions \cup {NoTx}]
  BY EngineBoundsAssumption, SMTT(30) DEF Init, Statuses, Labels
<1>4. TypeOK
  <2>1. now \in 1..(MaxLedger + 1)
    BY EngineBoundsAssumption, SMTT(30) DEF Init
  <2>2. /\ txs \subseteq Transactions /\ ledger \subseteq Jobs /\ completed \subseteq Jobs
        /\ unseen \subseteq Jobs /\ todo \subseteq Jobs /\ serving \in BOOLEAN
    BY DEF Init
  <2>3. /\ deliveries \in 0..MaxDeliveries /\ faults \in 0..MaxFaults
        /\ blind \in 0..MaxBlind /\ crashes \in 0..MaxCrashes
    BY EngineBoundsAssumption, SMTT(30) DEF Init
  <2>4. QED BY <1>2, <1>3, <2>1, <2>2, <2>3 DEF TypeOK
<1>5. Flow
  BY EngineBoundsAssumption, SMTT(30) DEF Init, Flow
<1>6. QED BY <1>4, <1>5 DEF TInv

\* What Goto does to the types, from any place whose attempts are in range.
LEMMA GotoTypes ==
  ASSUME TInv, NEW p \in Procs, NEW label \in Labels, Goto(p, label),
         pc[p] # "await",
         label \notin {"idle", "pick"} => at[p] \in Jobs,
         label \in Early \ {"idle", "pick"} => attempt[p] < maxAttempts,
         label # "await"
  PROVE  /\ pc' \in [Procs -> Labels] /\ at' \in [Procs -> Jobs \cup {NoJob}]
         /\ attempt' \in [Procs -> 0..maxAttempts]
         /\ mytx' \in [Procs -> Transactions \cup {NoTx}]
         /\ Flow'
<1>1. /\ pc' \in [Procs -> Labels] /\ at' \in [Procs -> Jobs \cup {NoJob}]
      /\ attempt' \in [Procs -> 0..maxAttempts]
      /\ mytx' = mytx
  BY EngineBoundsAssumption, SMTT(30) DEF TInv, TypeOK, Goto
<1>2. ASSUME NEW q \in Procs
      PROVE  /\ pc'[q] \notin {"idle", "pick"} => at'[q] \in Jobs
             /\ pc'[q] \in Early => attempt'[q] < maxAttempts
             /\ pc'[q] # "await" => mytx'[q] = NoTx
             /\ pc'[q] = "await" => /\ mytx'[q] \in Transactions
                                    /\ mytx'[q].job = at'[q]
                                    /\ mytx'[q].kind = "accept" => attempt'[q] < maxAttempts
  <2>1. CASE q = p
    BY <2>1, EngineBoundsAssumption, SMTT(30) DEF TInv, TypeOK, Goto, Flow
  <2>2. CASE q # p
    <3>1. pc'[q] = pc[q] /\ at'[q] = at[q] /\ attempt'[q] = attempt[q] /\ mytx'[q] = mytx[q]
      BY <2>2 DEF TInv, TypeOK, Goto
    <3>2. QED BY <3>1 DEF TInv, Flow
  <2>3. QED BY <2>1, <2>2
<1>3. QED BY <1>1, <1>2 DEF Flow, TInv, TypeOK

\* persist writes entries.
LEMMA PersistTypes ==
  ASSUME NEW entries, EntriesOf(entries), Persist(entries), TypeOK
  PROVE  EntriesOf(queue)' /\ EntriesOf(disk)'
  BY DEF Persist, EntriesOf, TypeOK

\* put and remove yield entries.
LEMMA PutRemoveTypes ==
  ASSUME TypeOK, NEW j \in Jobs
  PROVE  /\ EntriesOf(remove(j))
         /\ \A phase \in Phases : EntriesOf(put(j, phase))
  BY DEF TypeOK, EntriesOf, remove, put

\* An entry the pass still holds is an entry.
LEMMA DetachTypes ==
  ASSUME TypeOK, NEW j \in Jobs, Detach(j)
  PROVE  EntriesOf(held)'
  BY DEF TypeOK, EntriesOf, Detach

\* The bound variables of the reads.
LEMMA ReadTypes ==
  ASSUME TypeOK, NEW j, NEW s, NEW h, getJob(j, s) \/ hasDeadlineHeadroom(j, h)
  PROVE  blind' \in 0..MaxBlind
  BY EngineBoundsAssumption, SMTT(30) DEF TypeOK, getJob, hasDeadlineHeadroom

\* Sending a transaction keeps the types of the processes.
LEMMA SendTypes ==
  ASSUME TInv, NEW p \in Procs, NEW kind \in {"accept", "submit"}, Send(p, kind),
         pc[p] \notin {"idle", "pick", "await"},
         kind = "accept" => attempt[p] < maxAttempts
  PROVE  /\ pc' \in [Procs -> Labels] /\ at' \in [Procs -> Jobs \cup {NoJob}]
         /\ attempt' \in [Procs -> 0..maxAttempts]
         /\ mytx' \in [Procs -> Transactions \cup {NoTx}]
         /\ txs' \subseteq Transactions
         /\ Flow'
<1> DEFINE tx == [kind |-> kind, job |-> at[p], by |-> p,
                  attempt |-> attempt[p], epoch |-> crashes]
<1>1. tx \in Transactions
  BY DEF TInv, TypeOK, Flow, Transactions
<1>2. tx.job = at[p] /\ tx.kind = kind
  OBVIOUS
<1>3. mytx' = [mytx EXCEPT ![p] = tx] /\ mytx'[p] = tx
  BY DEF Send, TInv, TypeOK
<1>4. txs' = txs \cup {tx}
  BY <1>3 DEF Send
<1> HIDE DEF tx
<1>5. /\ pc' \in [Procs -> Labels] /\ at' = at /\ attempt' = attempt
      /\ mytx' \in [Procs -> Transactions \cup {NoTx}]
      /\ txs' \subseteq Transactions
  BY <1>1, <1>3, <1>4 DEF Send, TInv, TypeOK, Labels
<1>6. ASSUME NEW q \in Procs
      PROVE  /\ pc'[q] \notin {"idle", "pick"} => at'[q] \in Jobs
             /\ pc'[q] \in Early => attempt'[q] < maxAttempts
             /\ pc'[q] # "await" => mytx'[q] = NoTx
             /\ pc'[q] = "await" => /\ mytx'[q] \in Transactions
                                    /\ mytx'[q].job = at'[q]
                                    /\ mytx'[q].kind = "accept" => attempt'[q] < maxAttempts
  <2>1. CASE q = p
    <3>1. pc'[q] = "await" /\ mytx'[q] = tx
      BY <2>1, <1>3 DEF Send, TInv, TypeOK
    <3>2. QED BY <3>1, <2>1, <1>1, <1>2, <1>5 DEF TInv, Flow, Early
  <2>2. CASE q # p
    <3>1. pc'[q] = pc[q] /\ mytx'[q] = mytx[q]
      BY <2>2, <1>3 DEF Send, TInv, TypeOK
    <3>2. QED BY <3>1, <1>5 DEF TInv, Flow
  <2>3. QED BY <2>1, <2>2
<1>7. QED BY <1>5, <1>6 DEF Flow, TInv, TypeOK

\* The part of TInv about the processes.
ThreadTypes ==
  /\ pc \in [Procs -> Labels] /\ at \in [Procs -> Jobs \cup {NoJob}]
  /\ attempt \in [Procs -> 0..maxAttempts]
  /\ mytx \in [Procs -> Transactions \cup {NoTx}]
  /\ Flow

\* The part of TInv about everything else.
DataTypes ==
  /\ now \in 1..(MaxLedger + 1)
  /\ status \in [Jobs -> Statuses] /\ owner \in [Jobs -> {Self, Other, Nobody}]
  /\ txs \subseteq Transactions
  /\ EntriesOf(disk) /\ EntriesOf(queue) /\ EntriesOf(held)
  /\ ledger \subseteq Jobs /\ completed \subseteq Jobs /\ unseen \subseteq Jobs
  /\ todo \subseteq Jobs /\ serving \in BOOLEAN
  /\ deliveries \in 0..MaxDeliveries /\ faults \in 0..MaxFaults
  /\ blind \in 0..MaxBlind /\ crashes \in 0..MaxCrashes

\* The types of the processes and of the data.
LEMMA TInvParts == TInv <=> ThreadTypes /\ DataTypes
  BY DEF TInv, TypeOK, ThreadTypes, DataTypes

\* The same in the next state.
LEMMA TInvPartsPrime == TInv' <=> ThreadTypes' /\ DataTypes'
  BY DEF TInv, TypeOK, ThreadTypes, DataTypes

\* A step of processJob keeps the types of the processes.
LEMMA StepThreads ==
  ASSUME TInv, NEW p \in Procs, Step(p)
  PROVE  ThreadTypes'
<1> USE DEF ThreadTypes
<1>1. CASE CheckJob(p)
  <2>1. PICK s \in Reads : Goto(p, IF s = "open" THEN "headroom" ELSE "idle")
    BY <1>1 DEF CheckJob
  <2>2. QED BY <2>1, <1>1, GotoTypes DEF CheckJob, TInv, Flow, Labels, Early
<1>2. CASE CheckHeadroom(p)
  <2>1. PICK h \in BOOLEAN : Goto(p, IF h THEN "enqueue" ELSE "idle")
    BY <1>2 DEF CheckHeadroom
  <2>2. QED BY <2>1, <1>2, GotoTypes DEF CheckHeadroom, TInv, Flow, Labels, Early
<1>3. CASE Enqueue(p)
  BY <1>3, GotoTypes DEF Enqueue, TInv, Flow, Labels, Early
<1>4. CASE acceptJob(p)
  BY <1>4, SendTypes DEF acceptJob, TInv, Flow, Labels, Early
<1>5. CASE reconcileAcceptance(p)
  <2>1. PICK s \in Reads :
          Goto(p, IF s = "accepted" /\ owner[at[p]] = Self THEN "mark" ELSE "idle")
    BY <1>5 DEF reconcileAcceptance
  <2>2. QED BY <2>1, <1>5, GotoTypes DEF reconcileAcceptance, TInv, Flow, Labels, Early
<1>6. CASE MarkAccepted(p)
  <2>1. \E label \in {"resume_headroom", "submit", "accept_failed", "idle"} : Goto(p, label)
    BY <1>6 DEF MarkAccepted
  <2>2. QED BY <2>1, <1>6, GotoTypes DEF MarkAccepted, TInv, Flow, Labels, Early
<1>7. CASE TrySubmit(p)
  <2>1. PICK label \in {"send", "resolve", "failed"} : pc' = [pc EXCEPT ![p] = label]
    BY <1>7 DEF TrySubmit
  <2>2. attempt[p] < maxAttempts /\ attempt' = [attempt EXCEPT ![p] = @ + 1]
        /\ at' = at /\ mytx' = mytx
    BY <1>7 DEF TrySubmit, TInv, Flow, Labels, Early
  <2>3. pc' \in [Procs -> Labels] /\ attempt' \in [Procs -> 0..maxAttempts]
    BY <2>1, <2>2, EngineBoundsAssumption, SMTT(30) DEF TInv, TypeOK, Labels
  <2>4. Flow'
    BY <2>1, <2>2, <1>7, SMTT(30) DEF TrySubmit, TInv, TypeOK, Flow, Early
  <2>5. QED BY <2>2, <2>3, <2>4 DEF TInv, TypeOK
<1>8. CASE submitPoolWithdraw(p)
  BY <1>8, SendTypes DEF submitPoolWithdraw, TInv, Flow, Labels, Early
<1>9. CASE SubmitFailed(p)
  <2>1. PICK label \in {"gave_up", "resolve", "backoff"} :
          /\ Goto(p, label)
          /\ label = "backoff" => attempt[p] < maxAttempts
    BY <1>9 DEF SubmitFailed
  <2>2. QED BY <2>1, <1>9, GotoTypes DEF SubmitFailed, TInv, Flow, Labels, Early
<1>10. CASE Backoff(p)
  <2>1. PICK h \in BOOLEAN : Goto(p, IF h THEN "submit" ELSE "gave_up")
    BY <1>10 DEF Backoff
  <2>2. QED BY <2>1, <1>10, GotoTypes DEF Backoff, TInv, Flow, Labels, Early
<1>11. CASE Resolve(p)
  BY <1>11, GotoTypes DEF Resolve, TInv, Flow, Labels, Early
<1>12. CASE Record(p)
  BY <1>12, GotoTypes DEF Record, Done, TInv, Flow, Labels, Early
<1>13. CASE GiveUp(p)
  BY <1>13, GotoTypes DEF GiveUp, Done, TInv, Flow, Labels, Early
<1>14. QED
  BY <1>1, <1>2, <1>3, <1>4, <1>5, <1>6, <1>7, <1>8, <1>9, <1>10, <1>11, <1>12,
     <1>13 DEF Step

\* So does a step of the resume pass.
LEMMA ResumeThreads ==
  ASSUME TInv, ResumeStep
  PROVE  ThreadTypes'
<1> USE ResumeIsProc DEF ThreadTypes
<1>1. CASE StartResume
  BY <1>1, GotoTypes DEF StartResume, TInv, Flow, Labels, Early
<1>2. CASE PickEntry
  <2>1. PICK j \in todo : at' = [at EXCEPT ![Resume] = j]
    BY <1>2 DEF PickEntry
  <2>2. pc' = [pc EXCEPT ![Resume] = "look"] /\ attempt' = attempt /\ mytx' = mytx
    BY <1>2 DEF PickEntry
  <2>3. j \in Jobs
    BY <2>1 DEF TInv, TypeOK
  <2>4. pc' \in [Procs -> Labels] /\ at' \in [Procs -> Jobs \cup {NoJob}]
    BY <2>1, <2>2, <2>3 DEF TInv, TypeOK, Labels
  <2>5. Flow'
    BY <2>1, <2>2, <2>3, <1>2, SMTT(30) DEF PickEntry, TInv, TypeOK, Flow, Early, Labels
  <2>6. QED BY <2>2, <2>4, <2>5 DEF TInv, TypeOK
<1>3. CASE EndResume
  BY <1>3, GotoTypes DEF EndResume, TInv, Flow, Labels, Early
<1>4. CASE LookAtEntry
  <2>1. PICK label \in {"record", "idle", "resume_headroom", "accept", "pick"} :
          Goto(Resume, label)
    BY <1>4 DEF LookAtEntry, Throw
  <2>2. QED BY <2>1, <1>4, GotoTypes DEF LookAtEntry, TInv, Flow, Labels, Early
<1>5. CASE ResumeAcceptFailed
  <2>1. PICK label \in {"idle", "pick"} : Goto(Resume, label)
    BY <1>5 DEF ResumeAcceptFailed, Throw
  <2>2. QED BY <2>1, <1>5, GotoTypes DEF ResumeAcceptFailed, TInv, Flow, Labels, Early
<1>6. CASE ResumeHeadroom
  <2>1. PICK label \in {"submit", "idle", "pick"} : Goto(Resume, label)
    BY <1>6 DEF ResumeHeadroom, Throw
  <2>2. QED BY <2>1, <1>6, GotoTypes DEF ResumeHeadroom, TInv, Flow, Labels, Early
<1>7. QED BY <1>1, <1>2, <1>3, <1>4, <1>5, <1>6 DEF ResumeStep

\* Where AfterTx leads.
LEMMA AfterTxTypes ==
  ASSUME NEW p \in Procs, NEW ok \in BOOLEAN
  PROVE  /\ AfterTx(p, ok) \in {"mark", "accept_failed", "reconcile", "resolve", "failed"}
         /\ AfterTx(p, ok) \in Labels \ {"idle", "pick", "await"}
         /\ AfterTx(p, ok) \in Early => mytx[p].kind = "accept"
         /\ AfterTx(p, ok) \in {"mark", "resolve"} => ok
         /\ AfterTx(p, ok) = "resolve" => mytx[p].kind = "submit"
         /\ AfterTx(p, ok) = "mark" => mytx[p].kind = "accept"
  BY DEF AfterTx, Labels, Early

\* A process whose transaction is included, or whose invoke throws.
LEMMA WokenTypes ==
  ASSUME TInv, NEW p \in Procs, NEW ok \in BOOLEAN, pc[p] = "await",
         pc' = [pc EXCEPT ![p] = AfterTx(p, ok)],
         mytx' = [mytx EXCEPT ![p] = NoTx],
         UNCHANGED <<at, attempt>>
  PROVE  ThreadTypes'
<1>1. pc' \in [Procs -> Labels] /\ mytx' \in [Procs -> Transactions \cup {NoTx}]
  BY AfterTxTypes DEF TInv, TypeOK
<1>2. ASSUME NEW q \in Procs
      PROVE  /\ pc'[q] \notin {"idle", "pick"} => at'[q] \in Jobs
             /\ pc'[q] \in Early => attempt'[q] < maxAttempts
             /\ pc'[q] # "await" => mytx'[q] = NoTx
             /\ pc'[q] = "await" => /\ mytx'[q] \in Transactions
                                    /\ mytx'[q].job = at'[q]
                                    /\ mytx'[q].kind = "accept" => attempt'[q] < maxAttempts
  <2>1. CASE q = p
    <3>1. pc'[q] = AfterTx(p, ok) /\ mytx'[q] = NoTx
      BY <2>1 DEF TInv, TypeOK
    <3>2. QED BY <3>1, <2>1, AfterTxTypes, SMTT(30) DEF TInv, Flow
  <2>2. CASE q # p
    <3>1. pc'[q] = pc[q] /\ mytx'[q] = mytx[q]
      BY <2>2 DEF TInv, TypeOK
    <3>2. QED BY <3>1 DEF TInv, Flow
  <2>3. QED BY <2>1, <2>2
<1>3. QED BY <1>1, <1>2 DEF ThreadTypes, Flow, TInv, TypeOK

\* A transaction some process waits for is that process's own.
LEMMA WaitingFor ==
  ASSUME TInv, NEW tx \in txs
  PROVE  /\ tx \in Transactions /\ tx.by \in Procs /\ tx.job \in Jobs
         /\ tx.kind \in {"accept", "submit"}
         /\ \A p \in Procs : mytx[p] = tx => pc[p] = "await" /\ tx.job = at[p]
<1>1. tx \in Transactions /\ tx.by \in Procs /\ tx.job \in Jobs /\ tx.kind \in {"accept", "submit"}
  BY DEF TInv, TypeOK, Transactions
<1>2. tx # NoTx
  BY <1>1, SMTT(30) DEF NoTx
<1>3. QED BY <1>1, <1>2 DEF TInv, Flow

\* So does every step.
LEMMA OtherThreads ==
  ASSUME TInv, Next
  PROVE  ThreadTypes'
<1>1. CASE \E p \in Handlers, j \in Jobs : Receive(p, j)
  <2>1. PICK p \in Handlers, j \in Jobs : Receive(p, j)
    BY <1>1
  <2>2. pc' \in [Procs -> Labels] /\ at' \in [Procs -> Jobs \cup {NoJob}]
        /\ attempt' = attempt /\ mytx' = mytx
    BY <2>1 DEF Receive, TInv, TypeOK, Labels
  <2>3. Flow'
    BY <2>1, SMTT(30) DEF Receive, TInv, TypeOK, Flow, Early, Labels
  <2>4. QED BY <2>2, <2>3 DEF ThreadTypes, TInv, TypeOK
<1>2. CASE \E p \in Procs : Step(p)
  BY <1>2, StepThreads
<1>3. CASE \E p \in Procs : InvokeThrows(p)
  BY <1>3, WokenTypes DEF InvokeThrows
<1>4. CASE ResumeStep
  BY <1>4, ResumeThreads
<1>5. CASE \E tx \in txs : Include(tx)
  <2>1. PICK tx \in txs : Include(tx)
    BY <1>5
  <2>2. CASE mytx[tx.by] = tx
    <3>1. Accepts(tx) \in BOOLEAN
      BY DEF Accepts
    <3>2. QED BY <2>1, <2>2, <3>1, WaitingFor, WokenTypes DEF Include
  <2>3. CASE mytx[tx.by] # tx
    BY <2>1, <2>3 DEF Include, ThreadTypes, TInv, TypeOK, Flow
  <2>4. QED BY <2>2, <2>3
<1>6. CASE (\E j \in Jobs : OtherStep(j)) \/ CloseLedger
  BY <1>6 DEF OtherStep, CloseLedger, threads, ThreadTypes, TInv, TypeOK, Flow
<1>7. CASE Crash
  <2>1. /\ pc' \in [Procs -> Labels] /\ at' \in [Procs -> Jobs \cup {NoJob}]
        /\ attempt' \in [Procs -> 0..maxAttempts]
        /\ mytx' \in [Procs -> Transactions \cup {NoTx}]
    BY <1>7, EngineBoundsAssumption, SMTT(30) DEF Crash, Labels
  <2>2. Flow'
    BY <1>7, EngineBoundsAssumption, SMTT(30) DEF Crash, Flow
  <2>3. QED BY <2>1, <2>2 DEF ThreadTypes
<1>8. QED BY <1>1, <1>2, <1>3, <1>4, <1>5, <1>6, <1>7 DEF Next

EntryTypes == EntriesOf(disk) /\ EntriesOf(queue) /\ EntriesOf(held)

CountTypes ==
  /\ now \in 1..(MaxLedger + 1)
  /\ deliveries \in 0..MaxDeliveries /\ faults \in 0..MaxFaults
  /\ blind \in 0..MaxBlind /\ crashes \in 0..MaxCrashes

\* A step of processJob keeps the queue's entries.
LEMMA StepEntries ==
  ASSUME TInv, NEW p \in Procs, Step(p)
  PROVE  EntryTypes'
<1> USE DEF EntryTypes
<1>1. CASE Enqueue(p) \/ Resolve(p)
  <2>1. at[p] \in Jobs
    BY <1>1 DEF Enqueue, Resolve, TInv, Flow
  <2>2. TypeOK
    BY DEF TInv
  <2>3. EntriesOf(held)'
    BY <1>1, <2>1, <2>2, DetachTypes DEF Enqueue, Resolve
  <2>4. EntriesOf(queue)' /\ EntriesOf(disk)'
    BY <1>1, <2>1, <2>2, PersistTypes, PutRemoveTypes DEF Enqueue, Resolve, Phases
  <2>5. QED BY <2>3, <2>4
<1>2. CASE MarkAccepted(p)
  <2>1. at[p] \in Jobs /\ TypeOK
    BY <1>2 DEF MarkAccepted, TInv, Flow
  <2>2. EntriesOf(held)'
    BY <1>2, <2>1 DEF MarkAccepted, TypeOK, EntriesOf
  <2>3. CASE at[p] \in DOMAIN queue
    BY <1>2, <2>1, <2>2, <2>3, PersistTypes, PutRemoveTypes DEF MarkAccepted, Phases
  <2>4. CASE at[p] \notin DOMAIN queue
    BY <1>2, <2>1, <2>2, <2>4 DEF MarkAccepted, TypeOK, EntriesOf, storage
  <2>5. QED BY <2>3, <2>4
<1>3. CASE SubmitFailed(p)
  BY <1>3, PersistTypes DEF SubmitFailed, TInv, TypeOK, EntriesOf
<1>4. CASE UNCHANGED <<storage, held>>
  BY <1>4 DEF storage, TInv, TypeOK, EntriesOf
<1>5. QED
  BY <1>1, <1>2, <1>3, <1>4
  DEF Step, CheckJob, CheckHeadroom, acceptJob, reconcileAcceptance, TrySubmit,
      submitPoolWithdraw, Backoff, Record, GiveUp

\* So does a step of the resume pass.
LEMMA ResumeEntries ==
  ASSUME TInv, ResumeStep
  PROVE  EntryTypes'
<1> USE ResumeIsProc DEF EntryTypes
<1>1. TypeOK /\ EntriesOf(NoEntries)
  BY DEF TInv, EntriesOf, NoEntries
<1>2. CASE StartResume \/ PickEntry
  BY <1>1, <1>2 DEF StartResume, PickEntry, storage, TypeOK, EntriesOf
<1>3. CASE EndResume
  BY <1>1, <1>3 DEF EndResume, storage, TypeOK, EntriesOf
<1>4. CASE LookAtEntry
  <2>1. at[Resume] \in Jobs
    BY <1>4 DEF LookAtEntry, TInv, Flow
  <2>2. held' = held \/ held' = NoEntries
    BY <1>4 DEF LookAtEntry, Throw
  <2>3. \/ Persist(remove(at[Resume])) \/ Persist(put(at[Resume], "accepted"))
        \/ UNCHANGED storage
    BY <1>4 DEF LookAtEntry
  <2>4. EntriesOf(held)'
    BY <1>1, <2>2 DEF TypeOK, EntriesOf
  <2>5. EntriesOf(queue)' /\ EntriesOf(disk)'
    <3>1. CASE UNCHANGED storage
      BY <3>1, <1>1 DEF storage, TypeOK, EntriesOf
    <3>2. QED BY <3>1, <2>1, <2>3, <1>1, PersistTypes, PutRemoveTypes DEF Phases
  <2>6. QED BY <2>4, <2>5
<1>5. CASE ResumeAcceptFailed
  <2>1. held' = held \/ held' = NoEntries
    BY <1>5 DEF ResumeAcceptFailed, Throw
  <2>2. QED BY <1>1, <1>5, <2>1, PersistTypes DEF ResumeAcceptFailed, TypeOK, EntriesOf
<1>6. CASE ResumeHeadroom
  <2>1. at[Resume] \in Jobs
    BY <1>6 DEF ResumeHeadroom, TInv, Flow
  <2>2. held' = held \/ held' = NoEntries
    BY <1>6 DEF ResumeHeadroom, Throw
  <2>3. Persist(remove(at[Resume])) \/ UNCHANGED storage
    BY <1>6 DEF ResumeHeadroom
  <2>4. EntriesOf(held)'
    BY <1>1, <2>2 DEF TypeOK, EntriesOf
  <2>5. EntriesOf(queue)' /\ EntriesOf(disk)'
    <3>1. CASE UNCHANGED storage
      BY <3>1, <1>1 DEF storage, TypeOK, EntriesOf
    <3>2. QED BY <3>1, <2>1, <2>3, <1>1, PersistTypes, PutRemoveTypes
  <2>6. QED BY <2>4, <2>5
<1>7. QED BY <1>2, <1>3, <1>4, <1>5, <1>6 DEF ResumeStep

\* So does every step.
LEMMA NextEntries ==
  ASSUME TInv, Next
  PROVE  EntryTypes'
<1>1. CASE Crash
  BY <1>1 DEF Crash, EntryTypes, TInv, TypeOK, EntriesOf, NoEntries
<1>2. CASE UNCHANGED <<storage, held>>
  BY <1>2 DEF storage, EntryTypes, TInv, TypeOK, EntriesOf
<1>3. QED
  BY <1>1, <1>2, StepEntries, ResumeEntries
  DEF Next, Receive, InvokeThrows, Include, OtherStep, CloseLedger

\* Every step keeps the counters in their bounds.
LEMMA NextCounts ==
  ASSUME TInv, Next
  PROVE  CountTypes'
<1> USE EngineBoundsAssumption DEF CountTypes, chain, bounds
<1>1. CountTypes
  BY DEF TInv, TypeOK
<1>2. CASE \E p \in Procs : Step(p)
  <2>1. UNCHANGED <<now, deliveries, faults, crashes>>
    BY <1>2 DEF Step, CheckJob, CheckHeadroom, Enqueue, acceptJob, reconcileAcceptance, MarkAccepted,
      TrySubmit, submitPoolWithdraw, SubmitFailed, Backoff, Resolve, Record, GiveUp
  <2>2. blind' \in {blind, blind + 1} /\ (blind' = blind \/ blind < MaxBlind)
    BY <1>2, SMTT(30) DEF Step, CheckJob, CheckHeadroom, Enqueue, acceptJob, reconcileAcceptance, MarkAccepted,
      TrySubmit, submitPoolWithdraw, SubmitFailed, Backoff, Resolve, Record, GiveUp,
      getJob, hasDeadlineHeadroom
  <2>3. QED BY <1>1, <2>1, <2>2, SMTT(30)
<1>3. CASE ResumeStep
  <2>1. UNCHANGED <<now, deliveries, faults, crashes>>
    BY <1>3 DEF ResumeStep, StartResume, PickEntry, EndResume, LookAtEntry,
      ResumeAcceptFailed, ResumeHeadroom
  <2>2. blind' \in {blind, blind + 1} /\ (blind' = blind \/ blind < MaxBlind)
    BY <1>3 DEF ResumeStep, StartResume, PickEntry, EndResume, LookAtEntry,
      ResumeAcceptFailed, ResumeHeadroom, getJob, hasDeadlineHeadroom
  <2>3. QED BY <1>1, <2>1, <2>2, SMTT(30)
<1>4. CASE \E p \in Handlers, j \in Jobs : Receive(p, j)
  <2>1. deliveries < MaxDeliveries /\ deliveries' = deliveries + 1
        /\ UNCHANGED <<now, faults, blind, crashes>>
    BY <1>4 DEF Receive
  <2>2. QED BY <1>1, <2>1, SMTT(30)
<1>5. CASE \E p \in Procs : InvokeThrows(p)
  <2>1. faults < MaxFaults /\ faults' = faults + 1
        /\ UNCHANGED <<now, deliveries, blind, crashes>>
    BY <1>5 DEF InvokeThrows
  <2>2. QED BY <1>1, <2>1, SMTT(30)
<1>6. CASE (\E tx \in txs : Include(tx)) \/ (\E j \in Jobs : OtherStep(j))
  BY <1>1, <1>6 DEF Include, OtherStep
<1>7. CASE CloseLedger
  BY <1>1, <1>7, SMTT(30) DEF CloseLedger
<1>8. CASE Crash
  BY <1>1, <1>8, SMTT(30) DEF Crash
<1>9. QED BY <1>2, <1>3, <1>4, <1>5, <1>6, <1>7, <1>8 DEF Next

SetTypes ==
  /\ ledger \subseteq Jobs /\ completed \subseteq Jobs /\ unseen \subseteq Jobs
  /\ todo \subseteq Jobs /\ serving \in BOOLEAN

\* Every step keeps the sets of jobs and transactions typed.
LEMMA NextSets ==
  ASSUME TInv, Next
  PROVE  SetTypes'
<1> USE DEF SetTypes
<1>1. SetTypes /\ DOMAIN queue \subseteq Jobs
  BY DEF TInv, TypeOK, EntriesOf
<1>2. CASE \E p \in Procs : Step(p)
  <2>1. PICK p \in Procs : Step(p)
    BY <1>2
  <2>2. CASE Record(p)
    BY <1>1, <2>2 DEF Record, TInv, Flow
  <2>3. CASE UNCHANGED <<ledger, completed, unseen, todo, serving>>
    BY <1>1, <2>3
  <2>4. QED BY <2>1, <2>2, <2>3
    DEF Step, CheckJob, CheckHeadroom, Enqueue, acceptJob, reconcileAcceptance, MarkAccepted,
      TrySubmit, submitPoolWithdraw, SubmitFailed, Backoff, Resolve, Record, GiveUp
<1>3. CASE ResumeStep
  <2>1. CASE LookAtEntry
    <3>1. at[Resume] \in Jobs
      BY <2>1, ResumeIsProc DEF LookAtEntry, TInv, Flow
    <3>2. unseen' = unseen \/ unseen' = unseen \cup {at[Resume]}
      BY <2>1 DEF LookAtEntry
    <3>3. todo' = todo \/ todo' = {}
      BY <2>1 DEF LookAtEntry, Throw
    <3>4. QED BY <1>1, <2>1, <3>1, <3>2, <3>3 DEF LookAtEntry
  <2>2. CASE StartResume \/ PickEntry \/ EndResume
    BY <1>1, <2>2 DEF StartResume, PickEntry, EndResume
  <2>3. CASE ResumeAcceptFailed \/ ResumeHeadroom
    BY <1>1, <2>3 DEF ResumeAcceptFailed, ResumeHeadroom, Throw
  <2>4. QED BY <1>3, <2>1, <2>2, <2>3 DEF ResumeStep
<1>4. CASE Crash
  BY <1>1, <1>4 DEF Crash
<1>5. CASE UNCHANGED <<ledger, completed, unseen, todo, serving>>
  BY <1>1, <1>5
<1>6. QED BY <1>2, <1>3, <1>4, <1>5
  DEF Next, Receive, InvokeThrows, Include, OtherStep, CloseLedger

ChainTypes ==
  /\ status \in [Jobs -> Statuses] /\ owner \in [Jobs -> {Self, Other, Nobody}]
  /\ txs \subseteq Transactions

\* Every step keeps the chain's jobs typed.
LEMMA NextChain ==
  ASSUME TInv, Next
  PROVE  ChainTypes'
<1> USE DEF ChainTypes, chain
<1>1. ChainTypes
  BY DEF TInv, TypeOK
<1>2. CASE \E p \in Procs : acceptJob(p) \/ submitPoolWithdraw(p)
  BY <1>1, <1>2, SendTypes DEF acceptJob, submitPoolWithdraw, TInv, Flow, Early, Labels
<1>3. CASE \E tx \in txs : Include(tx)
  BY <1>1, <1>3, WaitingFor, SMTT(30) DEF Include, Statuses
<1>4. CASE \E j \in Jobs : OtherStep(j)
  BY <1>1, <1>4 DEF OtherStep, Statuses
<1>5. CASE \E p \in Procs : InvokeThrows(p)
  BY <1>1, <1>5 DEF InvokeThrows
<1>6. CASE UNCHANGED <<status, owner, txs>>
  BY <1>1, <1>6
<1>7. QED BY <1>2, <1>3, <1>4, <1>5, <1>6, SMTT(30)
  DEF Next, Step, CheckJob, CheckHeadroom, Enqueue, acceptJob, reconcileAcceptance, MarkAccepted,
      TrySubmit, submitPoolWithdraw, SubmitFailed, Backoff, Resolve, Record, GiveUp,
      Receive, ResumeStep, StartResume, PickEntry, EndResume, LookAtEntry,
      ResumeAcceptFailed, ResumeHeadroom, CloseLedger, Crash

\* Every step is well typed.
LEMMA NextTypes == TInv /\ [Next]_vars => TInv'
<1>1. ASSUME TInv, Next PROVE TInv'
  BY <1>1, OtherThreads, NextEntries, NextCounts, NextSets, NextChain, TInvPartsPrime
  DEF DataTypes, EntryTypes, CountTypes, SetTypes, ChainTypes
<1>2. ASSUME TInv, UNCHANGED vars PROVE TInv'
  BY <1>2 DEF vars, chain, storage, threads, bounds, TInv, TypeOK, Flow, EntriesOf
<1>3. QED BY <1>1, <1>2

\* The engine keeps its types: no delivery, pass, late transaction or crash
\* leaves a process at a place without a job, or past its last attempt
\* (engine.ts submitWithRetry, resumeAcceptedJobs).
THEOREM EngineTypes == Spec => []TypeOK
<1>1. TInv => TypeOK
  BY DEF TInv
<1>2. QED BY <1>1, InitTypes, NextTypes, PTL DEF Spec

-----------------------------------------------------------------------------
(* The invariant of the bonds.                                             *)

\* An accept_job for j, if it succeeds now, finds its entry on disk.
Covered(j) == j \in DOMAIN disk \/ status[j] # "open" \/ j \in unseen

\* What a process has established when it is at a label.
Knows(p) ==
  /\ pc[p] = "accept" => Covered(at[p])
  /\ pc[p] \in {"mark", "resume_headroom"} => status[at[p]] # "open"
  /\ pc[p] \in {"resolve", "record"} => status[at[p]] = "submitted"

\* The resume pass can find the phase of each entry it has yet to look at.
PassHolds ==
  /\ todo \subseteq DOMAIN queue \cup DOMAIN held
  /\ pc[Resume] = "look" => at[Resume] \in DOMAIN queue \cup DOMAIN held
  /\ pc[Resume] \notin {"idle", "pick"} => at[Resume] \notin todo
  /\ \A j \in DOMAIN held : Covered(j)

MarksAreTrue ==
  /\ \A j \in DOMAIN queue : queue[j] = "accepted" => status[j] # "open"
  /\ \A j \in DOMAIN held : held[j] = "accepted" => status[j] # "open"

BInv ==
  /\ TInv
  /\ queue = disk
  /\ MarksAreTrue
  /\ PassHolds
  /\ \A p \in Procs : Knows(p)
  /\ \A tx \in txs : tx.kind = "accept" => Covered(tx.job)
  /\ BondIsOnDisk
  /\ CompletedIsSubmitted

\* A job never reopens, a submission is final, and time does not run back.
LEMMA OnlyForward ==
  ASSUME TInv, Next, NEW j \in Jobs
  PROVE  /\ status[j] # "open" => status'[j] # "open"
         /\ status[j] = "submitted" => status'[j] = "submitted"
         /\ j \in unseen => j \in unseen'
         /\ HasHeadroom(j)' => HasHeadroom(j)
<1>1. /\ status[j] # "open" => status'[j] # "open"
      /\ status[j] = "submitted" => status'[j] = "submitted"
  <2>1. CASE \E tx \in txs : Include(tx)
    BY <2>1, WaitingFor, SMTT(30) DEF Include, Accepts, TInv, TypeOK
  <2>2. CASE \E k \in Jobs : OtherStep(k)
    BY <2>2 DEF OtherStep, TInv, TypeOK
  <2>3. CASE UNCHANGED status
    BY <2>3
  <2>4. QED BY <2>1, <2>2, <2>3
    DEF Next, Step, CheckJob, CheckHeadroom, Enqueue, acceptJob, reconcileAcceptance, MarkAccepted,
      TrySubmit, submitPoolWithdraw, SubmitFailed, Backoff, Resolve, Record, GiveUp,
      ResumeStep, StartResume, PickEntry, EndResume, LookAtEntry, ResumeAcceptFailed,
      ResumeHeadroom, Receive, InvokeThrows, CloseLedger, Crash, chain
<1>2. j \in unseen => j \in unseen'
  BY DEF Next, Step, CheckJob, CheckHeadroom, Enqueue, acceptJob, reconcileAcceptance, MarkAccepted,
      TrySubmit, submitPoolWithdraw, SubmitFailed, Backoff, Resolve, Record, GiveUp,
      ResumeStep, StartResume, PickEntry, EndResume, LookAtEntry, ResumeAcceptFailed,
      ResumeHeadroom, Receive, InvokeThrows, CloseLedger, Crash, Include, OtherStep
<1>3. now' = now \/ now' = now + 1
  BY DEF Next, Step, CheckJob, CheckHeadroom, Enqueue, acceptJob, reconcileAcceptance, MarkAccepted,
      TrySubmit, submitPoolWithdraw, SubmitFailed, Backoff, Resolve, Record, GiveUp,
      ResumeStep, StartResume, PickEntry, EndResume, LookAtEntry, ResumeAcceptFailed,
      ResumeHeadroom, Receive, InvokeThrows, CloseLedger, Crash, Include, OtherStep, chain
<1>4. HasHeadroom(j)' => HasHeadroom(j)
  BY <1>3, EngineBoundsAssumption, SMTT(30) DEF HasHeadroom, TInv, TypeOK
<1>5. QED BY <1>1, <1>2, <1>4

\* An entry that leaves the queue is that of a job that is taken, and not
\* bonded unless its time is up; or of a job the pass failed to read.
Released(j) ==
  \/ j \in unseen'
  \/ status[j] # "open" /\ (Bonded(j) => ~HasHeadroom(j))

\* An entry leaves the queue only when its job is released, and never in a step
\* of the chain.
LEMMA QueueSteps ==
  ASSUME SaveWorks, BInv, Next
  PROVE  /\ queue' = disk'
         /\ queue' # queue => UNCHANGED chain
         /\ \A j \in DOMAIN queue \ DOMAIN queue' : Released(j)
         /\ \A j \in DOMAIN queue' : queue'[j] = "accepted" => status[j] # "open"
         /\ DOMAIN queue' \subseteq Jobs
<1> DEFINE Goal == /\ queue' = disk'
                   /\ queue' # queue => UNCHANGED chain
                   /\ \A j \in DOMAIN queue \ DOMAIN queue' : Released(j)
                   /\ \A j \in DOMAIN queue' : queue'[j] = "accepted" => status[j] # "open"
                   /\ DOMAIN queue' \subseteq Jobs
<1>1. /\ queue = disk /\ DOMAIN queue \subseteq Jobs
      /\ \A j \in DOMAIN queue : queue[j] = "accepted" => status[j] # "open"
  BY DEF BInv, MarksAreTrue, TInv, TypeOK, EntriesOf
<1>2. ASSUME UNCHANGED storage PROVE Goal
  BY <1>1, <1>2 DEF storage
<1>3. ASSUME Persist(queue) PROVE Goal
  BY <1>1, <1>3 DEF Persist
<1>4. ASSUME NEW k \in Jobs, NEW phase, Persist(put(k, phase)), UNCHANGED chain,
             phase = "accepted" => status[k] # "open"
      PROVE  Goal
  BY <1>1, <1>4 DEF Persist, put
<1>5. ASSUME NEW k \in Jobs, Persist(remove(k)), UNCHANGED chain, Released(k)
      PROVE  Goal
  BY <1>1, <1>5 DEF Persist, remove
<1>6. CASE \E p \in Procs : Step(p)
  <2>1. PICK p \in Procs : Step(p)
    BY <1>6
  <2>2. CASE Enqueue(p)
    BY <2>2, <1>4 DEF Enqueue, BInv, TInv, Flow
  <2>3. CASE MarkAccepted(p)
    <3>1. at[p] \in Jobs /\ status[at[p]] # "open"
      BY <2>3 DEF MarkAccepted, BInv, TInv, Flow, Knows
    <3>2. QED BY <2>3, <3>1, <1>2, <1>4 DEF MarkAccepted
  <2>4. CASE Resolve(p)
    <3>1. at[p] \in Jobs /\ status[at[p]] = "submitted"
      BY <2>4 DEF Resolve, BInv, TInv, Flow, Knows
    <3>2. QED BY <2>4, <3>1, <1>5 DEF Resolve, Released, Bonded
  <2>5. CASE SubmitFailed(p)
    BY <2>5, <1>3 DEF SubmitFailed
  <2>6. CASE UNCHANGED storage
    BY <2>6, <1>2
  <2>7. QED BY <2>1, <2>2, <2>3, <2>4, <2>5, <2>6
    DEF Step, CheckJob, CheckHeadroom, Enqueue, acceptJob, reconcileAcceptance, MarkAccepted,
      TrySubmit, submitPoolWithdraw, SubmitFailed, Backoff, Resolve, Record, GiveUp
<1>7. CASE LookAtEntry
  <2>1. at[Resume] \in Jobs /\ UNCHANGED chain
    BY <1>7, ResumeIsProc DEF LookAtEntry, BInv, TInv, Flow
  <2>2. PICK s \in Reads :
          /\ s = status[at[Resume]] \/ s = "unknown"
          /\ \/ s = "submitted" /\ Persist(remove(at[Resume]))
             \/ UNCHANGED storage
             \/ s = "accepted" /\ Persist(put(at[Resume], "accepted"))
             \/ /\ s \notin {"submitted", "open"}
                /\ ~(s = "accepted" /\ owner[at[Resume]] = Self)
                /\ s = "unknown" => at[Resume] \in unseen'
                /\ Persist(remove(at[Resume]))
    BY <1>7 DEF LookAtEntry, getJob
  <2>3. CASE s = "submitted" /\ Persist(remove(at[Resume]))
    BY <2>1, <2>2, <2>3, <1>5 DEF Released, Bonded
  <2>4. CASE s = "accepted" /\ Persist(put(at[Resume], "accepted"))
    BY <2>1, <2>2, <2>4, <1>4
  <2>5. CASE /\ s \notin {"submitted", "open"}
             /\ ~(s = "accepted" /\ owner[at[Resume]] = Self)
             /\ s = "unknown" => at[Resume] \in unseen'
             /\ Persist(remove(at[Resume]))
    BY <2>1, <2>2, <2>5, <1>5 DEF Released, Bonded
  <2>6. QED BY <2>2, <2>3, <2>4, <2>5, <1>2
<1>8. CASE ResumeHeadroom
  <2>1. at[Resume] \in Jobs /\ status[at[Resume]] # "open" /\ UNCHANGED chain
    BY <1>8, ResumeIsProc DEF ResumeHeadroom, BInv, TInv, Flow, Knows
  <2>2. \/ UNCHANGED storage
        \/ ~HasHeadroom(at[Resume]) /\ Persist(remove(at[Resume]))
    BY <1>8 DEF ResumeHeadroom, hasDeadlineHeadroom
  <2>3. QED BY <2>1, <2>2, <1>2, <1>5 DEF Released
<1>9. CASE ResumeAcceptFailed
  BY <1>9, <1>3 DEF ResumeAcceptFailed
<1>10. CASE Crash
  BY <1>10, <1>1 DEF Crash
<1>11. CASE UNCHANGED storage
  BY <1>11, <1>2
<1>12. QED BY <1>6, <1>7, <1>8, <1>9, <1>10, <1>11
  DEF Next, ResumeStep, StartResume, PickEntry, EndResume, Receive, InvokeThrows,
      Include, OtherStep, CloseLedger

\* A job that is covered stays covered.
LEMMA StaysCovered ==
  ASSUME SaveWorks, BInv, Next, NEW j \in Jobs, Covered(j)
  PROVE  Covered(j)'
<1>1. TInv /\ queue = disk
  BY DEF BInv
<1>2. QED BY <1>1, QueueSteps, OnlyForward DEF Covered, Released

\* A job becomes bonded only through an accept_job that is under way.
LEMMA NewBonds ==
  ASSUME TInv, Next, NEW j \in Jobs, Bonded(j)', ~Bonded(j)
  PROVE  /\ \E tx \in txs : tx.kind = "accept" /\ tx.job = j
         /\ status[j] = "open" /\ UNCHANGED <<storage, unseen>>
<1>1. CASE \E tx \in txs : Include(tx)
  BY <1>1, WaitingFor, SMTT(30) DEF Include, Accepts, Bonded, TInv, TypeOK
<1>2. CASE \E k \in Jobs : OtherStep(k)
  BY <1>2 DEF OtherStep, Bonded, TInv, TypeOK, Self, Other
<1>3. CASE UNCHANGED <<status, owner>>
  BY <1>3 DEF Bonded
<1>4. QED BY <1>1, <1>2, <1>3
  DEF Next, Step, CheckJob, CheckHeadroom, Enqueue, acceptJob, reconcileAcceptance, MarkAccepted,
      TrySubmit, submitPoolWithdraw, SubmitFailed, Backoff, Resolve, Record, GiveUp,
      ResumeStep, StartResume, PickEntry, EndResume, LookAtEntry, ResumeAcceptFailed,
      ResumeHeadroom, Receive, InvokeThrows, CloseLedger, Crash, chain

\* A job the chain takes was covered: its bond is on disk.
LEMMA StepBonds ==
  ASSUME SaveWorks, BInv, Next
  PROVE  BondIsOnDisk'
<1> SUFFICES ASSUME NEW j \in Jobs, Bonded(j)', HasHeadroom(j)', j \notin unseen'
             PROVE  j \in DOMAIN disk'
  BY DEF BondIsOnDisk
<1>1. TInv /\ queue = disk /\ HasHeadroom(j) /\ j \notin unseen
  BY OnlyForward DEF BInv
<1>2. CASE Bonded(j)
  <2>1. j \in DOMAIN queue
    BY <1>1, <1>2 DEF BInv, BondIsOnDisk
  <2>2. ~Released(j)
    BY <1>1, <1>2 DEF Released
  <2>3. QED BY <2>1, <2>2, QueueSteps
<1>3. CASE ~Bonded(j)
  BY <1>1, <1>3, NewBonds, SMTT(30) DEF BInv, Covered, storage
<1>4. QED BY <1>2, <1>3

\* accept_job is only sent for a job that is covered.
LEMMA StepTransactions ==
  ASSUME SaveWorks, BInv, Next
  PROVE  \A tx \in txs' : tx.kind = "accept" => Covered(tx.job)'
<1> SUFFICES ASSUME NEW tx \in txs', tx.kind = "accept" PROVE Covered(tx.job)'
  OBVIOUS
<1>1. TInv
  BY DEF BInv
<1>2. CASE tx \in txs
  BY <1>1, <1>2, WaitingFor, StaysCovered DEF BInv
<1>3. CASE tx \notin txs
  <2>1. PICK p \in Procs : acceptJob(p) \/ submitPoolWithdraw(p)
    BY <1>3 DEF Next, Step, CheckJob, CheckHeadroom, Enqueue, acceptJob, reconcileAcceptance, MarkAccepted,
      TrySubmit, submitPoolWithdraw, SubmitFailed, Backoff, Resolve, Record, GiveUp,
      ResumeStep, StartResume, PickEntry, EndResume, LookAtEntry, ResumeAcceptFailed,
      ResumeHeadroom, Receive, InvokeThrows, CloseLedger, Crash, Include, OtherStep
  <2>2. tx = mytx'[p]
    BY <2>1, <1>3 DEF acceptJob, submitPoolWithdraw, Send
  <2>3. acceptJob(p) /\ tx.job = at[p]
    BY <2>1, <2>2, <1>1, SMTT(30) DEF acceptJob, submitPoolWithdraw, Send, TInv, TypeOK
  <2>4. Covered(at[p]) /\ at[p] \in Jobs
    BY <2>3, <1>1 DEF acceptJob, BInv, Knows, TInv, Flow
  <2>5. QED BY <2>3, <2>4, StaysCovered
<1>4. QED BY <1>2, <1>3

\* A job is counted as completed once it was submitted.
LEMMA StepCompleted ==
  ASSUME BInv, Next
  PROVE  CompletedIsSubmitted'
<1>1. TInv /\ CompletedIsSubmitted /\ ledger \cup completed \subseteq Jobs
  BY DEF BInv, TInv, TypeOK
<1>2. CASE \E p \in Procs : Record(p)
  <2>1. PICK p \in Procs : Record(p)
    BY <1>2
  <2>2. at[p] \in Jobs /\ status[at[p]] = "submitted"
    BY <2>1 DEF Record, BInv, Knows, TInv, Flow
  <2>3. QED BY <1>1, <2>1, <2>2 DEF Record, CompletedIsSubmitted, chain
<1>3. CASE ledger' \subseteq ledger /\ completed' = completed
  BY <1>1, <1>3, OnlyForward DEF CompletedIsSubmitted
<1>4. QED BY <1>2, <1>3
  DEF Next, Step, CheckJob, CheckHeadroom, Enqueue, acceptJob, reconcileAcceptance, MarkAccepted,
      TrySubmit, submitPoolWithdraw, SubmitFailed, Backoff, Resolve, Record, GiveUp,
      ResumeStep, StartResume, PickEntry, EndResume, LookAtEntry, ResumeAcceptFailed,
      ResumeHeadroom, Receive, InvokeThrows, CloseLedger, Crash, Include, OtherStep

\* How the entries held by the pass change.
LEMMA HeldSteps ==
  ASSUME Next
  PROVE  \/ UNCHANGED <<held, todo>>
         \/ pc[Resume] = "pick" /\ todo' \subseteq todo /\ held' = held
         \/ /\ Throw(Resume) \/ EndResume \/ Crash
            /\ todo' = {} /\ held' = NoEntries
         \/ pc[Resume] = "idle" /\ todo' = DOMAIN queue
               /\ UNCHANGED <<held, storage>>
         \/ \E p \in Procs : (Enqueue(p) \/ Resolve(p)) /\ Detach(at[p]) /\ todo' = todo
<1>1. CASE \E p \in Procs : Step(p)
  BY <1>1 DEF Step, CheckJob, CheckHeadroom, Enqueue, acceptJob,
     reconcileAcceptance, MarkAccepted, TrySubmit, submitPoolWithdraw, SubmitFailed,
     Backoff, Resolve, Record, GiveUp, Throw
<1>2. CASE ResumeStep
  <2>1. CASE EndResume
    BY <2>1 DEF EndResume
  <2>2. CASE PickEntry
    BY <2>2 DEF PickEntry
  <2>3. CASE StartResume
    BY <2>3 DEF StartResume
  <2>4. CASE LookAtEntry \/ ResumeAcceptFailed \/ ResumeHeadroom
    BY <2>4 DEF LookAtEntry, ResumeAcceptFailed, ResumeHeadroom, Throw
  <2>5. QED BY <1>2, <2>1, <2>2, <2>3, <2>4 DEF ResumeStep
<1>3. CASE Crash
  BY <1>3 DEF Crash
<1>4. QED BY <1>1, <1>2, <1>3
  DEF Next, Receive, InvokeThrows, Include, OtherStep, CloseLedger

\* An entry is marked accepted once the job is no longer open.
LEMMA StepMarks ==
  ASSUME SaveWorks, BInv, Next
  PROVE  MarksAreTrue'
<1>1. TInv /\ MarksAreTrue /\ DOMAIN held \subseteq Jobs /\ DOMAIN queue \subseteq Jobs
  BY DEF BInv, TInv, TypeOK, EntriesOf
<1>2. \A j \in DOMAIN queue' : queue'[j] = "accepted" => status'[j] # "open"
  BY <1>1, QueueSteps, OnlyForward
<1>3. \A j \in DOMAIN held' : held'[j] = "accepted" => status'[j] # "open"
  <2>1. CASE held' = held
    BY <2>1, <1>1, OnlyForward DEF MarksAreTrue
  <2>2. CASE held' = NoEntries
    BY <2>2 DEF NoEntries
  <2>3. CASE \E p \in Procs : Detach(at[p])
    BY <2>3, <1>1, OnlyForward, SMTT(30) DEF Detach, MarksAreTrue
  <2>4. QED BY <2>1, <2>2, <2>3, HeldSteps
<1>4. QED BY <1>2, <1>3 DEF MarksAreTrue

\* What a process knows of its job stays true while others move.
LEMMA KnowsStays ==
  ASSUME SaveWorks, BInv, Next, NEW q \in Procs, pc'[q] = pc[q], at'[q] = at[q]
  PROVE  Knows(q)'
<1>1. TInv /\ Knows(q)
  BY DEF BInv
<1>2. CASE pc[q] \in {"accept", "mark", "resume_headroom", "resolve", "record"}
  <2>1. at[q] \in Jobs
    BY <1>1, <1>2 DEF TInv, Flow
  <2>2. pc[q] = "accept" => Covered(at[q])'
    BY <1>1, <2>1, StaysCovered DEF Knows
  <2>3. QED BY <1>1, <2>1, <2>2, OnlyForward DEF Knows, Covered
<1>3. CASE pc[q] \notin {"accept", "mark", "resume_headroom", "resolve", "record"}
  BY <1>3 DEF Knows
<1>4. QED BY <1>2, <1>3

\* A delivery, or the resume pass on a job, goes on to a place of that job.
LEMMA StepMoves ==
  ASSUME NEW p \in Procs, Step(p)
  PROVE  /\ pc[p] \notin {"idle", "pick"}
         /\ \/ \E label : Goto(p, label) /\ label # "look"
            \/ \E kind : Send(p, kind)
            \/ TrySubmit(p)
<1>1. pc[p] \notin {"idle", "pick"}
  BY DEF Step, CheckJob, CheckHeadroom, Enqueue, acceptJob, reconcileAcceptance,
     MarkAccepted, TrySubmit, submitPoolWithdraw, SubmitFailed, Backoff, Resolve,
     Record, GiveUp
<1>2. \/ \E label : Goto(p, label) /\ label # "look"
      \/ \E kind : Send(p, kind)
      \/ TrySubmit(p)
  BY SMTT(30) DEF Step, CheckJob, CheckHeadroom, Enqueue, acceptJob, reconcileAcceptance,
     MarkAccepted, submitPoolWithdraw, SubmitFailed, Backoff, Resolve, Record, GiveUp,
     Throw, Done
<1>3. QED BY <1>1, <1>2

\* Only the process that acts moves.
LEMMA OthersStay ==
  ASSUME TInv, NEW p \in Procs, NEW q \in Procs, q # p,
         Step(p) \/ InvokeThrows(p) \/ (p = Resume /\ ResumeStep)
  PROVE  pc'[q] = pc[q] /\ at'[q] = at[q]
<1>1. CASE Step(p)
  BY <1>1, StepMoves, SMTT(30) DEF Goto, Send, TrySubmit, TInv, TypeOK
<1>2. CASE InvokeThrows(p)
  BY <1>2 DEF InvokeThrows, TInv, TypeOK
<1>3. CASE p = Resume /\ ResumeStep
  BY <1>3 DEF ResumeStep, StartResume, PickEntry, EndResume, LookAtEntry,
     ResumeAcceptFailed, ResumeHeadroom, Throw, Goto, TInv, TypeOK
<1>4. QED BY <1>1, <1>2, <1>3

-----------------------------------------------------------------------------
(* What the processes know, and the invariant as a whole.                  *)

\* The process that acts establishes what it has to know.
LEMMA ActorKnows ==
  ASSUME SaveWorks, BInv, Next, NEW p \in Procs, Step(p)
  PROVE  Knows(p)'
<1>1. TInv /\ Knows(p) /\ pc \in [Procs -> Labels] /\ at \in [Procs -> Jobs \cup {NoJob}]
  BY DEF BInv, TInv, TypeOK
<1>2. CASE Enqueue(p)
  <2>1. pc'[p] = "accept" /\ at'[p] = at[p]
    BY <1>1, <1>2 DEF Enqueue, Goto
  <2>2. at[p] \in DOMAIN disk'
    BY <1>2 DEF Enqueue, Persist, put
  <2>3. QED BY <2>1, <2>2 DEF Knows, Covered
<1>3. CASE reconcileAcceptance(p)
  <2>1. \/ pc'[p] = "idle"
        \/ /\ pc'[p] = "mark" /\ at'[p] = at[p]
           /\ status[at[p]] = "accepted" /\ status' = status
    BY <1>1, <1>3 DEF reconcileAcceptance, Goto, getJob, chain
  <2>2. QED BY <2>1 DEF Knows
<1>4. CASE MarkAccepted(p)
  <2>1. \/ pc'[p] \in {"submit", "accept_failed", "idle"}
        \/ pc'[p] = "resume_headroom" /\ at'[p] = at[p]
    BY <1>1, <1>4 DEF MarkAccepted, Goto
  <2>2. status[at[p]] # "open" /\ status' = status
    BY <1>1, <1>4 DEF MarkAccepted, Knows, chain
  <2>3. QED BY <2>1, <2>2 DEF Knows
<1>5. CASE TrySubmit(p)
  <2>1. \/ pc'[p] \in {"send", "failed"}
        \/ /\ pc'[p] = "resolve" /\ at'[p] = at[p]
           /\ status[at[p]] = "submitted" /\ status' = status
    BY <1>1, <1>5 DEF TrySubmit, getJob, chain
  <2>2. QED BY <2>1 DEF Knows
<1>6. CASE SubmitFailed(p)
  <2>1. \/ pc'[p] \in {"gave_up", "backoff"}
        \/ /\ pc'[p] = "resolve" /\ at'[p] = at[p]
           /\ status[at[p]] = "submitted" /\ status' = status
    BY <1>1, <1>6 DEF SubmitFailed, Goto, getJob, chain
  <2>2. QED BY <2>1 DEF Knows
<1>7. CASE Resolve(p)
  <2>1. /\ pc'[p] = "record" /\ at'[p] = at[p]
        /\ status[at[p]] = "submitted" /\ status' = status
    BY <1>1, <1>7 DEF Resolve, Goto, Knows, chain
  <2>2. QED BY <2>1 DEF Knows
<1>8. CASE CheckJob(p) \/ CheckHeadroom(p) \/ Backoff(p)
  <2>1. pc'[p] \in {"headroom", "idle", "enqueue", "submit", "gave_up"}
    BY <1>1, <1>8 DEF CheckJob, CheckHeadroom, Backoff, Goto
  <2>2. QED BY <2>1 DEF Knows
<1>9. CASE acceptJob(p) \/ submitPoolWithdraw(p) \/ Record(p) \/ GiveUp(p)
  <2>1. pc'[p] \in {"await", "idle", "pick"}
    BY <1>1, <1>9 DEF acceptJob, submitPoolWithdraw, Record, GiveUp, Send, Goto, Done
  <2>2. QED BY <2>1 DEF Knows
<1>10. QED BY <1>2, <1>3, <1>4, <1>5, <1>6, <1>7, <1>8, <1>9 DEF Step

\* The resume pass knows what it has read.
LEMMA PassKnows ==
  ASSUME SaveWorks, BInv, Next, ResumeStep
  PROVE  Knows(Resume)'
<1>1. /\ TInv /\ Knows(Resume) /\ pc \in [Procs -> Labels]
      /\ at \in [Procs -> Jobs \cup {NoJob}]
  BY ResumeIsProc DEF BInv, TInv, TypeOK
<1>2. CASE LookAtEntry
  <2>1. at[Resume] \in Jobs /\ at[Resume] \in DOMAIN queue \cup DOMAIN held /\ status' = status
    BY <1>1, <1>2, ResumeIsProc DEF LookAtEntry, TInv, Flow, BInv, PassHolds, chain
  <2>2. \/ pc'[Resume] \in {"pick", "idle"}
        \/ /\ pc'[Resume] = "record" /\ at'[Resume] = at[Resume]
           /\ status[at[Resume]] = "submitted"
        \/ /\ pc'[Resume] = "resume_headroom" /\ at'[Resume] = at[Resume]
           /\ phaseOf(at[Resume]) = "accepted" \/ status[at[Resume]] = "accepted"
        \/ pc'[Resume] = "accept" /\ at'[Resume] = at[Resume]
    <3> DEFINE j == at[Resume]
    <3>1. \A label : Goto(Resume, label) =>
            /\ pc'[Resume] = label
            /\ label \notin {"idle", "pick"} => at'[Resume] = at[Resume]
      BY <1>1, ResumeIsProc DEF Goto
    <3>2. Throw(Resume) => pc'[Resume] = "idle"
      BY <3>1 DEF Throw
    <3>3. \/ status[j] = "submitted" /\ (Goto(Resume, "record") \/ Throw(Resume))
          \/ phaseOf(j) = "accepted" /\ Goto(Resume, "resume_headroom")
          \/ /\ status[j] = "accepted"
             /\ Goto(Resume, "resume_headroom") \/ Throw(Resume)
          \/ Goto(Resume, "accept")
          \/ Goto(Resume, "pick") \/ Throw(Resume)
      BY <1>2 DEF LookAtEntry, getJob
    <3> QED BY <3>1, <3>2, <3>3
  <2>3. phaseOf(at[Resume]) = "accepted" => status[at[Resume]] # "open"
    BY <2>1 DEF phaseOf, BInv, MarksAreTrue
  <2>4. Covered(at[Resume])
    BY <2>1 DEF BInv, PassHolds, Covered
  <2>5. Covered(at[Resume])'  \/ at'[Resume] # at[Resume]
    BY <2>1, <2>4, StaysCovered DEF Covered
  <2>6. QED BY <2>1, <2>2, <2>3, <2>5 DEF Knows
<1>3. CASE ~LookAtEntry
  <2>1. pc'[Resume] \in {"pick", "idle", "look", "submit"}
    BY <1>1, <1>3, ResumeIsProc DEF ResumeStep, StartResume, PickEntry, EndResume,
       ResumeAcceptFailed, ResumeHeadroom, Throw, Goto
  <2>2. QED BY <2>1 DEF Knows
<1>4. QED BY <1>2, <1>3

\* Every process knows what it has read.
LEMMA StepKnows ==
  ASSUME SaveWorks, BInv, Next, NEW q \in Procs
  PROVE  Knows(q)'
<1>1. TInv /\ pc \in [Procs -> Labels] /\ at \in [Procs -> Jobs \cup {NoJob}]
      /\ status \in [Jobs -> Statuses]
  BY DEF BInv, TInv, TypeOK
<1>2. CASE pc'[q] = pc[q] /\ at'[q] = at[q]
  BY <1>2, KnowsStays
<1>3. CASE \E p \in Procs : Step(p)
  BY <1>1, <1>2, <1>3, OthersStay, ActorKnows
<1>4. CASE ResumeStep
  BY <1>1, <1>2, <1>4, OthersStay, PassKnows, ResumeIsProc
<1>5. CASE \E p \in Procs : InvokeThrows(p)
  <2>1. PICK p \in Procs : InvokeThrows(p)
    BY <1>5
  <2>2. CASE q = p
    <3>1. pc'[q] \in {"accept_failed", "reconcile", "failed"}
      BY <1>1, <2>1, <2>2, AfterTxTypes DEF InvokeThrows
    <3>2. QED BY <3>1 DEF Knows
  <2>3. QED BY <1>1, <1>2, <2>1, <2>2, OthersStay
<1>6. CASE \E p \in Handlers, j \in Jobs : Receive(p, j)
  <2>1. PICK p \in Handlers, j \in Jobs : Receive(p, j)
    BY <1>6
  <2>2. pc'[q] = "check" \/ (pc'[q] = pc[q] /\ at'[q] = at[q])
    BY <1>1, <2>1 DEF Receive
  <2>3. QED BY <1>2, <2>2 DEF Knows
<1>7. CASE \E tx \in txs : Include(tx)
  <2>1. PICK tx \in txs : Include(tx)
    BY <1>7
  <2>2. at'[q] = at[q]
    BY <2>1 DEF Include
  <2>3. CASE pc'[q] # pc[q]
    <3>1. q = tx.by /\ mytx[q] = tx /\ pc'[q] = AfterTx(q, Accepts(tx))
      BY <1>1, <2>1, <2>3, WaitingFor, SMTT(30) DEF Include
    <3>2. tx.job = at[q] /\ tx.job \in Jobs /\ Accepts(tx) \in BOOLEAN
      BY <1>1, <3>1, WaitingFor DEF Accepts
    <3>3. CASE pc'[q] \in {"mark", "resolve"}
      <4>1. Accepts(tx) /\ (pc'[q] = "mark" <=> tx.kind = "accept")
            /\ (pc'[q] = "resolve" <=> tx.kind = "submit")
        BY <3>1, <3>2, <3>3, AfterTxTypes, SMTT(30)
      <4>2. status'[at[q]] = IF tx.kind = "accept" THEN "accepted" ELSE "submitted"
        BY <1>1, <2>1, <3>2, <4>1 DEF Include
      <4>3. QED BY <2>2, <3>3, <4>1, <4>2 DEF Knows
    <3>4. CASE pc'[q] \in {"accept_failed", "reconcile", "failed"}
      BY <3>4 DEF Knows
    <3>5. QED BY <3>1, <3>2, <3>3, <3>4, AfterTxTypes
  <2>4. QED BY <1>2, <2>2, <2>3
<1>8. CASE (\E j \in Jobs : OtherStep(j)) \/ CloseLedger
  BY <1>2, <1>8 DEF OtherStep, CloseLedger, threads
<1>9. CASE Crash
  BY <1>9 DEF Crash, Knows
<1>10. QED BY <1>3, <1>4, <1>5, <1>6, <1>7, <1>8, <1>9 DEF Next

\* Where the resume pass goes, seen from the pass.
LEMMA PassMoves ==
  ASSUME TInv, Next
  PROVE  \/ pc'[Resume] \in {"idle", "pick"}
         \/ PickEntry
         \/ /\ at'[Resume] = at[Resume]
            /\ pc[Resume] \notin {"idle", "pick"}
            /\ pc'[Resume] = "look" => pc[Resume] = "look"
<1>1. pc \in [Procs -> Labels] /\ at \in [Procs -> Jobs \cup {NoJob}]
  BY DEF TInv, TypeOK
<1>2. CASE pc'[Resume] = pc[Resume] /\ at'[Resume] = at[Resume]
  BY <1>2
<1>3. CASE \E p \in Procs : Step(p)
  <2>1. CASE Step(Resume)
    BY <1>1, <2>1, StepMoves, ResumeIsProc, SMTT(30) DEF Goto, Send, TrySubmit
  <2>2. QED BY <1>2, <1>3, <2>1, OthersStay, ResumeIsProc
<1>4. CASE ResumeStep
  BY <1>1, <1>4, ResumeIsProc
  DEF ResumeStep, StartResume, EndResume, LookAtEntry, ResumeAcceptFailed,
      ResumeHeadroom, Throw, Goto
<1>5. CASE \E p \in Procs : InvokeThrows(p)
  <2>1. CASE InvokeThrows(Resume)
    BY <1>1, <2>1, ResumeIsProc, AfterTxTypes DEF InvokeThrows
  <2>2. QED BY <1>2, <1>5, <2>1, OthersStay, ResumeIsProc
<1>6. CASE \E p \in Handlers, j \in Jobs : Receive(p, j)
  BY <1>1, <1>2, <1>6, EngineProcessesAssumption DEF Receive
<1>7. CASE \E tx \in txs : Include(tx)
  <2>1. PICK tx \in txs : Include(tx)
    BY <1>7
  <2>2. Accepts(tx) \in BOOLEAN
    BY DEF Accepts
  <2>3. QED BY <1>1, <1>2, <2>1, <2>2, ResumeIsProc, WaitingFor, AfterTxTypes, SMTT(30) DEF Include
<1>8. CASE (\E j \in Jobs : OtherStep(j)) \/ CloseLedger
  BY <1>2, <1>8 DEF OtherStep, CloseLedger, threads
<1>9. CASE Crash
  BY <1>9, ResumeIsProc DEF Crash
<1>10. QED BY <1>3, <1>4, <1>5, <1>6, <1>7, <1>8, <1>9 DEF Next

\* Who removes an entry.
LEMMA Removals ==
  ASSUME Next, ~Crash, NEW j \in DOMAIN queue, j \notin DOMAIN queue'
  PROVE  \/ \E p \in Procs : Resolve(p) /\ at[p] = j
         \/ LookAtEntry /\ at[Resume] = j
         \/ ResumeHeadroom /\ at[Resume] = j
<1> USE DEF Persist, put, remove, storage
<1>1. CASE \E p \in Procs : Step(p)
  <2>1. PICK p \in Procs : Step(p)
    BY <1>1
  <2>2. CASE Resolve(p)
    BY <2>2 DEF Resolve
  <2>3. CASE Enqueue(p)
    BY <2>3 DEF Enqueue
  <2>4. CASE MarkAccepted(p) \/ SubmitFailed(p)
    BY <2>4 DEF MarkAccepted, SubmitFailed
  <2>5. CASE UNCHANGED storage
    BY <2>5
  <2>6. QED BY <2>1, <2>2, <2>3, <2>4, <2>5
    DEF Step, CheckJob, CheckHeadroom, acceptJob, reconcileAcceptance, TrySubmit,
        submitPoolWithdraw, Backoff, Record, GiveUp
<1>2. CASE ResumeStep
  BY <1>2 DEF ResumeStep, StartResume, PickEntry, EndResume, LookAtEntry,
     ResumeAcceptFailed, ResumeHeadroom
<1>3. QED BY <1>1, <1>2
  DEF Next, Receive, InvokeThrows, Include, OtherStep, CloseLedger

\* The pass finds the phase of every entry it has yet to look at.
LEMMA StepPass ==
  ASSUME SaveWorks, BInv, Next
  PROVE  PassHolds'
<1>1. TInv /\ PassHolds /\ DOMAIN held \subseteq Jobs /\ DOMAIN queue \subseteq Jobs
      /\ queue = disk
  BY DEF BInv, TInv, TypeOK, EntriesOf
<1>2. CASE Crash
  BY <1>2, ResumeIsProc DEF Crash, PassHolds, NoEntries
<1>3. CASE ~Crash
  <2>1. ASSUME NEW j \in DOMAIN held' PROVE Covered(j)'
    <3>1. j \in DOMAIN held \cup DOMAIN queue
      <4>1. CASE held' = held \/ held' = NoEntries
        BY <4>1 DEF NoEntries
      <4>2. CASE \E p \in Procs : Detach(at[p])
        BY <4>2, SMTT(30) DEF Detach
      <4>3. QED BY <4>1, <4>2, HeldSteps
    <3>2. Covered(j) /\ j \in Jobs
      BY <1>1, <3>1 DEF PassHolds, Covered
    <3>3. QED BY <3>2, StaysCovered
  <2>2. ASSUME NEW j \in DOMAIN queue \cup DOMAIN held,
               \/ j \in todo
               \/ pc[Resume] = "look" /\ at[Resume] = j /\ ~LookAtEntry,
               ~(todo' = {} /\ held' = NoEntries)
        PROVE  j \in DOMAIN queue' \cup DOMAIN held'
    <3>1. CASE j \in DOMAIN held
      <4>1. held' = held \/ \E p \in Procs : Detach(at[p])
        BY <2>2, HeldSteps
      <4>2. QED BY <3>1, <4>1 DEF Detach
    <3>2. CASE j \notin DOMAIN held /\ j \notin DOMAIN queue'
      <4>1. at[Resume] # j \/ (pc[Resume] = "look" /\ ~LookAtEntry) \/ pc[Resume] \in {"idle", "pick"}
        BY <1>1, <2>2 DEF PassHolds
      <4>2. \/ \E p \in Procs : Resolve(p) /\ at[p] = j
            \/ LookAtEntry /\ at[Resume] = j
            \/ ResumeHeadroom /\ at[Resume] = j
        BY <1>3, <2>2, <3>2, Removals
      <4>3. \E p \in Procs : Resolve(p) /\ at[p] = j
        BY <4>1, <4>2 DEF LookAtEntry, ResumeHeadroom
      <4>4. Detach(j)
        BY <4>3 DEF Resolve
      <4>5. QED BY <2>2, <3>2, <4>4 DEF Detach
    <3>3. QED BY <3>1, <3>2
  <2>3. todo' \subseteq DOMAIN queue' \cup DOMAIN held'
    <3>1. CASE todo' \subseteq todo
      BY <1>1, <2>2, <3>1 DEF PassHolds
    <3>2. CASE todo' = DOMAIN queue /\ UNCHANGED storage
      BY <3>2 DEF storage
    <3>3. QED BY <3>1, <3>2, HeldSteps
  <2>4. ASSUME pc'[Resume] = "look" PROVE at'[Resume] \in DOMAIN queue' \cup DOMAIN held'
    <3>1. CASE PickEntry
      <4>1. at'[Resume] \in todo /\ UNCHANGED <<storage, held>>
        BY <1>1, <3>1, ResumeIsProc DEF PickEntry, TInv, TypeOK
      <4>2. QED BY <1>1, <4>1 DEF PassHolds, storage
    <3>2. CASE at'[Resume] = at[Resume] /\ pc[Resume] = "look"
      <4>1. ~LookAtEntry
        BY <1>1, <2>4, ResumeIsProc DEF LookAtEntry, Throw, Goto, TInv, TypeOK
      <4>2. UNCHANGED <<held, todo>> \/ \E p \in Procs : Enqueue(p) \/ Resolve(p)
        <5>1. ~Throw(Resume) /\ ~EndResume /\ ~Crash
          BY <1>1, <1>3, <2>4, <3>2, ResumeIsProc DEF Throw, Goto, EndResume, TInv, TypeOK
        <5>2. QED BY <3>2, <5>1, HeldSteps
      <4>3. at[Resume] \in DOMAIN queue \cup DOMAIN held
        BY <1>1, <3>2 DEF PassHolds
      <4>4. CASE \E p \in Procs : Enqueue(p) \/ Resolve(p)
        BY <3>2, <4>3, <4>4, SMTT(30) DEF Enqueue, Resolve, Detach, Persist, put, remove
      <4>5. CASE UNCHANGED <<held, todo>> /\ ~\E p \in Procs : Enqueue(p) \/ Resolve(p)
        <5>1. at[Resume] \in DOMAIN queue => at[Resume] \in DOMAIN queue'
          BY <1>3, <3>2, <4>1, <4>5, Removals DEF ResumeHeadroom
        <5>2. QED BY <3>2, <4>3, <4>5, <5>1
      <4>6. QED BY <4>2, <4>4, <4>5
    <3>3. QED BY <1>1, <2>4, <3>1, <3>2, PassMoves
  <2>5. ASSUME pc'[Resume] \notin {"idle", "pick"} PROVE at'[Resume] \notin todo'
    <3>1. CASE PickEntry
      BY <1>1, <3>1, ResumeIsProc DEF PickEntry, TInv, TypeOK
    <3>2. CASE at'[Resume] = at[Resume] /\ pc[Resume] \notin {"idle", "pick"}
      BY <1>1, <3>2, HeldSteps, SMTT(30) DEF PassHolds
    <3>3. QED BY <1>1, <2>5, <3>1, <3>2, PassMoves
  <2>6. QED BY <2>1, <2>3, <2>4, <2>5 DEF PassHolds
<1>4. QED BY <1>2, <1>3

\* No job is bonded at first.
LEMMA InitBInv == Init => BInv
<1> SUFFICES ASSUME Init PROVE BInv
  OBVIOUS
<1>1. TInv
  BY InitTypes
<1>2. queue = disk /\ MarksAreTrue /\ PassHolds
  BY ResumeIsProc DEF Init, MarksAreTrue, PassHolds, NoEntries
<1>3. \A p \in Procs : Knows(p)
  BY DEF Init, Knows
<1>4. BondIsOnDisk /\ CompletedIsSubmitted
  BY DEF Init, BondIsOnDisk, Bonded, CompletedIsSubmitted
<1>5. QED BY <1>1, <1>2, <1>3, <1>4 DEF Init, BInv

\* When the disk takes every write, every step keeps the invariant.
LEMMA NextBInv ==
  ASSUME SaveWorks
  PROVE  BInv /\ [Next]_vars => BInv'
<1>1. ASSUME BInv, Next PROVE BInv'
  <2>1. TInv'
    BY <1>1, NextTypes DEF BInv
  <2>2. queue' = disk'
    BY <1>1, QueueSteps
  <2>3. MarksAreTrue' /\ PassHolds' /\ BondIsOnDisk' /\ CompletedIsSubmitted'
    BY <1>1, StepMarks, StepPass, StepBonds, StepCompleted
  <2>4. \A p \in Procs : Knows(p)'
    BY <1>1, StepKnows
  <2>5. \A tx \in txs' : tx.kind = "accept" => Covered(tx.job)'
    BY <1>1, StepTransactions
  <2>6. QED BY <2>1, <2>2, <2>3, <2>4, <2>5 DEF BInv
<1>2. ASSUME BInv, UNCHANGED vars PROVE BInv'
  <2>1. TInv'
    BY <1>2, NextTypes DEF BInv
  <2>2. QED BY <1>2, <2>1
    DEF vars, chain, storage, threads, bounds, BInv, MarksAreTrue, PassHolds, Knows,
        Covered, BondIsOnDisk, Bonded, HasHeadroom, CompletedIsSubmitted
<1>3. QED BY <1>1, <1>2

\* With a store whose save() works, a job that holds the operator's stake and
\* still has headroom is in accepted-jobs.json, for any number of jobs,
\* deliveries, faults and crashes (job-queue.ts, engine.ts).
THEOREM BondsAreOnDisk ==
  ASSUME SaveWorks
  PROVE  Spec => []BondIsOnDisk
<1>1. BInv => BondIsOnDisk
  BY DEF BInv
<1>2. QED BY <1>1, InitBInv, NextBInv, PTL DEF Spec

\* A job is recorded in the ledger, or reported completed, only after the
\* chain shows it submitted (engine.ts handlePayload, resumeAcceptedJobs).
THEOREM CompletedJobsAreSubmitted ==
  ASSUME SaveWorks
  PROVE  Spec => []CompletedIsSubmitted
<1>1. BInv => CompletedIsSubmitted
  BY DEF BInv
<1>2. QED BY <1>1, InitBInv, NextBInv, PTL DEF Spec

-----------------------------------------------------------------------------
(* The engine implements BondedJobs.                                       *)

BondedSet == {j \in Jobs : Bonded(j)}
LostSet == {j \in Jobs : ~HasHeadroom(j)} \cup unseen

\* The bonds are a function of the chain.
LEMMA SameChain ==
  ASSUME UNCHANGED chain
  PROVE  BondedSet' = BondedSet /\ (unseen' = unseen => LostSet' = LostSet)
  BY DEF chain, BondedSet, LostSet, Bonded, HasHeadroom

\* A change of the queue alone is a step of BondedJobs.
LEMMA QueueStepsRefine ==
  ASSUME SaveWorks, BInv, UNCHANGED chain, unseen' = unseen,
         \/ UNCHANGED disk
         \/ Persist(queue)
         \/ \E k \in Jobs, phase \in Phases : Persist(put(k, phase))
         \/ \E k \in Jobs : Persist(remove(k)) /\ Released(k)
  PROVE  Promise!Next \/ UNCHANGED Promise!vars
<1> USE DEF BondedSet, LostSet
<1>1. queue = disk /\ BondedSet' = BondedSet /\ LostSet' = LostSet
  BY SameChain DEF BInv
<1>2. CASE UNCHANGED disk \/ Persist(queue)
  BY <1>1, <1>2 DEF Persist, Promise!vars
<1>3. CASE \E k \in Jobs, phase \in Phases : Persist(put(k, phase))
  <2>1. PICK k \in Jobs, phase \in Phases : Persist(put(k, phase))
    BY <1>3
  <2>2. DOMAIN disk' = DOMAIN disk \cup {k}
    BY <1>1, <2>1 DEF Persist, put
  <2>3. Promise!Intend(k)
    BY <1>1, <2>2 DEF Promise!Intend
  <2>4. QED BY <2>3 DEF Promise!Next
<1>4. CASE \E k \in Jobs : Persist(remove(k)) /\ Released(k)
  <2>1. PICK k \in Jobs : Persist(remove(k)) /\ Released(k)
    BY <1>4
  <2>2. DOMAIN disk' = DOMAIN disk \ {k}
    BY <1>1, <2>1 DEF Persist, remove
  <2>3. k \notin BondedSet \/ k \in LostSet
    BY <2>1 DEF Released
  <2>4. Promise!Forget(k)
    BY <1>1, <2>2, <2>3 DEF Promise!Forget
  <2>5. QED BY <2>4 DEF Promise!Next
<1>5. QED BY <1>2, <1>3, <1>4

\* A step of processJob is a step of BondedJobs or none.
LEMMA StepRefines ==
  ASSUME SaveWorks, BInv, NEW p \in Procs, Step(p)
  PROVE  Promise!Next \/ UNCHANGED Promise!vars
<1>1. UNCHANGED <<chain, unseen>>
  BY DEF Step, CheckJob, CheckHeadroom, Enqueue, acceptJob, reconcileAcceptance,
     MarkAccepted, TrySubmit, submitPoolWithdraw, SubmitFailed, Backoff, Resolve, Record,
     GiveUp
<1>2. CASE Enqueue(p) \/ MarkAccepted(p) \/ Resolve(p) \/ SubmitFailed(p)
  <2>1. at[p] \in Jobs
    BY <1>2 DEF Enqueue, MarkAccepted, Resolve, SubmitFailed, BInv, TInv, Flow
  <2>2. Resolve(p) => Released(at[p])
    BY DEF Resolve, Released, Bonded, BInv, Knows
  <2>3. QED BY <1>1, <1>2, <2>1, <2>2, QueueStepsRefine
    DEF Enqueue, MarkAccepted, Resolve, SubmitFailed, Phases, storage
<1>3. CASE UNCHANGED storage
  BY <1>1, <1>3, QueueStepsRefine DEF storage
<1>4. QED BY <1>2, <1>3
  DEF Step, CheckJob, CheckHeadroom, acceptJob, reconcileAcceptance, TrySubmit,
      submitPoolWithdraw, Backoff, Record, GiveUp

\* So is a step of the resume pass.
LEMMA ResumeRefines ==
  ASSUME SaveWorks, BInv, Next, ResumeStep
  PROVE  Promise!Next \/ UNCHANGED Promise!vars
<1>1. UNCHANGED chain
  BY DEF ResumeStep, StartResume, PickEntry, EndResume, LookAtEntry,
     ResumeAcceptFailed, ResumeHeadroom
<1>2. CASE LookAtEntry
  <2> DEFINE j == at[Resume]
  <2>1. j \in Jobs
    BY <1>2, ResumeIsProc DEF LookAtEntry, BInv, TInv, Flow
  <2>2. \/ unseen' = unseen /\ UNCHANGED storage
        \/ unseen' = unseen /\ Persist(put(j, "accepted"))
        \/ Persist(remove(j)) /\ unseen' \in {unseen, unseen \cup {j}}
    BY <1>2 DEF LookAtEntry
  <2>3. CASE unseen' = unseen /\ UNCHANGED storage
    BY <1>1, <2>3, QueueStepsRefine DEF storage
  <2>4. CASE unseen' = unseen /\ Persist(put(j, "accepted"))
    BY <1>1, <2>1, <2>4, QueueStepsRefine DEF Phases
  <2>5. CASE Persist(remove(j)) /\ unseen' = unseen
    <3>1. CASE j \in DOMAIN queue
      <4>1. j \notin DOMAIN queue'
        BY <2>5 DEF Persist, remove
      <4>2. Released(j)
        BY <3>1, <4>1, QueueSteps
      <4>3. QED BY <1>1, <2>1, <2>5, <4>2, QueueStepsRefine
    <3>2. CASE j \notin DOMAIN queue
      <4>1. DOMAIN disk' = DOMAIN disk
        BY <2>5, <3>2 DEF Persist, remove, BInv
      <4>2. QED BY <1>1, <2>5, <4>1, SameChain DEF Promise!vars, BondedSet, LostSet
    <3>3. QED BY <3>1, <3>2
  <2>6. CASE Persist(remove(j)) /\ unseen' = unseen \cup {j}
    <3>1. DOMAIN disk' = DOMAIN disk \ {j} /\ BondedSet' = BondedSet
      BY <1>1, <2>6, SameChain DEF Persist, remove, BInv
    <3>2. LostSet' = LostSet \cup {j} /\ LostSet \subseteq Jobs
      BY <1>1, <2>1, <2>6 DEF LostSet, HasHeadroom, chain, BInv, TInv, TypeOK
    <3>3. Promise!Lose
      BY <2>1, <3>1, <3>2 DEF Promise!Lose, BondedSet, LostSet
    <3>4. QED BY <3>3 DEF Promise!Next
  <2>7. QED BY <2>2, <2>3, <2>4, <2>5, <2>6
<1>3. CASE ResumeHeadroom
  <2>1. at[Resume] \in Jobs /\ status[at[Resume]] # "open" /\ unseen' = unseen
    BY <1>3, ResumeIsProc DEF ResumeHeadroom, BInv, TInv, Flow, Knows
  <2>2. \/ UNCHANGED storage
        \/ ~HasHeadroom(at[Resume]) /\ Persist(remove(at[Resume]))
    BY <1>3 DEF ResumeHeadroom, hasDeadlineHeadroom
  <2>3. QED BY <1>1, <2>1, <2>2, QueueStepsRefine DEF Released, storage
<1>4. CASE StartResume \/ PickEntry \/ EndResume \/ ResumeAcceptFailed
  BY <1>1, <1>4, QueueStepsRefine
  DEF StartResume, PickEntry, EndResume, ResumeAcceptFailed, storage
<1>5. QED BY <1>2, <1>3, <1>4 DEF ResumeStep

\* The status of one job changes: it becomes bonded, or stops being bonded.
LEMMA StatusRefines ==
  ASSUME BInv, Next, UNCHANGED <<now, disk, unseen>>, NEW k \in Jobs,
         \A j \in Jobs \ {k} : status'[j] = status[j] /\ owner'[j] = owner[j]
  PROVE  Promise!Next \/ UNCHANGED Promise!vars
<1> USE DEF BondedSet, LostSet
<1>1. LostSet' = LostSet /\ TInv
  BY DEF HasHeadroom, BInv
<1>2. \A j \in Jobs \ {k} : Bonded(j)' <=> Bonded(j)
  BY DEF Bonded
<1>3. CASE Bonded(k)' /\ ~Bonded(k)
  <2>1. BondedSet' = BondedSet \cup {k}
    BY <1>2, <1>3
  <2>2. k \in DOMAIN disk \/ k \in unseen
    BY <1>1, <1>3, NewBonds, SMTT(30) DEF BInv, Covered
  <2>3. Promise!Bond(k)
    BY <1>1, <2>1, <2>2 DEF Promise!Bond
  <2>4. QED BY <2>3 DEF Promise!Next
<1>4. CASE ~Bonded(k)' /\ Bonded(k)
  <2>1. BondedSet' = BondedSet \ {k} /\ k \in BondedSet
    BY <1>2, <1>4
  <2>2. Promise!Release(k)
    BY <1>1, <2>1 DEF Promise!Release
  <2>3. QED BY <2>2 DEF Promise!Next
<1>5. CASE Bonded(k)' <=> Bonded(k)
  <2>1. BondedSet' = BondedSet
    BY <1>2, <1>5
  <2>2. QED BY <1>1, <2>1 DEF Promise!vars
<1>6. QED BY <1>3, <1>4, <1>5

\* So is every step.
LEMMA NextRefines ==
  ASSUME SaveWorks, BInv, Next
  PROVE  Promise!Next \/ UNCHANGED Promise!vars
<1>1. TInv
  BY DEF BInv
<1>2. CASE \E p \in Procs : Step(p)
  BY <1>2, StepRefines
<1>3. CASE ResumeStep
  BY <1>3, ResumeRefines
<1>4. CASE \E tx \in txs : Include(tx)
  <2>1. PICK tx \in txs : Include(tx)
    BY <1>4
  <2>2. tx.job \in Jobs
    BY <1>1, WaitingFor
  <2>3. /\ UNCHANGED <<now, disk, unseen>>
        /\ \A j \in Jobs \ {tx.job} : status'[j] = status[j] /\ owner'[j] = owner[j]
    BY <1>1, <2>1 DEF Include, storage, TInv, TypeOK
  <2>4. QED BY <2>2, <2>3, StatusRefines
<1>5. CASE \E k \in Jobs : OtherStep(k)
  <2>1. PICK k \in Jobs : OtherStep(k)
    BY <1>5
  <2>2. /\ UNCHANGED <<now, disk, unseen>>
        /\ \A j \in Jobs \ {k} : status'[j] = status[j] /\ owner'[j] = owner[j]
    BY <1>1, <2>1 DEF OtherStep, storage, TInv, TypeOK
  <2>3. QED BY <2>2, StatusRefines
<1>6. CASE CloseLedger
  <2>1. BondedSet' = BondedSet /\ disk' = disk
    BY <1>6 DEF CloseLedger, BondedSet, Bonded, storage
  <2>2. LostSet \subseteq LostSet' /\ LostSet' \subseteq Jobs
    <3>1. \A j \in Jobs : HasHeadroom(j)' => HasHeadroom(j)
      BY <1>1, OnlyForward
    <3>2. unseen' = unseen /\ unseen \subseteq Jobs
      BY <1>1, <1>6 DEF CloseLedger, TInv, TypeOK
    <3>3. QED BY <3>1, <3>2 DEF LostSet
  <2>3. Promise!Lose
    BY <2>1, <2>2 DEF Promise!Lose, BondedSet, LostSet
  <2>4. QED BY <2>3 DEF Promise!Next
<1>7. CASE Crash \/ (\E p \in Procs : InvokeThrows(p))
           \/ (\E p \in Handlers, j \in Jobs : Receive(p, j))
  <2>1. UNCHANGED <<chain, disk, unseen>>
    BY <1>7 DEF Crash, InvokeThrows, Receive, storage
  <2>2. QED BY <2>1, QueueStepsRefine
<1>8. QED BY <1>2, <1>3, <1>4, <1>5, <1>6, <1>7 DEF Next

\* The engine with a working store keeps the promise of its job queue: no job
\* is bonded before it is on disk, and no entry is given up while its bond can
\* still be saved (engine.ts, job-queue.ts).
THEOREM EngineKeepsPromise ==
  ASSUME SaveWorks
  PROVE  Spec => KeepsPromise
<1>1. Init => Promise!Init
  <2> SUFFICES ASSUME Init PROVE Promise!Init
    OBVIOUS
  <2>1. DOMAIN disk = {} /\ unseen = {}
    BY DEF Init, NoEntries
  <2>2. \A j \in Jobs : ~Bonded(j)
    BY DEF Init, Bonded
  <2>3. QED BY <2>1, <2>2 DEF Promise!Init
<1>2. BInv /\ [Next]_vars => [Promise!Next]_(Promise!vars)
  <2>1. ASSUME BInv, Next PROVE Promise!Next \/ UNCHANGED Promise!vars
    BY <2>1, NextRefines
  <2>2. ASSUME UNCHANGED vars PROVE UNCHANGED Promise!vars
    BY <2>2 DEF vars, chain, storage, Promise!vars, Bonded, HasHeadroom
  <2>3. QED BY <2>1, <2>2
<1>3. QED BY <1>1, <1>2, InitBInv, NextBInv, PTL DEF Spec, KeepsPromise, Promise!Spec
==============================================================================
