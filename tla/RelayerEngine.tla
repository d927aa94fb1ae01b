---------------------------- MODULE RelayerEngine ----------------------------
(***************************************************************************)
(* A relayer node (relayer/src: engine.ts, job-queue.ts, store.ts,         *)
(* runtime.ts, chains/stellar.ts): payload deliveries that accept a job    *)
(* and submit its withdrawal, and the resume pass that finishes what was   *)
(* left over.  They run concurrently in one process and interleave at      *)
(* every request to the chain; requests fail, transactions land after the  *)
(* node stopped waiting for them, and the process crashes.                 *)
(*                                                                         *)
(* The payload, its hash and the fee do not matter here.  A delivery that  *)
(* carries the idempotency key of another shares its result and takes no   *)
(* step of its own.  The registry is seen through the status of its jobs   *)
(* (RelayerRegistry models the contract).                                  *)
(***************************************************************************)
EXTENDS Naturals

CONSTANTS
  Jobs,
  Handlers,         \* payload deliveries under way at the same time
  Deadline,         \* deadline ledger of every job
  deadlineMarginLedgers,
  maxAttempts,      \* submit attempts of submitWithRetry
  SaveWorks,        \* does save() of the AcceptedJobStore succeed?
  MaxLedger,        \* bound: last ledger that closes
  MaxDeliveries,    \* bound: payloads delivered
  MaxFaults,        \* bound: transactions that fail or are not confirmed
  MaxBlind,         \* bound: reads that fail
  MaxCrashes        \* bound: crashes

Resume == "resume"
Self == "self"
Other == "other"
Nobody == "nobody"

ASSUME EngineProcessesAssumption == Resume \notin Handlers
ASSUME EngineBoundsAssumption ==
  /\ Deadline \in Nat /\ deadlineMarginLedgers \in Nat /\ maxAttempts \in Nat \ {0}
  /\ SaveWorks \in BOOLEAN
  /\ {MaxLedger, MaxDeliveries, MaxFaults, MaxBlind, MaxCrashes} \subseteq Nat

Procs == Handlers \cup {Resume}
Statuses == {"open", "accepted", "submitted", "slashed", "canceled"}
Phases == {"accepting", "accepted"}

VARIABLES
  \* the chain
  now,
  status, owner,    \* of a job: status and accepted_relayer
  txs,              \* transactions sent that may still be included
  \* the data directory
  disk,             \* accepted-jobs.json: job -> phase
  ledger,           \* jobs recorded in the JobLedger
  \* the process
  queue,            \* AcceptedJobQueue.entries
  serving,          \* has startRelayerNode finished its recovery?
  pc, at, attempt,  \* of a delivery or of the resume pass
  mytx,             \* the transaction it is waiting for
  todo,             \* entries the resume pass has not looked at
  held,             \* phases of entries of the pass that have left the queue
  completed,        \* jobs reported to the hub as completed
  unseen,           \* jobs dropped from the queue after a read that failed
  \* bounds
  deliveries, faults, blind, crashes

chain == <<now, status, owner>>
storage == <<queue, disk>>
threads == <<pc, at, attempt, mytx>>
bounds == <<deliveries, faults, blind, crashes>>
vars == <<chain, txs, storage, ledger, serving, threads, todo, held, completed,
          unseen, bounds>>

NoTx == [kind |-> "none"]
NoJob == "no job"
NoEntries == [j \in {} |-> "accepting"]

Init ==
  /\ now = 1
  /\ status = [j \in Jobs |-> "open"] /\ owner = [j \in Jobs |-> Nobody]
  /\ txs = {} /\ ledger = {} /\ completed = {} /\ unseen = {}
  /\ disk = NoEntries /\ queue = NoEntries
  /\ serving = FALSE /\ todo = {} /\ held = NoEntries
  /\ pc = [p \in Procs |-> "idle"] /\ at = [p \in Procs |-> NoJob]
  /\ attempt = [p \in Procs |-> 0] /\ mytx = [p \in Procs |-> NoTx]
  /\ deliveries = 0 /\ faults = 0 /\ blind = 0 /\ crashes = 0

-----------------------------------------------------------------------------
(* Control flow, the queue and requests.                                   *)

\* The process goes on at label; between two jobs it remembers nothing.
Goto(p, label) ==
  LET over == label \in {"idle", "pick"}
  IN  /\ pc' = [pc EXCEPT ![p] = label]
      /\ at' = [at EXCEPT ![p] = IF over THEN NoJob ELSE @]
      /\ attempt' = [attempt EXCEPT ![p] = IF over THEN 0 ELSE @]
      /\ UNCHANGED mytx

\* The delivery is over; the resume pass goes on with its next entry.
Done(p) == IF p = Resume THEN "pick" ELSE "idle"

\* An exception ends the delivery, or the whole resume pass.
Throw(p) ==
  /\ Goto(p, "idle")
  /\ todo' = IF p = Resume THEN {} ELSE todo
  /\ held' = IF p = Resume THEN NoEntries ELSE held

\* Mutant: the intent is kept in memory and written when the job is accepted.
Persist_Late(entries) ==
  /\ queue' = entries
  /\ disk' = IF \E j \in DOMAIN entries : entries[j] = "accepting"
             THEN disk ELSE entries

\* A change of the entries and persist(), which writes them all.
Persist(entries) ==
  /\ queue' = entries
  /\ disk' = IF SaveWorks THEN entries ELSE disk

put(j, phase) ==
  [k \in DOMAIN queue \cup {j} |-> IF k = j THEN phase ELSE queue[k]]

remove(j) == [k \in DOMAIN queue \ {j} |-> queue[k]]

\* A delivery replaces or removes an entry that the resume pass still holds.
Detach(j) ==
  held' = IF /\ j \in DOMAIN queue /\ j \notin DOMAIN held
             /\ j \in todo \/ (pc[Resume] = "look" /\ at[Resume] = j)
          THEN [k \in DOMAIN held \cup {j} |-> IF k = j THEN queue[j] ELSE held[k]]
          ELSE held

\* getJob answers s; "unknown" stands for an exception or null.
getJob(j, s) ==
  \/ s = status[j] /\ UNCHANGED blind
  \/ s = "unknown" /\ blind < MaxBlind /\ blind' = blind + 1

HasHeadroom(j) == Deadline >= now + deadlineMarginLedgers

\* An unknown ledger counts as headroom.
hasDeadlineHeadroom(j, h) ==
  \/ h = HasHeadroom(j) /\ UNCHANGED blind
  \/ h = TRUE /\ blind < MaxBlind /\ blind' = blind + 1

Reads == Statuses \cup {"unknown"}

\* invoke up to sendTransaction
Send(p, kind) ==
  /\ mytx' = [mytx EXCEPT ![p] = [kind |-> kind, job |-> at[p], by |-> p,
                                  attempt |-> attempt[p], epoch |-> crashes]]
  /\ txs' = txs \cup {mytx'[p]}
  /\ pc' = [pc EXCEPT ![p] = "await"]
  /\ UNCHANGED <<at, attempt>>

\* Mutant: a submission that is sent counts as done.
AfterTx_Optimistic(p, ok) ==
  IF mytx[p].kind = "submit" THEN "resolve"
  ELSE IF ok THEN "mark"
  ELSE IF p = Resume THEN "accept_failed" ELSE "reconcile"

\* Where the process goes when its transaction has been included.
AfterTx(p, ok) ==
  CASE mytx[p].kind = "accept" /\ ok -> "mark"
    [] mytx[p].kind = "accept" /\ ~ok ->
         IF p = Resume THEN "accept_failed" ELSE "reconcile"
    [] mytx[p].kind = "submit" /\ ok -> "resolve"
    [] OTHER -> "failed"

-----------------------------------------------------------------------------
(* handlePayload.                                                          *)

Receive(p, j) ==
  /\ serving /\ p \in Handlers /\ pc[p] = "idle"
  /\ deliveries < MaxDeliveries
  /\ deliveries' = deliveries + 1
  /\ pc' = [pc EXCEPT ![p] = "check"] /\ at' = [at EXCEPT ![p] = j]
  /\ UNCHANGED <<chain, txs, storage, ledger, serving, attempt, mytx, todo, held, completed,
                 unseen, faults, blind, crashes>>

CheckJob(p) ==
  /\ pc[p] = "check"
  /\ \E s \in Reads :
       getJob(at[p], s) /\ Goto(p, IF s = "open" THEN "headroom" ELSE "idle")
  /\ UNCHANGED <<chain, txs, storage, ledger, serving, todo, held, completed, unseen,
                 deliveries, faults, crashes>>

CheckHeadroom(p) ==
  /\ pc[p] = "headroom"
  /\ \E h \in BOOLEAN :
       hasDeadlineHeadroom(at[p], h) /\ Goto(p, IF h THEN "enqueue" ELSE "idle")
  /\ UNCHANGED <<chain, txs, storage, ledger, serving, todo, held, completed, unseen,
                 deliveries, faults, crashes>>

\* The intent is written before accept_job is sent.
Enqueue(p) ==
  /\ pc[p] = "enqueue"
  /\ Persist(put(at[p], "accepting"))
  /\ Detach(at[p])
  /\ Goto(p, IF SaveWorks THEN "accept" ELSE "idle")
  /\ UNCHANGED <<chain, txs, ledger, serving, todo, completed, unseen, bounds>>

acceptJob(p) ==
  /\ pc[p] = "accept"
  /\ Send(p, "accept")
  /\ UNCHANGED <<chain, storage, ledger, serving, todo, held, completed, unseen, bounds>>

\* The accept failed or was not confirmed: did it land all the same?
reconcileAcceptance(p) ==
  /\ pc[p] = "reconcile"
  /\ \E s \in Reads :
       /\ getJob(at[p], s)
       /\ Goto(p, IF s = "accepted" /\ owner[at[p]] = Self THEN "mark" ELSE "idle")
  /\ UNCHANGED <<chain, txs, storage, ledger, serving, todo, held, completed, unseen,
                 deliveries, faults, crashes>>

\* markAccepted; it throws when the entry is gone or cannot be saved.
MarkAccepted(p) ==
  /\ pc[p] = "mark"
  /\ IF at[p] \in DOMAIN queue
     THEN Persist(put(at[p], "accepted"))
     ELSE UNCHANGED storage
  /\ IF at[p] \in DOMAIN queue /\ SaveWorks
     THEN Goto(p, IF p = Resume THEN "resume_headroom" ELSE "submit")
     ELSE Goto(p, IF p = Resume THEN "accept_failed" ELSE "idle")
  /\ UNCHANGED <<chain, txs, ledger, serving, todo, held, completed, unseen, bounds>>

-----------------------------------------------------------------------------
(* submitWithRetry, and what follows it.                                   *)

\* getJob before an attempt; a read that fails may also end the attempt.
TrySubmit(p) ==
  /\ pc[p] = "submit"
  /\ attempt' = [attempt EXCEPT ![p] = @ + 1]
  /\ \E s \in Reads, label \in {"send", "resolve", "failed"} :
       /\ getJob(at[p], s)
       /\ label = "resolve" <=> s = "submitted"
       /\ label = "failed" => s = "unknown"
       /\ pc' = [pc EXCEPT ![p] = label]
  /\ UNCHANGED <<chain, txs, storage, ledger, serving, at, mytx, todo, held, completed,
                 unseen, deliveries, faults, crashes>>

submitPoolWithdraw(p) ==
  /\ pc[p] = "send"
  /\ Send(p, "submit")
  /\ UNCHANGED <<chain, storage, ledger, serving, todo, held, completed, unseen, bounds>>

\* The catch block: recordFailure, and the job is read again.
SubmitFailed(p) ==
  /\ pc[p] = "failed"
  /\ Persist(queue)
  /\ \E s \in Reads :
       /\ getJob(at[p], s)
       /\ Goto(p, CASE ~SaveWorks /\ at[p] \in DOMAIN queue -> "gave_up"
                    [] OTHER -> IF s = "submitted" THEN "resolve"
                                ELSE IF attempt[p] < maxAttempts THEN "backoff"
                                ELSE "gave_up")
  /\ UNCHANGED <<chain, txs, ledger, serving, todo, held, completed, unseen,
                 deliveries, faults, crashes>>

Backoff(p) ==
  /\ pc[p] = "backoff"
  /\ \E h \in BOOLEAN :
       hasDeadlineHeadroom(at[p], h) /\ Goto(p, IF h THEN "submit" ELSE "gave_up")
  /\ UNCHANGED <<chain, txs, storage, ledger, serving, todo, held, completed,
                 unseen, deliveries, faults, crashes>>

\* resolve() after a submission.
Resolve(p) ==
  /\ pc[p] = "resolve"
  /\ Persist(remove(at[p]))
  /\ Detach(at[p])
  /\ Goto(p, IF SaveWorks THEN "record" ELSE "gave_up")
  /\ UNCHANGED <<chain, txs, ledger, serving, todo, completed, unseen, bounds>>

\* jobLedger.record and notifySettled("completed")
Record(p) ==
  /\ pc[p] = "record"
  /\ ledger' = ledger \cup {at[p]}
  /\ completed' = completed \cup {at[p]}
  /\ Goto(p, Done(p))
  /\ UNCHANGED <<chain, txs, storage, serving, todo, held, unseen, bounds>>

\* submitWithRetry threw: the entry stays queued.
GiveUp(p) ==
  /\ pc[p] = "gave_up"
  /\ Goto(p, Done(p))
  /\ UNCHANGED <<chain, txs, storage, ledger, serving, todo, held, completed, unseen,
                 bounds>>

-----------------------------------------------------------------------------
(* resumeAcceptedJobs, at boot and then on a timer.                        *)

\* Mutant: the pass runs at boot only.
StartResume_BootOnly ==
  /\ pc[Resume] = "idle" /\ ~serving
  /\ todo' = DOMAIN queue
  /\ Goto(Resume, "pick")
  /\ UNCHANGED <<chain, txs, storage, ledger, serving, held, completed, unseen, bounds>>

StartResume ==
  /\ pc[Resume] = "idle"
  /\ ~serving \/ DOMAIN queue # {}
  /\ todo' = DOMAIN queue
  /\ Goto(Resume, "pick")
  /\ UNCHANGED <<chain, txs, storage, ledger, serving, held, completed, unseen, bounds>>

\* The next entry of the pass.
PickEntry ==
  /\ pc[Resume] = "pick"
  /\ \E j \in todo :
       /\ todo' = todo \ {j}
       /\ at' = [at EXCEPT ![Resume] = j]
  /\ pc' = [pc EXCEPT ![Resume] = "look"]
  /\ UNCHANGED <<chain, txs, storage, ledger, serving, attempt, mytx, held, completed,
                 unseen, bounds>>

\* The pass is over.  The first one is followed by verifyOnBoot, which drops a
\* ledger entry whose job reads as null, and the node starts to serve.
EndResume ==
  /\ pc[Resume] = "pick" /\ todo = {}
  /\ \/ UNCHANGED <<ledger, blind>>
     \/ /\ ~serving /\ blind < MaxBlind
        /\ \E j \in ledger : ledger' = ledger \ {j}
        /\ blind' = blind + 1
  /\ serving' = TRUE
  /\ held' = NoEntries
  /\ Goto(Resume, "idle")
  /\ UNCHANGED <<chain, txs, storage, todo, completed, unseen, deliveries,
                 faults, crashes>>

\* The phase in the entry object the pass holds.
phaseOf(j) == IF j \in DOMAIN held THEN held[j] ELSE queue[j]

\* Mutant: every entry whose accept is not confirmed is dropped.
LookAtEntry_Drop ==
  LET j == at[Resume]
  IN  /\ pc[Resume] = "look"
      /\ IF phaseOf(j) = "accepting"
         THEN Persist(remove(j)) /\ Goto(Resume, "pick")
         ELSE Goto(Resume, "resume_headroom") /\ UNCHANGED storage
      /\ UNCHANGED <<chain, txs, ledger, serving, todo, held, completed, unseen, bounds>>

LookAtEntry ==
  LET j == at[Resume]
      ThenGoto(label) == IF SaveWorks THEN Goto(Resume, label) /\ UNCHANGED <<todo, held>>
                         ELSE Throw(Resume)
  IN  /\ pc[Resume] = "look"
      /\ \E s \in Reads :
           /\ getJob(j, s)
           /\ \/ /\ s = "submitted"
                 /\ Persist(remove(j)) /\ ThenGoto("record")
                 /\ UNCHANGED unseen
              \/ /\ s # "submitted" /\ phaseOf(j) = "accepted"
                 /\ Goto(Resume, "resume_headroom")
                 /\ UNCHANGED <<storage, todo, held, unseen>>
              \/ /\ s = "accepted" /\ owner[j] = Self /\ phaseOf(j) = "accepting"
                 /\ IF j \in DOMAIN queue
                    THEN Persist(put(j, "accepted")) /\ ThenGoto("resume_headroom")
                    ELSE UNCHANGED storage /\ Throw(Resume)
                 /\ UNCHANGED unseen
              \/ /\ s = "open" /\ phaseOf(j) = "accepting"
                 /\ Goto(Resume, "accept")
                 /\ UNCHANGED <<storage, todo, held, unseen>>
              \/ /\ s \notin {"submitted", "open"} /\ phaseOf(j) = "accepting"
                 /\ ~(s = "accepted" /\ owner[j] = Self)
                 /\ Persist(remove(j)) /\ ThenGoto("pick")
                 /\ unseen' = IF s = "unknown" THEN unseen \cup {j} ELSE unseen
      /\ UNCHANGED <<chain, txs, ledger, serving, completed, deliveries, faults, crashes>>

\* recordFailure of an accept that failed.
ResumeAcceptFailed ==
  /\ pc[Resume] = "accept_failed"
  /\ Persist(queue)
  /\ IF ~SaveWorks /\ at[Resume] \in DOMAIN queue
     THEN Throw(Resume)
     ELSE Goto(Resume, "pick") /\ UNCHANGED <<todo, held>>
  /\ UNCHANGED <<chain, txs, ledger, serving, completed, unseen, bounds>>

\* An entry without headroom is abandoned.
ResumeHeadroom ==
  /\ pc[Resume] = "resume_headroom"
  /\ \E h \in BOOLEAN :
       /\ hasDeadlineHeadroom(at[Resume], h)
       /\ IF h
          THEN Goto(Resume, "submit") /\ UNCHANGED <<storage, todo, held>>
          ELSE /\ Persist(remove(at[Resume]))
               /\ IF SaveWorks THEN Goto(Resume, "pick") /\ UNCHANGED <<todo, held>>
                  ELSE Throw(Resume)
  /\ UNCHANGED <<chain, txs, ledger, serving, completed, unseen,
                 deliveries, faults, crashes>>

-----------------------------------------------------------------------------
(* The chain, failures and crashes.                                        *)

\* What the registry does with a transaction of this operator.
Accepts(tx) ==
  /\ now < Deadline
  /\ \/ tx.kind = "accept" /\ status[tx.job] = "open"
     \/ tx.kind = "submit" /\ status[tx.job] = "accepted" /\ owner[tx.job] = Self

Include(tx) ==
  /\ tx \in txs
  /\ txs' = txs \ {tx}
  /\ IF Accepts(tx)
     THEN /\ status' = [status EXCEPT ![tx.job] =
                          IF tx.kind = "accept" THEN "accepted" ELSE "submitted"]
          /\ owner' = [owner EXCEPT ![tx.job] = Self]
     ELSE UNCHANGED <<status, owner>>
  /\ IF mytx[tx.by] = tx
     THEN /\ pc' = [pc EXCEPT ![tx.by] = AfterTx(tx.by, Accepts(tx))]
          /\ mytx' = [mytx EXCEPT ![tx.by] = NoTx]
     ELSE UNCHANGED <<pc, mytx>>
  /\ UNCHANGED <<now, storage, ledger, serving, at, attempt, todo, held, completed,
                 unseen, bounds>>

\* invoke throws: the request failed, or the transaction is not confirmed in
\* time, and then it may still be included later.
InvokeThrows(p) ==
  /\ pc[p] = "await"
  /\ faults < MaxFaults
  /\ faults' = faults + 1
  /\ txs' \in {txs, txs \ {mytx[p]}}
  /\ pc' = [pc EXCEPT ![p] = AfterTx(p, FALSE)]
  /\ mytx' = [mytx EXCEPT ![p] = NoTx]
  /\ UNCHANGED <<chain, storage, ledger, serving, at, attempt, todo, held, completed,
                 unseen, deliveries, blind, crashes>>

\* The process dies; a new one starts from the data directory.
Crash ==
  /\ crashes < MaxCrashes
  /\ crashes' = crashes + 1
  /\ queue' = disk
  /\ ledger' = IF SaveWorks THEN ledger ELSE {}
  /\ serving' = FALSE /\ todo' = {} /\ held' = NoEntries
  /\ pc' = [p \in Procs |-> "idle"] /\ at' = [p \in Procs |-> NoJob]
  /\ attempt' = [p \in Procs |-> 0] /\ mytx' = [p \in Procs |-> NoTx]
  /\ UNCHANGED <<chain, txs, disk, completed, unseen, deliveries, faults, blind>>

CloseLedger ==
  /\ now < MaxLedger
  /\ now' = now + 1
  /\ UNCHANGED <<status, owner, txs, storage, ledger, serving, threads, todo,
                 held, completed, unseen, bounds>>

\* Another relayer takes a job, or finishes one it took; the creator slashes
\* or cancels a job that is overdue.
OtherStep(j) ==
  /\ \/ /\ status[j] = "open" /\ now < Deadline
        /\ status' = [status EXCEPT ![j] = "accepted"]
        /\ owner' = [owner EXCEPT ![j] = Other]
     \/ /\ status[j] = "accepted" /\ owner[j] = Other /\ now < Deadline
        /\ status' = [status EXCEPT ![j] = "submitted"] /\ UNCHANGED owner
     \/ /\ status[j] = "accepted" /\ now > Deadline
        /\ status' = [status EXCEPT ![j] = "slashed"] /\ UNCHANGED owner
     \/ /\ status[j] = "open" /\ now > Deadline
        /\ status' = [status EXCEPT ![j] = "canceled"] /\ UNCHANGED owner
  /\ UNCHANGED <<now, txs, storage, ledger, serving, threads, todo, held, completed,
                 unseen, bounds>>

Step(p) ==
  \/ CheckJob(p) \/ CheckHeadroom(p) \/ Enqueue(p) \/ acceptJob(p)
  \/ reconcileAcceptance(p) \/ MarkAccepted(p) \/ TrySubmit(p)
  \/ submitPoolWithdraw(p) \/ SubmitFailed(p) \/ Backoff(p)
  \/ Resolve(p) \/ Record(p) \/ GiveUp(p)

ResumeStep ==
  \/ StartResume \/ PickEntry \/ EndResume \/ LookAtEntry
  \/ ResumeAcceptFailed \/ ResumeHeadroom

Next ==
  \/ \E p \in Handlers, j \in Jobs : Receive(p, j)
  \/ \E p \in Procs : Step(p) \/ InvokeThrows(p)
  \/ ResumeStep
  \/ \E tx \in txs : Include(tx)
  \/ \E j \in Jobs : OtherStep(j)
  \/ CloseLedger
  \/ Crash

Spec == Init /\ [][Next]_vars

\* The event loop runs every process that can go on, the resume timer keeps
\* firing, and the network includes transactions.  Nothing forces ledgers to
\* close: a job has as much time as it needs until its headroom is gone.
Fairness ==
  /\ \A p \in Procs : WF_vars(Step(p))
  /\ WF_vars(ResumeStep)
  /\ \A p \in Procs : WF_vars(\E tx \in txs : tx.by = p /\ Include(tx))

FairSpec == Spec /\ Fairness

-----------------------------------------------------------------------------
(* Properties.                                                             *)

Labels ==
  {"idle", "check", "headroom", "enqueue", "accept", "await", "reconcile", "mark",
   "submit", "send", "failed", "backoff", "resolve", "record", "gave_up", "pick",
   "look", "accept_failed", "resume_headroom"}

Transactions ==
  [kind : {"accept", "submit"}, job : Jobs, by : Procs, attempt : 0..maxAttempts,
   epoch : 0..MaxCrashes]

EntriesOf(f) == DOMAIN f \subseteq Jobs /\ \A j \in DOMAIN f : f[j] \in Phases

\* Every variable of the engine has its type.
TypeOK ==
  /\ now \in 1..(MaxLedger + 1)
  /\ status \in [Jobs -> Statuses] /\ owner \in [Jobs -> {Self, Other, Nobody}]
  /\ txs \subseteq Transactions
  /\ EntriesOf(disk) /\ EntriesOf(queue) /\ EntriesOf(held)
  /\ ledger \subseteq Jobs /\ completed \subseteq Jobs /\ unseen \subseteq Jobs
  /\ todo \subseteq Jobs /\ serving \in BOOLEAN
  /\ pc \in [Procs -> Labels] /\ at \in [Procs -> Jobs \cup {NoJob}]
  /\ attempt \in [Procs -> 0..maxAttempts]
  /\ mytx \in [Procs -> Transactions \cup {NoTx}]
  /\ deliveries \in 0..MaxDeliveries /\ faults \in 0..MaxFaults
  /\ blind \in 0..MaxBlind /\ crashes \in 0..MaxCrashes

Bonded(j) == status[j] = "accepted" /\ owner[j] = Self

\* A job that holds this operator's stake and can still be finished in time is
\* in accepted-jobs.json, whatever deliveries, passes, late transactions and
\* crashes came before; the exception is an entry the resume pass dropped
\* because it could not read the job (engine.ts resumeAcceptedJobs).
BondIsOnDisk ==
  \A j \in Jobs : Bonded(j) /\ HasHeadroom(j) /\ j \notin unseen => j \in DOMAIN disk

\* A job in the ledger, or reported to the hub as completed, has been
\* submitted on chain (engine.ts: every record follows a confirmed submission).
CompletedIsSubmitted ==
  \A j \in ledger \cup completed : status[j] = "submitted"

\* The queue keeps its promise: the bonds and intents of the node behave like
\* those of BondedJobs.
Promise == INSTANCE BondedJobs WITH
  intents <- DOMAIN disk,
  bonded <- {j \in Jobs : Bonded(j)},
  lost <- {j \in Jobs : ~HasHeadroom(j)} \cup unseen

KeepsPromise == Promise!Spec

\* A bonded job is submitted unless its headroom runs out first: the retries,
\* the resume pass and recovery at boot leave none behind.
AcceptedFinishes ==
  \A j \in Jobs : Bonded(j) ~> (~Bonded(j) \/ ~HasHeadroom(j) \/ j \in unseen)
==============================================================================
