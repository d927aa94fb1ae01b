--------------------------- MODULE RelayerRegistry ---------------------------
(***************************************************************************)
(* The relayer-registry contract (contracts/relayer-registry/src: lib.rs,  *)
(* slashing.rs): relayers stake XLM, creators escrow a fee for a job, the  *)
(* relayer that accepts it bonds the same amount and submits the privacy   *)
(* pool withdrawal the job commits to.                                     *)
(*                                                                         *)
(* As in PrivacyPool a failing call reverts and is not a step.  A payload  *)
(* stands for its own hash.  The pool call of submit_pool_withdraw is seen *)
(* through the balances it leaves behind, an argument of the action.       *)
(***************************************************************************)
EXTENDS FiniteSets, Functions, SorobanHost

CONSTANTS
  Accounts, Registry,
  JobIds, Payloads,
  Amounts,         \* i128 arguments: stakes, fees
  SlashAmounts,    \* arguments of report_slash
  Cooldowns, DeadlineSpans,  \* u32 arguments of set_config
  PoolCredits,     \* what a pool withdrawal may pay to a holder
  InitialBalance,
  MaxLedger,       \* bound: last ledger that closes, after every deadline
  MaxSlashed       \* bound: total of the reports against a relayer

ASSUME RegistryAddressAssumption == Registry \notin Accounts
\* Addresses and job ids are 32 bytes.
ASSUME RegistryFiniteAssumption == IsFiniteSet(Accounts) /\ IsFiniteSet(JobIds)
ASSUME RegistryAmountsAssumption ==
  /\ Amounts \subseteq Int /\ SlashAmounts \subseteq Int
  /\ PoolCredits \subseteq Nat /\ InitialBalance \in Nat /\ MaxSlashed \in Nat
ASSUME RegistryLedgerAssumption ==
  /\ MaxLedger \in Nat /\ Cooldowns \subseteq Nat /\ DeadlineSpans \subseteq Nat

Holders == Accounts \cup {Registry}

STATUS_OPEN == 0
STATUS_ACCEPTED == 1
STATUS_SUBMITTED == 2
STATUS_SLASHED == 3
STATUS_CANCELED == 4

NoRelayer == "none"

VARIABLES
  now,
  admin, minimum_stake, unstake_cooldown_ledgers, max_deadline_ledgers,
  relayers,     \* operator -> RelayerRecord, for the registered ones
  jobs,         \* job id -> JobRecord, for the created ones
  slashed,      \* relayer -> total_slashed of its RelayerSlashRecord
  sac

config == <<admin, minimum_stake, unstake_cooldown_ledgers,
            max_deadline_ledgers>>
vars == <<now, config, relayers, jobs, slashed, sac>>

RelayerRecord ==
  [free_stake : Nat, bonded_stake : Int, pending_unstake : Nat,
   unstake_unlock_ledger : Nat]

JobRecord ==
  [creator : Accounts, payload_hash : Payloads, fee : Nat,
   deadline_ledger : Nat, accepted_relayer : Accounts \cup {NoRelayer},
   status : STATUS_OPEN .. STATUS_CANCELED]

-----------------------------------------------------------------------------
(* Storage and transfers.                                                  *)

Lesser(a, b) == IF a <= b THEN a ELSE b

\* write_relayer and write_job of a new key
put(f, key, record) ==
  [k \in DOMAIN f \cup {key} |-> IF k = key THEN record ELSE f[k]]

Paid(bal, to, amount) ==
  /\ bal[Registry] >= amount
  /\ sac' = transfer(bal, Registry, to, amount)

Collected(from, amount) ==
  /\ sac[from] >= amount
  /\ sac' = transfer(sac, from, Registry, amount)

-----------------------------------------------------------------------------
InitStorage ==
  /\ now = 1
  /\ admin \in Accounts
  /\ minimum_stake \in {a \in Amounts : a > 0}
  /\ unstake_cooldown_ledgers \in Cooldowns \ {0}
  /\ max_deadline_ledgers \in DeadlineSpans \ {0}
  /\ relayers = [a \in {} |-> 0]
  /\ jobs = [j \in {} |-> 0]
  /\ slashed = [a \in Accounts |-> 0]

Init ==
  /\ InitStorage
  /\ sac = [h \in Holders |-> IF h = Registry THEN 0 ELSE InitialBalance]

register(operator, stake) ==
  /\ stake >= minimum_stake
  /\ operator \notin DOMAIN relayers
  /\ Collected(operator, stake)
  /\ relayers' = put(relayers, operator,
       [free_stake |-> stake, bonded_stake |-> 0, pending_unstake |-> 0,
        unstake_unlock_ledger |-> 0])
  /\ UNCHANGED <<now, config, jobs, slashed>>

add_stake(operator, amount) ==
  /\ amount > 0
  /\ operator \in DOMAIN relayers
  /\ Collected(operator, amount)
  /\ relayers' = [relayers EXCEPT ![operator].free_stake = @ + amount]
  /\ UNCHANGED <<now, config, jobs, slashed>>

request_unstake(operator, amount) ==
  /\ amount > 0
  /\ operator \in DOMAIN relayers
  /\ relayers[operator].free_stake >= amount
  /\ relayers' = [relayers EXCEPT
       ![operator].free_stake = @ - amount,
       ![operator].pending_unstake = @ + amount,
       ![operator].unstake_unlock_ledger = now + unstake_cooldown_ledgers]
  /\ UNCHANGED <<now, config, jobs, slashed, sac>>

withdraw_stake(operator) ==
  /\ operator \in DOMAIN relayers
  /\ relayers[operator].pending_unstake > 0
  /\ now >= relayers[operator].unstake_unlock_ledger
  /\ relayers' = [relayers EXCEPT ![operator].pending_unstake = 0,
                                  ![operator].unstake_unlock_ledger = 0]
  /\ Paid(sac, operator, relayers[operator].pending_unstake)
  /\ UNCHANGED <<now, config, jobs, slashed>>

create_job(creator, job_id, payload_hash, deadline_ledger, fee) ==
  /\ fee > 0
  /\ deadline_ledger > now
  /\ deadline_ledger - now <= max_deadline_ledgers
  /\ job_id \notin DOMAIN jobs
  /\ Collected(creator, fee)
  /\ jobs' = put(jobs, job_id,
       [creator |-> creator, payload_hash |-> payload_hash, fee |-> fee,
        deadline_ledger |-> deadline_ledger, accepted_relayer |-> NoRelayer,
        status |-> STATUS_OPEN])
  /\ UNCHANGED <<now, config, relayers, slashed>>

accept_job(operator, job_id) ==
  /\ job_id \in DOMAIN jobs /\ jobs[job_id].status = STATUS_OPEN
  /\ now < jobs[job_id].deadline_ledger
  /\ operator \in DOMAIN relayers
  /\ LET fee == jobs[job_id].fee
     IN  /\ relayers[operator].free_stake >= fee
         /\ relayers' = [relayers EXCEPT ![operator].free_stake = @ - fee,
                                         ![operator].bonded_stake = @ + fee]
  /\ jobs' = [jobs EXCEPT ![job_id].accepted_relayer = operator,
                          ![job_id].status = STATUS_ACCEPTED]
  /\ UNCHANGED <<now, config, slashed, sac>>

\* Mutant: the payload is not compared with the hash of the job.
submit_pool_withdraw_AnyPayload(operator, job_id, payload, after_pool) ==
  /\ job_id \in DOMAIN jobs /\ jobs[job_id].status = STATUS_ACCEPTED
  /\ jobs[job_id].accepted_relayer = operator
  /\ now < jobs[job_id].deadline_ledger
  /\ LET fee == jobs[job_id].fee
     IN  /\ relayers' = [relayers EXCEPT ![operator].bonded_stake = @ - fee,
                                         ![operator].free_stake = @ + fee]
         /\ Paid(after_pool, operator, fee)
  /\ jobs' = [jobs EXCEPT ![job_id].status = STATUS_SUBMITTED]
  /\ UNCHANGED <<now, config, slashed>>

\* after_pool: the balances the call of the pool's withdraw leaves.
submit_pool_withdraw(operator, job_id, payload, after_pool) ==
  /\ job_id \in DOMAIN jobs /\ jobs[job_id].status = STATUS_ACCEPTED
  /\ jobs[job_id].accepted_relayer = operator
  /\ now < jobs[job_id].deadline_ledger
  /\ payload = jobs[job_id].payload_hash
  /\ LET fee == jobs[job_id].fee
     IN  /\ relayers' = [relayers EXCEPT ![operator].bonded_stake = @ - fee,
                                         ![operator].free_stake = @ + fee]
         /\ Paid(after_pool, operator, fee)
  /\ jobs' = [jobs EXCEPT ![job_id].status = STATUS_SUBMITTED]
  /\ UNCHANGED <<now, config, slashed>>

\* Mutant: the bond is not released.
slashed_relayer_Bonded(relayer, fee) ==
  LET pending == relayer.pending_unstake - Lesser(relayer.pending_unstake, fee)
  IN  [relayer EXCEPT !.pending_unstake = pending,
                      !.unstake_unlock_ledger = IF pending = 0 THEN 0 ELSE @]

\* Mutant: the lock of an unstake that is slashed away stays.
slashed_relayer_Locked(relayer, fee) ==
  [relayer EXCEPT !.bonded_stake = @ - fee,
                  !.pending_unstake = @ - Lesser(@, fee)]

\* The relayer's record after a missed deadline.
slashed_relayer(relayer, fee) ==
  LET pending == relayer.pending_unstake - Lesser(relayer.pending_unstake, fee)
  IN  [relayer EXCEPT !.bonded_stake = @ - fee,
                      !.pending_unstake = pending,
                      !.unstake_unlock_ledger = IF pending = 0 THEN 0 ELSE @]

\* Mutant: a job that was submitted in time can still be slashed.
missed_Submitted(job) ==
  job.status \in {STATUS_ACCEPTED, STATUS_SUBMITTED} /\ now > job.deadline_ledger

missed(job) == job.status = STATUS_ACCEPTED /\ now > job.deadline_ledger

slash_job(creator, job_id) ==
  /\ job_id \in DOMAIN jobs
  /\ jobs[job_id].creator = creator
  /\ missed(jobs[job_id])
  /\ LET fee == jobs[job_id].fee
         operator == jobs[job_id].accepted_relayer
     IN  /\ relayers' = [relayers EXCEPT ![operator] = slashed_relayer(@, fee)]
         /\ Paid(sac, creator, fee * 2)
  /\ jobs' = [jobs EXCEPT ![job_id].status = STATUS_SLASHED]
  /\ UNCHANGED <<now, config, slashed>>

\* Mutant: the creator has to wait out the longest deadline as well.
cancel_job_Strict(creator, job_id) ==
  /\ job_id \in DOMAIN jobs
  /\ jobs[job_id].creator = creator
  /\ jobs[job_id].status = STATUS_OPEN
  /\ now > jobs[job_id].deadline_ledger + max_deadline_ledgers
  /\ jobs' = [jobs EXCEPT ![job_id].status = STATUS_CANCELED]
  /\ Paid(sac, creator, jobs[job_id].fee)
  /\ UNCHANGED <<now, config, relayers, slashed>>

cancel_job(creator, job_id) ==
  /\ job_id \in DOMAIN jobs
  /\ jobs[job_id].creator = creator
  /\ jobs[job_id].status = STATUS_OPEN
  /\ now > jobs[job_id].deadline_ledger
  /\ jobs' = [jobs EXCEPT ![job_id].status = STATUS_CANCELED]
  /\ Paid(sac, creator, jobs[job_id].fee)
  /\ UNCHANGED <<now, config, relayers, slashed>>

set_config(caller, stake, cooldown, span) ==
  /\ caller = admin
  /\ stake > 0 /\ cooldown # 0 /\ span # 0
  /\ minimum_stake' = stake
  /\ unstake_cooldown_ledgers' = cooldown
  /\ max_deadline_ledgers' = span
  /\ UNCHANGED <<now, admin, relayers, jobs, slashed, sac>>

transfer_admin(caller, new_admin) ==
  /\ caller = admin
  /\ admin' = new_admin
  /\ UNCHANGED <<now, minimum_stake, unstake_cooldown_ledgers,
                 max_deadline_ledgers, relayers, jobs, slashed, sac>>

\* What report_slash takes from the bonded stake.  The contract takes the
\* minimum as u128, where a negative stake is larger than any amount.
slash_from_bonded(relayer, amount) ==
  IF relayer.bonded_stake < 0 THEN amount
  ELSE Lesser(amount, relayer.bonded_stake)

\* Mutant: the rest is taken from the free stake whether it is there or not.
slash_from_free_All(relayer, amount) ==
  amount - slash_from_bonded(relayer, amount)

slash_from_free(relayer, amount) ==
  Lesser(amount - slash_from_bonded(relayer, amount), relayer.free_stake)

\* A report whose evidence passes slashing::verify_slash_proof.
report_slash(operator, reporter, slash_amount) ==
  /\ slash_amount > 0
  /\ operator \in DOMAIN relayers
  /\ slashed[operator] + slash_amount <= MaxSlashed
  /\ slashed' = [slashed EXCEPT ![operator] = @ + slash_amount]
  /\ LET relayer == relayers[operator]
     IN  relayers' = [relayers EXCEPT
           ![operator].bonded_stake = @ - slash_from_bonded(relayer, slash_amount),
           ![operator].free_stake = @ - slash_from_free(relayer, slash_amount)]
  /\ Paid(sac, reporter, slash_amount)
  /\ UNCHANGED <<now, config, jobs>>

CloseLedger ==
  /\ now < MaxLedger
  /\ now' = now + 1
  /\ UNCHANGED <<config, relayers, jobs, slashed, sac>>

\* Balances after a pool withdrawal that pays some holder.
AfterPool == {[sac EXCEPT ![h] = @ + v] : h \in Holders, v \in PoolCredits}

StakeCall(a) ==
  \/ \E s \in Amounts : register(a, s) \/ add_stake(a, s) \/ request_unstake(a, s)
  \/ withdraw_stake(a)

JobCall(a, j) ==
  \/ \E p \in Payloads, d \in 1 .. (MaxLedger - 1), fee \in Amounts :
       create_job(a, j, p, d, fee)
  \/ accept_job(a, j)
  \/ \E p \in Payloads, after \in AfterPool : submit_pool_withdraw(a, j, p, after)
  \/ slash_job(a, j)
  \/ cancel_job(a, j)

AdminCall(a) ==
  \/ \E s \in Amounts, c \in Cooldowns, d \in DeadlineSpans : set_config(a, s, c, d)
  \/ \E b \in Accounts : transfer_admin(a, b)

Next ==
  \/ \E a \in Accounts : StakeCall(a) \/ AdminCall(a)
  \/ \E a \in Accounts, j \in JobIds : JobCall(a, j)
  \/ \E a \in Accounts, h \in Holders, v \in SlashAmounts : report_slash(a, h, v)
  \/ CloseLedger

Spec == Init /\ [][Next]_vars

\* Ledgers keep closing, and a creator whose job has missed its deadline asks
\* for the escrow back.
Fairness ==
  /\ WF_vars(CloseLedger)
  /\ \A a \in Accounts, j \in JobIds :
       WF_vars(slash_job(a, j)) /\ WF_vars(cancel_job(a, j))

FairSpec == Spec /\ Fairness

-----------------------------------------------------------------------------
(* Properties.                                                             *)

Settled(job) == job.status \in {STATUS_SUBMITTED, STATUS_SLASHED, STATUS_CANCELED}

AcceptedBy(a) ==
  {j \in DOMAIN jobs :
     jobs[j].status = STATUS_ACCEPTED /\ jobs[j].accepted_relayer = a}

SumFees(J) == SumFunctionOnSet([j \in DOMAIN jobs |-> jobs[j].fee], J)

StakeOf(relayer) ==
  relayer.free_stake + relayer.bonded_stake + relayer.pending_unstake

\* What the registry owes: every stake, and the escrow of every unsettled job.
Owed ==
  SumFunction([a \in DOMAIN relayers |-> StakeOf(relayers[a])])
    + SumFees({j \in DOMAIN jobs : ~Settled(jobs[j])})

\* Every variable has the type of the storage entry it models.
TypeOK ==
  /\ now \in 1 .. (MaxLedger + 1)
  /\ admin \in Accounts
  /\ minimum_stake \in Nat \ {0}
  /\ unstake_cooldown_ledgers \in Nat \ {0}
  /\ max_deadline_ledgers \in Nat \ {0}
  /\ DOMAIN relayers \subseteq Accounts
  /\ relayers \in [DOMAIN relayers -> RelayerRecord]
  /\ DOMAIN jobs \subseteq JobIds
  /\ jobs \in [DOMAIN jobs -> JobRecord]
  /\ slashed \in [Accounts -> Nat]
  /\ sac \in [Holders -> Nat]

\* The registry can pay every stake and every escrow, in whatever order
\* accepting, submitting, slashing, canceling and unstaking interleave; only
\* what report_slash has paid out may be missing.
Solvent ==
  sac[Registry] + SumFunction(slashed) >= Owed

\* A relayer that was never reported has bonded exactly the fees of the jobs it
\* has accepted and not finished: submit_pool_withdraw and slash_job release
\* what accept_job bonded, so that the stake of a job is there to be slashed.
BondedIsAcceptedFees ==
  \A a \in DOMAIN relayers :
    slashed[a] = 0 => relayers[a].bonded_stake = SumFees(AcceptedBy(a))

\* A pending unstake always carries an unlock ledger, and only a pending
\* unstake does, also after slash_job has eaten into it: withdraw_stake would
\* otherwise pay it at once, or a later request would be judged by an old lock.
PendingIsLocked ==
  \A a \in DOMAIN relayers :
    relayers[a].pending_unstake = 0 <=> relayers[a].unstake_unlock_ledger = 0

\* An accepted or finished job names a registered relayer, an open or canceled
\* one names none: the relayer that accepted is the one paid or slashed.
JobNamesItsRelayer ==
  \A j \in DOMAIN jobs :
    IF jobs[j].status \in {STATUS_OPEN, STATUS_CANCELED}
    THEN jobs[j].accepted_relayer = NoRelayer
    ELSE jobs[j].accepted_relayer \in DOMAIN relayers

\* Relayer and job records stay consistent with each other and in themselves
\* along every path of accept_job, slash_job, cancel_job and the unstaking calls.
RecordsAgree == PendingIsLocked /\ JobNamesItsRelayer

\* The terms of a job never change once it is created, a job is accepted once,
\* and a settled job stays as it is: no escrow is paid out twice.
JobsAreFinal ==
  [][\A j \in DOMAIN jobs :
       /\ j \in DOMAIN jobs'
       /\ jobs'[j].creator = jobs[j].creator
       /\ jobs'[j].payload_hash = jobs[j].payload_hash
       /\ jobs'[j].fee = jobs[j].fee
       /\ jobs'[j].deadline_ledger = jobs[j].deadline_ledger
       /\ jobs[j].status # STATUS_OPEN =>
            jobs'[j].accepted_relayer = jobs[j].accepted_relayer
       /\ Settled(jobs[j]) => jobs'[j].status = jobs[j].status]_vars

\* No fee stays locked in the registry: every job whose ledgers close is
\* submitted, or slashed or canceled by its creator, whatever relayers do.
\* Once report_slash has paid more than it took the balance may not reach for
\* the creator's refund, so the promise ends with the first report.
JobsSettle ==
  \A j \in JobIds :
    (j \in DOMAIN jobs)
      ~> \/ j \in DOMAIN jobs /\ Settled(jobs[j])
         \/ \E a \in Accounts : slashed[a] > 0

-----------------------------------------------------------------------------
(* What comments and documents say and the code does not do.               *)

\* report_slash, "The slashed amount is transferred to the reporter": what the
\* reporter gets is what the relayer loses.
ReporterGetsSlashedAmount ==
  [][\A a \in DOMAIN relayers :
       slashed'[a] > slashed[a] =>
         StakeOf(relayers[a]) - StakeOf(relayers'[a]) = slashed'[a] - slashed[a]]_vars
==============================================================================
