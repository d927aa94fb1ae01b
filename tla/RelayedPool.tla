----------------------------- MODULE RelayedPool -----------------------------
(***************************************************************************)
(* The relayer registry and the privacy pool on one ledger: both contracts *)
(* hold XLM of the same asset contract, and submit_pool_withdraw of the    *)
(* registry calls withdraw of the pool inside one transaction.  A payload  *)
(* is the withdrawal it asks for.                                          *)
(*                                                                         *)
(* Of the administration only what decides over a withdrawal takes part    *)
(* (root publications and the withdrawal pause), of the staking calls only *)
(* register; the others are steps of one contract and checked there.       *)
(***************************************************************************)
EXTENDS Integers, Sequences, FiniteSets

CONSTANTS
  Accounts, Pool, Registry,
  Users,                 \* bound: the accounts that create jobs
  Operators,             \* bound: the accounts that run a relayer
  Deployer,              \* the account that initializes both contracts
  Commitments, Nullifiers, Roots, JobIds,
  Payloads,              \* the withdrawals jobs ask for
  Amounts, InitialBalance,
  MaxLedger,             \* bound: last ledger that closes
  MAX_COMMITMENTS, MAX_ROOT_HISTORY, WITHDRAWAL_PAUSE_TIMELOCK_LEDGERS,
  DEFAULT_ROOT_EXPIRY_LEDGERS, UnstakeCooldown, MaxDeadline,
  verify_proof_v3(_)

VARIABLES
  now, sac,
  \* the pool
  pool_admin, root_expiry, wd_admin, minimum, dep_count, tot_dep, tot_wd,
  cap_count, last_alert, commit, nullifiers, root_entry, history, dep_paused,
  wd_pause_req, events,
  \* the registry
  admin, minimum_stake, unstake_cooldown_ledgers, max_deadline_ledgers,
  relayers, jobs, slashed

pool_vars == <<pool_admin, root_expiry, wd_admin, minimum, dep_count, tot_dep,
               tot_wd, cap_count, last_alert, commit, nullifiers, root_entry,
               history, dep_paused, wd_pause_req, events>>
registry_vars == <<admin, minimum_stake, unstake_cooldown_ledgers,
                   max_deadline_ledgers, relayers, jobs, slashed>>
vars == <<now, sac, pool_vars, registry_vars>>

\* To each contract the other is one more address that may hold XLM.
P == INSTANCE PrivacyPool
       WITH Accounts <- Accounts \cup {Registry}, admin <- pool_admin,
            Expiries <- {}, MAX_MINIMUM <- 0
R == INSTANCE RelayerRegistry
       WITH Accounts <- Accounts \cup {Pool}, SlashAmounts <- {}, MaxSlashed <- 0,
            PoolCredits <- {}, Cooldowns <- {UnstakeCooldown},
            DeadlineSpans <- {MaxDeadline}

ASSUME RelayedAddressAssumption ==
  /\ Pool \notin Accounts /\ Registry \notin Accounts /\ Pool # Registry
  /\ Users \subseteq Accounts /\ Operators \subseteq Accounts /\ Deployer \in Accounts
  /\ IsFiniteSet(Accounts) /\ IsFiniteSet(JobIds)
ASSUME RelayedAmountsAssumption ==
  /\ Amounts \subseteq Int /\ InitialBalance \in Nat
  /\ Payloads \subseteq P!Withdrawals
ASSUME RelayedLedgerAssumption ==
  /\ MaxLedger \in Nat /\ UnstakeCooldown \in Nat /\ MaxDeadline \in Nat
  /\ WITHDRAWAL_PAUSE_TIMELOCK_LEDGERS \in Nat \ {0}
  /\ DEFAULT_ROOT_EXPIRY_LEDGERS \in Nat
  /\ MAX_COMMITMENTS \in Nat \ {0} /\ MAX_ROOT_HISTORY \in Nat \ {0}

Init ==
  /\ sac = [h \in Accounts \cup {Pool, Registry} |->
              IF h \in Accounts THEN InitialBalance ELSE 0]
  /\ P!InitStorage
  /\ R!InitStorage
  /\ admin = Deployer /\ pool_admin = Deployer

\* One transaction: the pool call pays first, then the registry pays the fee.
submit_pool_withdraw(operator, job_id, w) ==
  /\ P!withdraw_call(w)
  /\ R!submit_pool_withdraw(operator, job_id, w, P!PaidOut(w))

PoolCall ==
  /\ \/ \E a \in Accounts, v \in Amounts, c \in Commitments :
          P!deposit(a, v, c, dep_count)
     \/ \E w \in Payloads : P!withdraw(w)
     \/ \E kind \in P!Kinds, root \in Roots : P!publish_root(kind, Deployer, root)
     \/ P!request_pause_withdrawals(Deployer)
     \/ P!unpause_withdrawals(Deployer)
  /\ UNCHANGED registry_vars

RegistryCall ==
  /\ \/ \E a \in Operators :
          \/ \E stake \in Amounts : R!register(a, stake)
          \/ \E j \in JobIds : R!accept_job(a, j)
     \/ \E a \in Users, j \in JobIds :
          \/ \E w \in Payloads, d \in 1 .. (MaxLedger - 1), fee \in Amounts :
               R!create_job(a, j, w, d, fee)
          \/ R!slash_job(a, j)
          \/ R!cancel_job(a, j)
  /\ UNCHANGED pool_vars

CloseLedger == P!CloseLedger /\ R!CloseLedger

Next ==
  \/ PoolCall
  \/ RegistryCall
  \/ \E a \in Operators, j \in JobIds, w \in Payloads : submit_pool_withdraw(a, j, w)
  \/ CloseLedger

Spec == Init /\ [][Next]_vars

-----------------------------------------------------------------------------
(* Properties.                                                             *)

\* The two contracts stay solvent side by side: what the pool pays out for a
\* job is the pool's, the fee of the job is the registry's, and a relayer's bond is
\* the sum of the fees of all the jobs it has accepted.
BothSolvent == P!Custody /\ R!Solvent /\ R!BondedIsAcceptedFees

\* A job is submitted only by the transaction in which the pool makes the very
\* withdrawal the job asked for: the note is spent and the value leaves the
\* pool in the step that pays the fee out of the registry (the payload hash
\* check, and the pool call that comes before the payment).  The balances are
\* those of a withdrawal that pays neither of the two contracts.
SubmittedMeansWithdrawn ==
  [][\A j \in DOMAIN jobs :
       jobs[j].status # R!STATUS_SUBMITTED /\ jobs'[j].status = R!STATUS_SUBMITTED =>
         LET w == jobs[j].payload_hash
         IN  /\ w.nullifier_hash \in nullifiers' \ nullifiers
             /\ {w.recipient, w.relayer} \subseteq Accounts =>
                  /\ sac'[Pool] = sac[Pool] - w.value
                  /\ sac'[Registry] = sac[Registry] - jobs[j].fee]_vars

\* Jobs for the same note, also by different creators, are not paid twice: the
\* pool's nullifier stops the second submission.
OneFeePerNote ==
  \A i, j \in DOMAIN jobs :
    /\ jobs[i].status = R!STATUS_SUBMITTED /\ jobs[j].status = R!STATUS_SUBMITTED
    /\ jobs[i].payload_hash.nullifier_hash = jobs[j].payload_hash.nullifier_hash
    => i = j
==============================================================================
