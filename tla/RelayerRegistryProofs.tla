------------------------ MODULE RelayerRegistryProofs ------------------------
(***************************************************************************)
(* Proofs about RelayerRegistry, for all accounts, jobs, amounts, pool     *)
(* payments and configurations: its records, and then its books, what the  *)
(* stakes, the escrows and the bonds add up to and that the balance covers *)
(* them.  The books need sums over finite sets, which come in between.     *)
(***************************************************************************)
EXTENDS Integers, Sequences, RelayerRegistry, WellFoundedInduction, TLAPS

USE ZenonT(20)

\* The inductive invariant.  A submission or a slash updates the record of the
\* relayer the job names, which is typed only because that relayer exists.
RegistryInv == TypeOK /\ PendingIsLocked /\ JobNamesItsRelayer

-----------------------------------------------------------------------------
(* Storage and transfers.                                                  *)

\* A covered transfer between holders leaves every balance a natural number.
LEMMA TransferType ==
  ASSUME NEW S, NEW bal \in [S -> Nat], NEW from \in S, NEW to \in S,
         NEW amount \in Nat, bal[from] >= amount
  PROVE  transfer(bal, from, to, amount) \in [S -> Nat]
BY SMTT(30) DEF transfer

\* A transfer takes at most its amount from any holder, and gives it to a
\* receiver that is not the sender.
LEMMA TransferBalance ==
  ASSUME NEW S, NEW bal \in [S -> Nat], NEW from \in S, NEW to \in S,
         NEW amount \in Nat, bal[from] >= amount, NEW h \in S
  PROVE  /\ transfer(bal, from, to, amount)[h] >= bal[h] - amount
         /\ h # from => transfer(bal, from, to, amount)[h] >= bal[h]
         /\ from # to => transfer(bal, from, to, amount)[to] = bal[to] + amount
BY SMTT(30) DEF transfer

\* Payments of the registry and to it keep the balances natural numbers.
LEMMA PaidType ==
  ASSUME NEW bal \in [Holders -> Nat], NEW to \in Holders, NEW amount \in Nat,
         Paid(bal, to, amount)
  PROVE  sac' \in [Holders -> Nat]
<1>1. Registry \in Holders /\ bal[Registry] >= amount
  BY DEF Holders, Paid
<1> QED BY <1>1, TransferType DEF Paid

\* The same for what an account pays in.
LEMMA CollectedType ==
  ASSUME sac \in [Holders -> Nat], NEW from \in Accounts, NEW amount \in Nat,
         Collected(from, amount)
  PROVE  sac' \in [Holders -> Nat]
<1>1. Registry \in Holders /\ from \in Holders /\ sac[from] >= amount
  BY DEF Holders, Collected
<1> QED BY <1>1, TransferType DEF Collected

\* The invariant splits into what a step may disturb: the records of the
\* relayers, those of the jobs, and the rest of the types.
RelayersOK(R) ==
  /\ DOMAIN R \subseteq Accounts
  /\ R \in [DOMAIN R -> RelayerRecord]
  /\ \A a \in DOMAIN R : R[a].pending_unstake = 0 <=> R[a].unstake_unlock_ledger = 0

JobOK(job, R) ==
  /\ job \in JobRecord
  /\ IF job.status \in {STATUS_OPEN, STATUS_CANCELED}
     THEN job.accepted_relayer = NoRelayer
     ELSE job.accepted_relayer \in R

JobsOK(J, R) ==
  /\ DOMAIN J \subseteq JobIds
  /\ J = [j \in DOMAIN J |-> J[j]]
  /\ \A j \in DOMAIN J : JobOK(J[j], R)

RestOK ==
  /\ now \in 1 .. (MaxLedger + 1)
  /\ admin \in Accounts
  /\ minimum_stake \in Nat \ {0}
  /\ unstake_cooldown_ledgers \in Nat \ {0}
  /\ max_deadline_ledgers \in Nat \ {0}
  /\ slashed \in [Accounts -> Nat]
  /\ sac \in [Holders -> Nat]

\* The parts make up the invariant.
LEMMA InvParts ==
  RegistryInv <=> RestOK /\ RelayersOK(relayers) /\ JobsOK(jobs, DOMAIN relayers)
BY DEF RegistryInv, TypeOK, PendingIsLocked, JobNamesItsRelayer, RestOK,
       RelayersOK, JobsOK, JobOK

\* The same in the next state.
LEMMA InvPartsNext ==
  RegistryInv' <=>
    RestOK' /\ RelayersOK(relayers') /\ JobsOK(jobs', DOMAIN relayers')
BY DEF RegistryInv, TypeOK, PendingIsLocked, JobNamesItsRelayer, RestOK,
       RelayersOK, JobsOK, JobOK

\* Replacing the record of a registered relayer by a good one.
LEMMA UpdateRelayer ==
  ASSUME NEW R, RelayersOK(R), NEW a \in DOMAIN R, NEW record \in RelayerRecord,
         record.pending_unstake = 0 <=> record.unstake_unlock_ledger = 0
  PROVE  /\ RelayersOK([R EXCEPT ![a] = record])
         /\ DOMAIN [R EXCEPT ![a] = record] = DOMAIN R
BY DEF RelayersOK

\* Replacing the record of a job by a good one.
LEMMA UpdateJob ==
  ASSUME NEW J, NEW R, JobsOK(J, R), NEW j \in DOMAIN J, NEW record,
         JobOK(record, R)
  PROVE  JobsOK([J EXCEPT ![j] = record], R)
BY DEF JobsOK

-----------------------------------------------------------------------------
(* One lemma per entry point.                                              *)

\* register adds a record with no bonded and no pending stake.
LEMMA RegisterInv ==
  ASSUME RegistryInv, NEW a \in Accounts, NEW s \in Amounts, register(a, s)
  PROVE  RegistryInv'
<1> DEFINE record == [free_stake |-> s, bonded_stake |-> 0,
                      pending_unstake |-> 0, unstake_unlock_ledger |-> 0]
<1>1. RestOK /\ RelayersOK(relayers) /\ JobsOK(jobs, DOMAIN relayers)
  BY InvParts
<1>2. s \in Nat
  BY <1>1, RegistryAmountsAssumption, SMTT(30) DEF register, RestOK
<1>3. RestOK'
  <2>1. sac' \in [Holders -> Nat]
    BY <1>1, <1>2, CollectedType DEF register, RestOK
  <2> QED BY <1>1, <2>1 DEF register, RestOK, config
<1>4. relayers' = put(relayers, a, record) /\ jobs' = jobs
  BY DEF register
<1>5. record \in RelayerRecord
  BY <1>2, SMTT(30) DEF RelayerRecord
<1>6. RelayersOK(relayers') /\ DOMAIN relayers' = DOMAIN relayers \cup {a}
  <2>1. /\ record.pending_unstake = 0 /\ record.unstake_unlock_ledger = 0
    OBVIOUS
  <2> HIDE DEF record
  <2>2. /\ DOMAIN relayers \subseteq Accounts
        /\ relayers \in [DOMAIN relayers -> RelayerRecord]
    BY <1>1 DEF RelayersOK
  <2>3. /\ DOMAIN relayers' = DOMAIN relayers \cup {a}
        /\ DOMAIN relayers' \subseteq Accounts
        /\ relayers' \in [DOMAIN relayers' -> RelayerRecord]
        /\ relayers'[a] = record
        /\ \A k \in DOMAIN relayers : k # a => relayers'[k] = relayers[k]
    BY <1>4, <1>5, <2>2 DEF put
  <2>4. \A k \in DOMAIN relayers : relayers[k].pending_unstake = 0 <=>
                                    relayers[k].unstake_unlock_ledger = 0
    BY <1>1 DEF RelayersOK
  <2>5. \A k \in DOMAIN relayers' : relayers'[k].pending_unstake = 0 <=>
                                     relayers'[k].unstake_unlock_ledger = 0
    BY <2>1, <2>3, <2>4
  <2> QED BY <2>3, <2>5 DEF RelayersOK
<1>7. JobsOK(jobs', DOMAIN relayers')
  BY <1>1, <1>4, <1>6 DEF JobsOK, JobOK
<1> QED BY <1>3, <1>6, <1>7, InvPartsNext

\* add_stake, request_unstake and withdraw_stake update one relayer's record.
LEMMA StakeInv ==
  ASSUME RegistryInv, NEW a \in Accounts, NEW s \in Amounts \cup {0},
         add_stake(a, s) \/ request_unstake(a, s) \/ withdraw_stake(a)
  PROVE  RegistryInv'
<1>1. RestOK /\ RelayersOK(relayers) /\ JobsOK(jobs, DOMAIN relayers)
  BY InvParts
<1>2. /\ a \in DOMAIN relayers /\ a \in Holders
      /\ relayers[a] \in RelayerRecord
      /\ relayers[a].pending_unstake = 0 <=> relayers[a].unstake_unlock_ledger = 0
  BY <1>1 DEF add_stake, request_unstake, withdraw_stake, RelayersOK, Holders
<1>3. /\ relayers[a].free_stake \in Nat /\ relayers[a].bonded_stake \in Int
      /\ relayers[a].pending_unstake \in Nat
      /\ relayers[a].unstake_unlock_ledger \in Nat
      /\ now \in Nat \ {0} /\ unstake_cooldown_ledgers \in Nat
      /\ s \in Int /\ sac \in [Holders -> Nat]
  <2>1. /\ relayers[a].free_stake \in Nat /\ relayers[a].bonded_stake \in Int
        /\ relayers[a].pending_unstake \in Nat
        /\ relayers[a].unstake_unlock_ledger \in Nat
    BY <1>2 DEF RelayerRecord
  <2>2. /\ now \in Nat \ {0} /\ unstake_cooldown_ledgers \in Nat
        /\ sac \in [Holders -> Nat]
    BY <1>1, SMTT(30) DEF RestOK
  <2>3. s \in Int
    BY RegistryAmountsAssumption, SMTT(30)
  <2> QED BY <2>1, <2>2, <2>3
<1>4. PICK record \in RelayerRecord :
        /\ relayers' = [relayers EXCEPT ![a] = record]
        /\ record.pending_unstake = 0 <=> record.unstake_unlock_ledger = 0
  <2>1. CASE add_stake(a, s)
    <3> DEFINE r == [relayers[a] EXCEPT !.free_stake = @ + s]
    <3>1. r \in RelayerRecord
      BY <1>2, <1>3, <2>1, SMTT(30) DEF add_stake, RelayerRecord
    <3>2. relayers' = [relayers EXCEPT ![a] = r]
      BY <1>2, <2>1 DEF add_stake
    <3>3. r.pending_unstake = 0 <=> r.unstake_unlock_ledger = 0
      BY <1>2 DEF RelayerRecord
    <3> QED BY <3>1, <3>2, <3>3
  <2>2. CASE request_unstake(a, s)
    <3> DEFINE r == [relayers[a] EXCEPT
                       !.free_stake = @ - s, !.pending_unstake = @ + s,
                       !.unstake_unlock_ledger = now + unstake_cooldown_ledgers]
    <3>1. s > 0 /\ relayers[a].free_stake >= s
      BY <2>2 DEF request_unstake
    <3>2. r \in RelayerRecord
      <4>1. /\ relayers[a].free_stake - s \in Nat
            /\ relayers[a].pending_unstake + s \in Nat
            /\ now + unstake_cooldown_ledgers \in Nat
        BY <1>3, <3>1, SMTT(30)
      <4> QED BY <1>2, <4>1 DEF RelayerRecord
    <3>3. relayers' = [relayers EXCEPT ![a] = r]
      BY <1>2, <2>2 DEF request_unstake
    <3>4. r.pending_unstake # 0 /\ r.unstake_unlock_ledger # 0
      BY <1>2, <1>3, <3>1, SMTT(30) DEF RelayerRecord
    <3> QED BY <3>2, <3>3, <3>4
  <2>3. CASE withdraw_stake(a)
    <3> DEFINE r == [relayers[a] EXCEPT !.pending_unstake = 0,
                                        !.unstake_unlock_ledger = 0]
    <3>1. r \in RelayerRecord
      BY <1>2 DEF RelayerRecord
    <3>2. relayers' = [relayers EXCEPT ![a] = r]
      BY <1>2, <2>3 DEF withdraw_stake
    <3>3. r.pending_unstake = 0 /\ r.unstake_unlock_ledger = 0
      BY <1>2 DEF RelayerRecord
    <3> QED BY <3>1, <3>2, <3>3
  <2> QED BY <2>1, <2>2, <2>3
<1>5. RelayersOK(relayers') /\ DOMAIN relayers' = DOMAIN relayers
  BY <1>1, <1>2, <1>4, UpdateRelayer
<1>6. sac' \in [Holders -> Nat]
  <2>1. CASE add_stake(a, s)
    BY <1>3, <2>1, CollectedType, SMTT(30) DEF add_stake
  <2>2. CASE request_unstake(a, s)
    BY <1>3, <2>2 DEF request_unstake
  <2>3. CASE withdraw_stake(a)
    BY <1>2, <1>3, <2>3, PaidType DEF withdraw_stake
  <2> QED BY <2>1, <2>2, <2>3
<1>7. UNCHANGED <<now, config, jobs, slashed>>
  BY DEF add_stake, request_unstake, withdraw_stake
<1>8. RestOK'
  BY <1>1, <1>6, <1>7 DEF RestOK, config
<1>9. JobsOK(jobs', DOMAIN relayers')
  BY <1>1, <1>5, <1>7
<1> QED BY <1>5, <1>8, <1>9, InvPartsNext

\* create_job adds an open job and collects its fee.
LEMMA CreateInv ==
  ASSUME RegistryInv, NEW a \in Accounts, NEW j \in JobIds, NEW p \in Payloads,
         NEW d \in 1 .. (MaxLedger - 1), NEW fee \in Amounts,
         create_job(a, j, p, d, fee)
  PROVE  RegistryInv'
<1> DEFINE job == [creator |-> a, payload_hash |-> p, fee |-> fee,
                   deadline_ledger |-> d, accepted_relayer |-> NoRelayer,
                   status |-> STATUS_OPEN]
<1>1. RestOK /\ RelayersOK(relayers) /\ JobsOK(jobs, DOMAIN relayers)
  BY InvParts
<1>2. fee \in Nat /\ d \in Nat
  BY RegistryAmountsAssumption, RegistryLedgerAssumption, SMTT(30) DEF create_job
<1>3. sac' \in [Holders -> Nat]
  BY <1>1, <1>2, CollectedType DEF create_job, RestOK
<1>4. UNCHANGED <<now, config, relayers, slashed>>
  BY DEF create_job
<1>5. RestOK'
  BY <1>1, <1>3, <1>4 DEF RestOK, config
<1>6. jobs' = put(jobs, j, job)
  BY DEF create_job
<1>7. JobOK(job, DOMAIN relayers)
  <2>1. job \in JobRecord
    BY <1>2, SMTT(30) DEF JobRecord, STATUS_OPEN, STATUS_CANCELED
  <2>2. job.status = STATUS_OPEN /\ job.accepted_relayer = NoRelayer
    OBVIOUS
  <2> HIDE DEF job
  <2> QED BY <2>1, <2>2 DEF JobOK
<1>8. JobsOK(jobs', DOMAIN relayers)
  <2> HIDE DEF job
  <2> QED BY <1>1, <1>6, <1>7 DEF JobsOK, put
<1> QED BY <1>1, <1>4, <1>5, <1>8, InvPartsNext

\* accept_job moves the fee from the free to the bonded stake.
LEMMA AcceptInv ==
  ASSUME RegistryInv, NEW a \in Accounts, NEW j \in JobIds, accept_job(a, j)
  PROVE  RegistryInv'
<1> DEFINE fee == jobs[j].fee
           record == [relayers[a] EXCEPT !.free_stake = @ - fee,
                                         !.bonded_stake = @ + fee]
           job == [jobs[j] EXCEPT !.accepted_relayer = a,
                                  !.status = STATUS_ACCEPTED]
<1>1. RestOK /\ RelayersOK(relayers) /\ JobsOK(jobs, DOMAIN relayers)
  BY InvParts
<1>2. /\ a \in DOMAIN relayers /\ j \in DOMAIN jobs
      /\ relayers[a].free_stake >= fee
      /\ relayers' = [relayers EXCEPT ![a] = record]
      /\ jobs' = [jobs EXCEPT ![j] = job]
      /\ UNCHANGED <<now, config, slashed, sac>>
  BY DEF accept_job
<1>3. relayers[a] \in RelayerRecord /\ jobs[j] \in JobRecord
  BY <1>1, <1>2 DEF RelayersOK, JobsOK, JobOK
<1>4. record \in RelayerRecord
  <2>1. relayers[a].free_stake - fee \in Nat /\ relayers[a].bonded_stake + fee \in Int
    BY <1>2, <1>3, SMTT(30) DEF RelayerRecord, JobRecord
  <2> QED BY <1>3, <2>1 DEF RelayerRecord
<1>5. record.pending_unstake = 0 <=> record.unstake_unlock_ledger = 0
  <2>1. relayers[a].pending_unstake = 0 <=> relayers[a].unstake_unlock_ledger = 0
    BY <1>1, <1>2 DEF RelayersOK
  <2> QED BY <1>3, <2>1 DEF RelayerRecord
<1>6. JobOK(job, DOMAIN relayers)
  <2>1. job \in JobRecord
    <3>1. /\ STATUS_ACCEPTED \in STATUS_OPEN .. STATUS_CANCELED
          /\ a \in Accounts \cup {NoRelayer}
      BY SMTT(30) DEF STATUS_OPEN, STATUS_ACCEPTED, STATUS_CANCELED
    <3> QED BY <1>3, <3>1 DEF JobRecord
  <2>2. job.status = STATUS_ACCEPTED /\ job.accepted_relayer = a
    BY <1>3 DEF JobRecord
  <2> HIDE DEF job
  <2> QED BY <1>2, <2>1, <2>2, SMTT(30)
      DEF JobOK, STATUS_OPEN, STATUS_ACCEPTED, STATUS_CANCELED
<1>7. RelayersOK(relayers') /\ DOMAIN relayers' = DOMAIN relayers
  <2> HIDE DEF record
  <2> QED BY <1>1, <1>2, <1>4, <1>5, UpdateRelayer
<1>8. JobsOK(jobs', DOMAIN relayers)
  <2> HIDE DEF job
  <2> QED BY <1>1, <1>2, <1>6, UpdateJob
<1>9. RestOK'
  BY <1>1, <1>2 DEF RestOK, config
<1> QED BY <1>7, <1>8, <1>9, InvPartsNext

\* submit_pool_withdraw releases the bond and pays the fee, whatever balances
\* the pool leaves.
LEMMA SubmitInv ==
  ASSUME RegistryInv, NEW a \in Accounts, NEW j \in JobIds, NEW p,
         NEW after \in [Holders -> Nat], submit_pool_withdraw(a, j, p, after)
  PROVE  RegistryInv'
<1> DEFINE fee == jobs[j].fee
           record == [relayers[a] EXCEPT !.bonded_stake = @ - fee,
                                         !.free_stake = @ + fee]
           job == [jobs[j] EXCEPT !.status = STATUS_SUBMITTED]
<1>1. RestOK /\ RelayersOK(relayers) /\ JobsOK(jobs, DOMAIN relayers)
  BY InvParts
<1>2. /\ j \in DOMAIN jobs /\ jobs[j].status = STATUS_ACCEPTED
      /\ jobs[j].accepted_relayer = a
      /\ relayers' = [relayers EXCEPT ![a] = record]
      /\ jobs' = [jobs EXCEPT ![j] = job]
      /\ UNCHANGED <<now, config, slashed>>
      /\ Paid(after, a, fee)
  BY DEF submit_pool_withdraw
<1>3. a \in DOMAIN relayers /\ jobs[j] \in JobRecord
  BY <1>1, <1>2, SMTT(30) DEF JobsOK, JobOK, STATUS_OPEN, STATUS_ACCEPTED, STATUS_CANCELED
<1>4. relayers[a] \in RelayerRecord
  BY <1>1, <1>3 DEF RelayersOK
<1>5. record \in RelayerRecord
  <2>1. relayers[a].free_stake + fee \in Nat /\ relayers[a].bonded_stake - fee \in Int
    BY <1>3, <1>4, SMTT(30) DEF RelayerRecord, JobRecord
  <2> QED BY <1>4, <2>1 DEF RelayerRecord
<1>6. record.pending_unstake = 0 <=> record.unstake_unlock_ledger = 0
  <2>1. relayers[a].pending_unstake = 0 <=> relayers[a].unstake_unlock_ledger = 0
    BY <1>1, <1>3 DEF RelayersOK
  <2> QED BY <1>4, <2>1 DEF RelayerRecord
<1>7. JobOK(job, DOMAIN relayers)
  BY <1>2, <1>3, SMTT(30) DEF JobOK, JobRecord, STATUS_OPEN, STATUS_SUBMITTED, STATUS_CANCELED
<1>8. RelayersOK(relayers') /\ DOMAIN relayers' = DOMAIN relayers
  <2> HIDE DEF record
  <2> QED BY <1>1, <1>2, <1>3, <1>5, <1>6, UpdateRelayer
<1>9. JobsOK(jobs', DOMAIN relayers)
  <2> HIDE DEF job
  <2> QED BY <1>1, <1>2, <1>7, UpdateJob
<1>10. sac' \in [Holders -> Nat]
  <2>1. fee \in Nat /\ a \in Holders
    BY <1>3 DEF JobRecord, Holders
  <2> QED BY <1>2, <2>1, PaidType
<1>11. RestOK'
  BY <1>1, <1>2, <1>10 DEF RestOK, config
<1> QED BY <1>8, <1>9, <1>11, InvPartsNext

\* A pool withdrawal may pay the registry and takes nothing from it.
LEMMA AfterPoolType ==
  ASSUME sac \in [Holders -> Nat], NEW after \in AfterPool
  PROVE  after \in [Holders -> Nat] /\ after[Registry] >= sac[Registry]
<1>1. Registry \in Holders
  BY DEF Holders
<1> QED BY <1>1, RegistryAmountsAssumption, SMTT(30) DEF AfterPool

\* slash_job takes the fee from the bonded stake and from a pending unstake.
LEMMA SlashInv ==
  ASSUME RegistryInv, NEW c \in Accounts, NEW j \in JobIds, slash_job(c, j)
  PROVE  RegistryInv'
<1> DEFINE fee == jobs[j].fee
           a == jobs[j].accepted_relayer
           record == slashed_relayer(relayers[a], fee)
           job == [jobs[j] EXCEPT !.status = STATUS_SLASHED]
<1>1. RestOK /\ RelayersOK(relayers) /\ JobsOK(jobs, DOMAIN relayers)
  BY InvParts
<1>2. /\ j \in DOMAIN jobs /\ jobs[j].status = STATUS_ACCEPTED
      /\ relayers' = [relayers EXCEPT ![a] = record]
      /\ jobs' = [jobs EXCEPT ![j] = job]
      /\ UNCHANGED <<now, config, slashed>>
      /\ Paid(sac, c, fee * 2)
  BY DEF slash_job, missed
<1>3. a \in DOMAIN relayers /\ jobs[j] \in JobRecord
  BY <1>1, <1>2, SMTT(30) DEF JobsOK, JobOK, STATUS_OPEN, STATUS_ACCEPTED, STATUS_CANCELED
<1>4. relayers[a] \in RelayerRecord
  BY <1>1, <1>3 DEF RelayersOK
<1>5. fee \in Nat /\ fee * 2 \in Nat /\ c \in Holders
  BY <1>3, SMTT(30) DEF JobRecord, Holders
<1>6. /\ record \in RelayerRecord
      /\ record.pending_unstake = 0 <=> record.unstake_unlock_ledger = 0
  <2> DEFINE r == relayers[a]
             pending == r.pending_unstake - Lesser(r.pending_unstake, fee)
             unlock == IF pending = 0 THEN 0 ELSE r.unstake_unlock_ledger
  <2>1. /\ r.bonded_stake \in Int /\ r.pending_unstake \in Nat
        /\ r.unstake_unlock_ledger \in Nat /\ r \in RelayerRecord
    BY <1>4 DEF RelayerRecord
  <2>2. r.pending_unstake = 0 <=> r.unstake_unlock_ledger = 0
    BY <1>1, <1>3 DEF RelayersOK
  <2>3. record = [r EXCEPT !.bonded_stake = @ - fee, !.pending_unstake = pending,
                           !.unstake_unlock_ledger = unlock]
    BY DEF slashed_relayer
  <2> HIDE DEF fee
  <2>4. /\ pending \in Nat /\ r.bonded_stake - fee \in Int
        /\ pending # 0 => r.pending_unstake # 0
    BY <1>5, <2>1, SMTT(30) DEF Lesser
  <2>5. unlock \in Nat /\ (pending = 0 <=> unlock = 0)
    BY <2>1, <2>2, <2>4
  <2> HIDE DEF r, pending, unlock, record
  <2> QED BY <2>1, <2>3, <2>4, <2>5 DEF RelayerRecord
<1>7. JobOK(job, DOMAIN relayers)
  BY <1>2, <1>3, SMTT(30) DEF JobOK, JobRecord, STATUS_OPEN, STATUS_SLASHED, STATUS_CANCELED
<1>8. RelayersOK(relayers') /\ DOMAIN relayers' = DOMAIN relayers
  <2> HIDE DEF record, a
  <2> QED BY <1>1, <1>2, <1>3, <1>6, UpdateRelayer
<1>9. JobsOK(jobs', DOMAIN relayers)
  <2> HIDE DEF job
  <2> QED BY <1>1, <1>2, <1>7, UpdateJob
<1>10. sac' \in [Holders -> Nat]
  <2> HIDE DEF fee
  <2> QED BY <1>1, <1>2, <1>5, PaidType DEF RestOK
<1>11. RestOK'
  BY <1>1, <1>2, <1>10 DEF RestOK, config
<1> QED BY <1>8, <1>9, <1>11, InvPartsNext

\* cancel_job returns the fee of a job nobody accepted.
LEMMA CancelInv ==
  ASSUME RegistryInv, NEW c \in Accounts, NEW j \in JobIds, cancel_job(c, j)
  PROVE  RegistryInv'
<1> DEFINE job == [jobs[j] EXCEPT !.status = STATUS_CANCELED]
<1>1. RestOK /\ RelayersOK(relayers) /\ JobsOK(jobs, DOMAIN relayers)
  BY InvParts
<1>2. /\ j \in DOMAIN jobs /\ jobs[j].status = STATUS_OPEN
      /\ jobs' = [jobs EXCEPT ![j] = job]
      /\ UNCHANGED <<now, config, relayers, slashed>>
      /\ Paid(sac, c, jobs[j].fee)
  BY DEF cancel_job
<1>3. jobs[j] \in JobRecord /\ jobs[j].accepted_relayer = NoRelayer
  BY <1>1, <1>2 DEF JobsOK, JobOK
<1>4. JobOK(job, DOMAIN relayers)
  BY <1>2, <1>3, SMTT(30) DEF JobOK, JobRecord, STATUS_OPEN, STATUS_CANCELED
<1>5. JobsOK(jobs', DOMAIN relayers)
  <2> HIDE DEF job
  <2> QED BY <1>1, <1>2, <1>4, UpdateJob
<1>6. jobs[j].fee \in Nat /\ c \in Holders
  BY <1>3 DEF JobRecord, Holders
<1>7. sac' \in [Holders -> Nat]
  BY <1>1, <1>2, <1>6, PaidType DEF RestOK
<1>8. RestOK'
  BY <1>1, <1>2, <1>7 DEF RestOK, config
<1> QED BY <1>1, <1>2, <1>5, <1>8, InvPartsNext

\* report_slash takes no more than there is from the free stake.
LEMMA ReportInv ==
  ASSUME RegistryInv, NEW a \in Accounts, NEW h \in Holders,
         NEW v \in SlashAmounts, report_slash(a, h, v)
  PROVE  RegistryInv'
<1> DEFINE r == relayers[a]
           record == [r EXCEPT !.bonded_stake = @ - slash_from_bonded(r, v),
                               !.free_stake = @ - slash_from_free(r, v)]
<1>1. RestOK /\ RelayersOK(relayers) /\ JobsOK(jobs, DOMAIN relayers)
  BY InvParts
<1>2. v \in Nat /\ a \in DOMAIN relayers
  BY RegistryAmountsAssumption, SMTT(30) DEF report_slash
<1>3. /\ r \in RelayerRecord
      /\ r.pending_unstake = 0 <=> r.unstake_unlock_ledger = 0
  BY <1>1, <1>2 DEF RelayersOK
<1>4. /\ relayers' = [relayers EXCEPT ![a] = record]
      /\ slashed' = [slashed EXCEPT ![a] = @ + v]
      /\ Paid(sac, h, v)
      /\ UNCHANGED <<now, config, jobs>>
  BY <1>2 DEF report_slash
<1>5. /\ r.free_stake - slash_from_free(r, v) \in Nat
      /\ r.bonded_stake - slash_from_bonded(r, v) \in Int
  <2>1. r.free_stake \in Nat /\ r.bonded_stake \in Int
    BY <1>3 DEF RelayerRecord
  <2> HIDE DEF r
  <2> QED BY <1>2, <2>1, SMTT(30) DEF slash_from_free, slash_from_bonded, Lesser
<1>6. /\ record \in RelayerRecord
      /\ record.pending_unstake = 0 <=> record.unstake_unlock_ledger = 0
  <2> HIDE DEF r
  <2> QED BY <1>3, <1>5 DEF RelayerRecord
<1>7. RelayersOK(relayers') /\ DOMAIN relayers' = DOMAIN relayers
  <2> HIDE DEF record
  <2> QED BY <1>1, <1>2, <1>4, <1>6, UpdateRelayer
<1>8. sac' \in [Holders -> Nat] /\ slashed' \in [Accounts -> Nat]
  BY <1>1, <1>2, <1>4, PaidType, SMTT(30) DEF RestOK
<1>9. RestOK'
  BY <1>1, <1>4, <1>8 DEF RestOK, config
<1> QED BY <1>1, <1>4, <1>7, <1>9, InvPartsNext

-----------------------------------------------------------------------------
(* The invariant and what follows from it.                                 *)

\* Every step of the registry keeps the invariant.
LEMMA NextInv == RegistryInv /\ [Next]_vars => RegistryInv'
<1> SUFFICES ASSUME RegistryInv, [Next]_vars PROVE RegistryInv'
  OBVIOUS
<1>1. RestOK /\ RelayersOK(relayers) /\ JobsOK(jobs, DOMAIN relayers)
  BY InvParts
<1>2. ASSUME NEW a \in Accounts, StakeCall(a) PROVE RegistryInv'
  <2>1. ASSUME NEW s \in Amounts, register(a, s) PROVE RegistryInv'
    BY <2>1, RegisterInv
  <2>2. ASSUME NEW s \in Amounts, add_stake(a, s) \/ request_unstake(a, s)
        PROVE  RegistryInv'
    BY <2>2, StakeInv
  <2>3. CASE withdraw_stake(a)
    BY <2>3, StakeInv
  <2> QED BY <1>2, <2>1, <2>2, <2>3 DEF StakeCall
<1>3. ASSUME NEW a \in Accounts, AdminCall(a) PROVE RegistryInv'
  <2>1. ASSUME NEW s \in Amounts, NEW c \in Cooldowns, NEW d \in DeadlineSpans,
               set_config(a, s, c, d)
        PROVE  RegistryInv'
    <3>1. s \in Nat \ {0} /\ c \in Nat \ {0} /\ d \in Nat \ {0}
      BY <2>1, RegistryAmountsAssumption, RegistryLedgerAssumption, SMTT(30) DEF set_config
    <3>2. RestOK'
      BY <1>1, <2>1, <3>1 DEF set_config, RestOK
    <3> QED BY <1>1, <2>1, <3>2, InvPartsNext DEF set_config
  <2>2. ASSUME NEW b \in Accounts, transfer_admin(a, b) PROVE RegistryInv'
    <3>1. RestOK'
      BY <1>1, <2>2 DEF transfer_admin, RestOK
    <3> QED BY <1>1, <2>2, <3>1, InvPartsNext DEF transfer_admin
  <2> QED BY <1>3, <2>1, <2>2 DEF AdminCall
<1>4. ASSUME NEW a \in Accounts, NEW j \in JobIds, JobCall(a, j)
      PROVE  RegistryInv'
  <2>1. ASSUME NEW p \in Payloads, NEW after \in AfterPool,
               submit_pool_withdraw(a, j, p, after)
        PROVE  RegistryInv'
    BY <1>1, <2>1, AfterPoolType, SubmitInv DEF RestOK
  <2> QED BY <1>4, <2>1, CreateInv, AcceptInv, SlashInv, CancelInv DEF JobCall
<1>5. ASSUME NEW a \in Accounts, NEW h \in Holders, NEW v \in SlashAmounts,
             report_slash(a, h, v)
      PROVE  RegistryInv'
  BY <1>5, ReportInv
<1>6. CASE CloseLedger
  <2>1. RestOK'
    BY <1>1, <1>6, RegistryLedgerAssumption, SMTT(30) DEF CloseLedger, RestOK, config
  <2> QED BY <1>1, <1>6, <2>1, InvPartsNext DEF CloseLedger
<1>7. CASE UNCHANGED vars
  <2>1. RestOK'
    BY <1>1, <1>7 DEF vars, RestOK, config
  <2> QED BY <1>1, <1>7, <2>1, InvPartsNext DEF vars
<1> QED BY <1>2, <1>3, <1>4, <1>5, <1>6, <1>7 DEF Next

\* A new registry has no relayers and no jobs.
LEMMA InitStorageInv ==
  ASSUME InitStorage, sac \in [Holders -> Nat]
  PROVE  RegistryInv
<1>1. RestOK
  BY RegistryAmountsAssumption, RegistryLedgerAssumption, SMTT(30) DEF InitStorage, RestOK
<1>2. RelayersOK(relayers)
  BY DEF InitStorage, RelayersOK
<1>3. JobsOK(jobs, DOMAIN relayers)
  BY DEF InitStorage, JobsOK
<1> QED BY <1>1, <1>2, <1>3, InvParts

\* The token starts with balances.
LEMMA InitSac == Init => sac \in [Holders -> Nat]
BY RegistryAmountsAssumption, SMTT(30) DEF Init

\* A new registry has no relayers and no jobs.
LEMMA InitInv == Init => RegistryInv
BY InitStorageInv, InitSac DEF Init

\* The registry's storage stays well typed: no call makes a free stake, a
\* pending unstake or a balance negative, report_slash included.
THEOREM RegistryTypeCorrect == Spec => []TypeOK
<1>1. RegistryInv => TypeOK
  BY DEF RegistryInv
<1> QED BY <1>1, InitInv, NextInv, PTL DEF Spec

\* A pending unstake is locked and nothing else is, and a job that has been
\* accepted names a registered relayer ever after.
THEOREM RecordsHold == Spec => []RecordsAgree
<1>1. RegistryInv => RecordsAgree
  BY DEF RegistryInv, RecordsAgree
<1> QED BY <1>1, InitInv, NextInv, PTL DEF Spec

\* The terms of a job, the relayer that accepted it and its settlement are
\* final: a fee is paid out once.
THEOREM JobsFinalHolds == Spec => JobsAreFinal
<1> DEFINE Kept(j) ==
       /\ j \in DOMAIN jobs'
       /\ jobs'[j].creator = jobs[j].creator
       /\ jobs'[j].payload_hash = jobs[j].payload_hash
       /\ jobs'[j].fee = jobs[j].fee
       /\ jobs'[j].deadline_ledger = jobs[j].deadline_ledger
       /\ jobs[j].status # STATUS_OPEN =>
            jobs'[j].accepted_relayer = jobs[j].accepted_relayer
       /\ Settled(jobs[j]) => jobs'[j].status = jobs[j].status
<1>1. ASSUME RegistryInv, [Next]_vars, NEW j \in DOMAIN jobs PROVE Kept(j)
  <2>1. \A k \in DOMAIN jobs : jobs[k] \in JobRecord
    BY <1>1 DEF RegistryInv, TypeOK
  <2>2. ASSUME NEW a \in Accounts, NEW k \in JobIds, JobCall(a, k) PROVE Kept(j)
    <3>1. CASE \E p \in Payloads, d \in 1 .. (MaxLedger - 1), fee \in Amounts :
                 create_job(a, k, p, d, fee)
      BY <1>1, <3>1 DEF create_job, put
    <3>2. CASE accept_job(a, k)
      BY <1>1, <2>1, <3>2, SMTT(30) DEF accept_job, JobRecord, Settled, STATUS_OPEN,
         STATUS_SUBMITTED, STATUS_SLASHED, STATUS_CANCELED
    <3>3. CASE \E p \in Payloads, after \in AfterPool :
                 submit_pool_withdraw(a, k, p, after)
      BY <1>1, <2>1, <3>3, SMTT(30) DEF submit_pool_withdraw, JobRecord, Settled,
         STATUS_ACCEPTED, STATUS_SUBMITTED, STATUS_SLASHED, STATUS_CANCELED
    <3>4. CASE slash_job(a, k)
      BY <1>1, <2>1, <3>4, SMTT(30) DEF slash_job, missed, JobRecord, Settled,
         STATUS_ACCEPTED, STATUS_SUBMITTED, STATUS_SLASHED, STATUS_CANCELED
    <3>5. CASE cancel_job(a, k)
      BY <1>1, <2>1, <3>5, SMTT(30) DEF cancel_job, JobRecord, Settled, STATUS_OPEN,
         STATUS_SUBMITTED, STATUS_SLASHED, STATUS_CANCELED
    <3> QED BY <2>2, <3>1, <3>2, <3>3, <3>4, <3>5 DEF JobCall
  <2>3. CASE UNCHANGED jobs
    BY <1>1, <2>3
  <2>4. (\E a \in Accounts, k \in JobIds : JobCall(a, k)) \/ UNCHANGED jobs
    BY <1>1 DEF Next, StakeCall, register, add_stake, request_unstake,
       withdraw_stake, AdminCall, set_config, transfer_admin, report_slash,
       CloseLedger, vars
  <2> QED BY <2>2, <2>3, <2>4
<1>2. RegistryInv /\ [Next]_vars => [\A j \in DOMAIN jobs : Kept(j)]_vars
  BY <1>1
<1> QED BY <1>2, InitInv, NextInv, PTL DEF Spec, JobsAreFinal

-----------------------------------------------------------------------------
(* What proofs need of SumFunctionOnSet and SumFunction: a sum over a      *)
(* finite set is an integer, any element may be taken out of it, and one   *)
(* changed, added or dropped element changes it by just that much.         *)

\* The element a fold takes first, and the function a fold computes: g gives
\* every subset of S the sum of f over it.
Pick(s) == CHOOSE x \in s : TRUE
Adds(g, f, S) ==
  g = [s \in SUBSET S |-> IF s = {} THEN 0 ELSE f[Pick(s)] + g[s \ {Pick(s)}]]

\* The sum of the library is the value of that function at the whole set.
LEMMA SumIs ==
  ASSUME NEW f, NEW S
  PROVE  SumFunctionOnSet(f, S) = (CHOOSE g : Adds(g, f, S))[S]
BY SMTT(30) DEF SumFunctionOnSet, FoldFunctionOnSet, MapThenFoldSet, Adds, Pick

\* S has at most n elements: f lists them, perhaps with others and repeatedly.
Lists(f, n, S) == \A x \in S : \E i \in 1 .. n : f[i] = x
AtMost(n, S) == \E f : Lists(f, n, S)
Listed(S) == \E n \in Nat : AtMost(n, S)

\* Finite sets are listed, and so are their subsets and what is one larger.
LEMMA FiniteListed ==
  ASSUME NEW S, IsFiniteSet(S)
  PROVE  Listed(S)
<1>1. PICK seq \in Seq(S) : \A x \in S : \E n \in 1 .. Len(seq) : seq[n] = x
  BY DEF IsFiniteSet
<1>2. Len(seq) \in Nat /\ Lists(seq, Len(seq), S)
  BY <1>1, SMTT(30) DEF Lists
<1> QED BY <1>2 DEF Listed, AtMost

\* A part of a listed set is listed.
LEMMA ListedSubset ==
  ASSUME NEW S, Listed(S), NEW T \in SUBSET S
  PROVE  Listed(T)
BY DEF Listed, AtMost, Lists

\* So is a listed set with one more element.
LEMMA ListedAdd ==
  ASSUME NEW S, Listed(S), NEW y
  PROVE  Listed(S \cup {y})
<1>0. PICK n \in Nat : AtMost(n, S)
  BY DEF Listed
<1>1. PICK f : Lists(f, n, S)
  BY <1>0 DEF AtMost
<1> DEFINE g == [i \in 1 .. (n + 1) |-> IF i = n + 1 THEN y ELSE f[i]]
<1>2. n + 1 \in Nat /\ Lists(g, n + 1, S \cup {y})
  BY <1>1, SMTT(30) DEF Lists
<1> QED BY <1>2 DEF Listed, AtMost

\* So is the empty set.
LEMMA ListedEmpty == Listed({})
<1>1. Lists(0, 0, {}) /\ 0 \in Nat
  BY SMTT(30) DEF Lists
<1> QED BY <1>1 DEF Listed, AtMost

\* A set with an element less has one element less.
LEMMA AtMostLess ==
  ASSUME NEW n \in Nat, NEW S, AtMost(n, S), NEW T \in SUBSET S, T # S
  PROVE  n - 1 \in Nat /\ AtMost(n - 1, T)
<1>1. PICK f : Lists(f, n, S)
  BY DEF AtMost
<1>2. PICK x \in S : x \notin T
  OBVIOUS
<1>3. PICK k \in 1 .. n : f[k] = x
  BY <1>1 DEF Lists
<1> DEFINE g == [i \in 1 .. (n - 1) |-> IF i = k THEN f[n] ELSE f[i]]
<1>4. n - 1 \in Nat
  BY <1>3, SMTT(30)
<1>5. ASSUME NEW y \in T PROVE \E i \in 1 .. (n - 1) : g[i] = y
  <2>1. PICK i \in 1 .. n : f[i] = y
    BY <1>1, <1>5 DEF Lists
  <2>2. i # k
    BY <1>2, <1>3, <2>1
  <2>3. CASE i = n
    <3>1. k \in 1 .. (n - 1) /\ g[k] = y
      BY <2>1, <2>2, <2>3, <1>3, SMTT(30)
    <3> QED BY <3>1
  <2>4. CASE i # n
    <3>1. i \in 1 .. (n - 1) /\ g[i] = y
      BY <2>1, <2>2, <2>4, SMTT(30)
    <3> QED BY <3>1
  <2> QED BY <2>3, <2>4
<1>6. Lists(g, n - 1, T)
  BY <1>5 DEF Lists
<1> QED BY <1>4, <1>6 DEF AtMost

\* Induction over the subsets of a finite set: P is the set of the subsets for
\* which the claim holds.  A smallest counterexample has smaller subsets only.
LEMMA SubsetInduction ==
  ASSUME NEW S, Listed(S), NEW P,
         \A s \in SUBSET S : (\A t \in SUBSET s : t # s => t \in P) => s \in P
  PROVE  SUBSET S \subseteq P
<1>1. SUFFICES ASSUME NEW u \in SUBSET S, u \notin P PROVE FALSE
  OBVIOUS
<1> DEFINE N == {n \in Nat : \E s \in SUBSET S : s \notin P /\ AtMost(n, s)}
<1>2. N \subseteq Nat /\ N # {}
  <2>1. PICK n \in Nat : AtMost(n, u)
    BY ListedSubset DEF Listed
  <2> QED BY <1>1, <2>1
<1>3. PICK n \in N : \A m \in N : ~ (m < n)
  <2> DEFINE Less == OpToRel(<, Nat)
             Numbers == Nat
  <2>1. IsWellFoundedOn(Less, Numbers) /\ N \subseteq Numbers /\ N # {}
    BY <1>2, NatLessThanWellFounded
  <2> HIDE DEF N, Less, Numbers
  <2>2. \E n \in N : \A m \in N : <<m, n>> \notin Less
    BY <2>1, WFMin, SMTT(30)
  <2>3. \A m, n \in N : m < n => <<m, n>> \in Less
    BY <1>2 DEF OpToRel, Less
  <2> QED BY <2>2, <2>3
<1>4. PICK s \in SUBSET S : s \notin P /\ AtMost(n, s)
  OBVIOUS
<1>5. ASSUME NEW t \in SUBSET s, t # s PROVE t \in P
  <2>1. n - 1 \in Nat /\ AtMost(n - 1, t)
    BY <1>4, <1>5, AtMostLess
  <2>2. t \notin P => n - 1 \in N
    BY <2>1
  <2>3. n - 1 < n
    BY <2>1, SMTT(30)
  <2> HIDE DEF N
  <2> QED BY <1>3, <2>2, <2>3, SMTT(30)
<1> QED BY <1>4, <1>5

\* The recursion equation, at one subset.
LEMMA AddsEquation ==
  ASSUME NEW f, NEW S, NEW g, Adds(g, f, S), NEW s \in SUBSET S
  PROVE  /\ s = {} => g[s] = 0
         /\ s # {} => Pick(s) \in s /\ g[s] = f[Pick(s)] + g[s \ {Pick(s)}]
<1>1. s # {} => Pick(s) \in s
  BY DEF Pick
<1>2. g[s] = IF s = {} THEN 0 ELSE f[Pick(s)] + g[s \ {Pick(s)}]
  BY DEF Adds
<1> QED BY <1>1, <1>2

\* The functions for a set and for a subset of it agree on the subset.
LEMMA AddsAgree ==
  ASSUME NEW f, NEW S, NEW T, Listed(T), T \subseteq S,
         NEW g, Adds(g, f, S), NEW h, Adds(h, f, T)
  PROVE  g[T] = h[T]
<1> DEFINE P == {t \in SUBSET T : g[t] = h[t]}
<1>1. ASSUME NEW s \in SUBSET T, \A t \in SUBSET s : t # s => t \in P PROVE s \in P
  <2>1. CASE s = {}
    <3>1. s \in SUBSET S /\ s \in SUBSET T
      BY <2>1
    <3> QED BY <2>1, <3>1, AddsEquation
  <2>2. CASE s # {}
    <3> DEFINE u == s \ {Pick(s)}
    <3>1. s \in SUBSET S /\ s \in SUBSET T /\ Pick(s) \in s
      BY <2>2 DEF Pick
    <3>2. g[s] = f[Pick(s)] + g[u] /\ h[s] = f[Pick(s)] + h[u]
      BY <2>2, <3>1, AddsEquation, SMTT(30)
    <3>3. u \in P
      <4>1. u \in SUBSET s /\ u # s
        BY <3>1
      <4> QED BY <1>1, <4>1
    <3> QED BY <3>2, <3>3
  <2> QED BY <2>1, <2>2
<1> HIDE DEF P
<1>2. SUBSET T \subseteq P
  BY <1>1, SubsetInduction, SMTT(30)
<1> QED BY <1>2 DEF P

\* There is such a function for every finite set: the totals of its subsets.
LEMMA AddsExists ==
  ASSUME NEW f, NEW S, Listed(S)
  PROVE  \E g : Adds(g, f, S)
<1> DEFINE Total(t) == (CHOOSE g : Adds(g, f, t))[t]
           P == {s \in SUBSET S : \E g : Adds(g, f, s)}
<1>1. ASSUME NEW s \in SUBSET S, \A t \in SUBSET s : t # s => t \in P PROVE s \in P
  <2>1. ASSUME NEW u \in SUBSET s, u # s
        PROVE  /\ u = {} => Total(u) = 0
               /\ u # {} => Total(u) = f[Pick(u)] + Total(u \ {Pick(u)})
    <3>1. ASSUME NEW v \in SUBSET s, v # s PROVE Adds(CHOOSE g : Adds(g, f, v), f, v)
      <4>1. \E g : Adds(g, f, v)
        BY <1>1, <3>1
      <4> QED BY <4>1
    <3> DEFINE g == CHOOSE g : Adds(g, f, u)
    <3>2. Adds(g, f, u)
      BY <2>1, <3>1
    <3> HIDE DEF g
    <3>3. CASE u = {}
      <4>1. g[u] = 0
        BY <3>2, <3>3, AddsEquation, SMTT(30)
      <4> QED BY <3>3, <4>1 DEF g
    <3>4. CASE u # {}
      <4> DEFINE v == u \ {Pick(u)}
                 h == CHOOSE h : Adds(h, f, v)
      <4>1. Pick(u) \in u /\ g[u] = f[Pick(u)] + g[v]
        BY <3>2, <3>4, AddsEquation, SMTT(30)
      <4>2. v \in SUBSET s /\ v # s /\ v \subseteq u /\ Listed(v)
        BY <4>1, ListedSubset, SMTT(30)
      <4>3. Adds(h, f, v)
        BY <3>1, <4>2
      <4> HIDE DEF h, v
      <4>4. g[v] = h[v]
        BY <3>2, <4>2, <4>3, AddsAgree, SMTT(30)
      <4> QED BY <3>4, <4>1, <4>4 DEF g, h, v
    <3> QED BY <3>3, <3>4
  <2> DEFINE k == [t \in SUBSET s |-> IF t = {} THEN 0
                                      ELSE f[Pick(t)] + Total(t \ {Pick(t)})]
  <2>2. ASSUME NEW t \in SUBSET s, t # {}
        PROVE  k[t \ {Pick(t)}] = Total(t \ {Pick(t)})
    <3> DEFINE u == t \ {Pick(t)}
    <3>1. u \in SUBSET s /\ u # s
      BY <2>2 DEF Pick
    <3> HIDE DEF Total, u
    <3>2. k[u] = IF u = {} THEN 0 ELSE f[Pick(u)] + Total(u \ {Pick(u)})
      BY <3>1
    <3> QED BY <2>1, <3>1, <3>2 DEF u
  <2>3. Adds(k, f, s)
    <3> HIDE DEF Total
    <3> DEFINE e == [t \in SUBSET s |-> IF t = {} THEN 0 ELSE f[Pick(t)] + k[t \ {Pick(t)}]]
    <3>1. \A t \in SUBSET s : k[t] = e[t]
      BY <2>2
    <3>2. k = e
      BY <3>1
    <3> QED BY <3>2 DEF Adds
  <2> QED BY <2>3
<1> HIDE DEF P
<1>2. SUBSET S \subseteq P
  BY <1>1, SubsetInduction, SMTT(30)
<1> QED BY <1>2 DEF P

-----------------------------------------------------------------------------
(* What a sum is.                                                          *)

\* The empty sum, and the element the fold takes first.
LEMMA SumFold ==
  ASSUME NEW f, NEW S, Listed(S)
  PROVE  /\ S = {} => SumFunctionOnSet(f, S) = 0
         /\ S # {} => /\ Pick(S) \in S
                      /\ SumFunctionOnSet(f, S)
                           = f[Pick(S)] + SumFunctionOnSet(f, S \ {Pick(S)})
<1> DEFINE T == S \ {Pick(S)}
           g == CHOOSE g : Adds(g, f, S)
           h == CHOOSE h : Adds(h, f, T)
<1>1. Listed(T) /\ T \subseteq S
  BY ListedSubset
<1> HIDE DEF T
<1>2. Adds(g, f, S) /\ Adds(h, f, T)
  BY <1>1, AddsExists
<1>3. SumFunctionOnSet(f, S) = g[S] /\ SumFunctionOnSet(f, T) = h[T]
  BY SumIs
<1> HIDE DEF g, h
<1>4. g[T] = h[T]
  BY <1>1, <1>2, AddsAgree, SMTT(30)
<1>5. /\ S = {} => g[S] = 0
      /\ S # {} => Pick(S) \in S /\ g[S] = f[Pick(S)] + g[S \ {Pick(S)}]
  BY <1>2, AddsEquation, SMTT(30)
<1> QED BY <1>3, <1>4, <1>5 DEF T

\* A sum is an integer, and any element may be taken out of it.
LEMMA SumRemove ==
  ASSUME NEW S, Listed(S), NEW f, \A x \in S : f[x] \in Int
  PROVE  /\ SumFunctionOnSet(f, S) \in Int
         /\ \A x \in S : SumFunctionOnSet(f, S) = f[x] + SumFunctionOnSet(f, S \ {x})
<1> DEFINE Total(s) == SumFunctionOnSet(f, s)
           P == {s \in SUBSET S : /\ Total(s) \in Int
                                  /\ \A x \in s : Total(s) = f[x] + Total(s \ {x})}
<1> HIDE DEF Total
<1>1. ASSUME NEW s \in SUBSET S, \A t \in SUBSET s : t # s => t \in P PROVE s \in P
  <2>1. Listed(s)
    BY ListedSubset
  <2>2. CASE s = {}
    <3>1. Total(s) = 0
      BY <2>1, <2>2, SumFold DEF Total
    <3> QED BY <2>2, <3>1, SMTT(30)
  <2>3. CASE s # {}
    <3> DEFINE y == Pick(s)
    <3>1. y \in s /\ Total(s) = f[y] + Total(s \ {y})
      BY <2>1, <2>3, SumFold DEF Total
    <3> HIDE DEF y
    <3>2. \A z \in s : /\ s \ {z} \in SUBSET s /\ s \ {z} # s /\ Total(s \ {z}) \in Int
                       /\ \A x \in s \ {z} :
                            Total(s \ {z}) = f[x] + Total((s \ {z}) \ {x})
      BY <1>1
    <3>3. Total(s) \in Int
      BY <3>1, <3>2, SMTT(30)
    <3>4. ASSUME NEW x \in s, x # y PROVE Total(s) = f[x] + Total(s \ {x})
      <4>1. Total(s \ {y}) = f[x] + Total((s \ {y}) \ {x})
        BY <3>1, <3>2, <3>4
      <4>2. Total(s \ {x}) = f[y] + Total((s \ {x}) \ {y})
        BY <3>1, <3>2, <3>4
      <4>3. (s \ {y}) \ {x} = (s \ {x}) \ {y}
        OBVIOUS
      <4> DEFINE u == (s \ {x}) \ {y}
      <4>4. Total(u) \in Int
        <5>1. u \in SUBSET s /\ u # s
          OBVIOUS
        <5> QED BY <1>1, <5>1
      <4>5. f[x] \in Int /\ f[y] \in Int
        BY <3>1
      <4> HIDE DEF u
      <4>6. Total(s) = f[y] + (f[x] + Total(u)) /\ Total(s \ {x}) = f[y] + Total(u)
        BY <3>1, <4>1, <4>2, <4>3 DEF u
      <4> QED BY <4>4, <4>5, <4>6, SMTT(30)
    <3> QED BY <3>1, <3>3, <3>4
  <2> QED BY <2>2, <2>3
<1> HIDE DEF P
<1>2. SUBSET S \subseteq P
  BY <1>1, SubsetInduction, SMTT(30)
<1> QED BY <1>2 DEF P, Total

\* A sum of zeros.
LEMMA SumZero ==
  ASSUME NEW S, Listed(S), NEW f, \A x \in S : f[x] = 0
  PROVE  SumFunctionOnSet(f, S) = 0
<1> DEFINE P == {s \in SUBSET S : SumFunctionOnSet(f, s) = 0}
<1>1. ASSUME NEW s \in SUBSET S, \A t \in SUBSET s : t # s => t \in P PROVE s \in P
  <2>1. Listed(s)
    BY ListedSubset
  <2>2. CASE s = {}
    BY <2>1, <2>2, SumFold
  <2>3. CASE s # {}
    <3> DEFINE x == Pick(s)
    <3>1. x \in s /\ SumFunctionOnSet(f, s) = f[x] + SumFunctionOnSet(f, s \ {x})
      BY <2>1, <2>3, SumFold
    <3> HIDE DEF x
    <3>2. s \ {x} \in P
      BY <1>1, <3>1
    <3> QED BY <3>1, <3>2, SMTT(30)
  <2> QED BY <2>2, <2>3
<1> HIDE DEF P
<1>2. SUBSET S \subseteq P
  BY <1>1, SubsetInduction, SMTT(30)
<1> QED BY <1>2 DEF P

\* Sums of functions that agree on the set are equal.
LEMMA SumSame ==
  ASSUME NEW S, Listed(S), NEW f, NEW g, \A x \in S : f[x] = g[x]
  PROVE  SumFunctionOnSet(f, S) = SumFunctionOnSet(g, S)
<1> DEFINE P == {s \in SUBSET S : SumFunctionOnSet(f, s) = SumFunctionOnSet(g, s)}
<1>1. ASSUME NEW s \in SUBSET S, \A t \in SUBSET s : t # s => t \in P PROVE s \in P
  <2>1. Listed(s)
    BY ListedSubset
  <2>2. CASE s = {}
    BY <2>1, <2>2, SumFold
  <2>3. CASE s # {}
    <3> DEFINE u == s \ {Pick(s)}
    <3>1. Pick(s) \in s
      BY <2>1, <2>3, SumFold
    <3>2. SumFunctionOnSet(f, s) = f[Pick(s)] + SumFunctionOnSet(f, u)
      BY <2>1, <2>3, SumFold
    <3>3. SumFunctionOnSet(g, s) = g[Pick(s)] + SumFunctionOnSet(g, u)
      BY <2>1, <2>3, SumFold
    <3>4. u \in P
      <4>1. u \in SUBSET s /\ u # s
        BY <3>1
      <4> QED BY <1>1, <4>1
    <3> QED BY <3>1, <3>2, <3>3, <3>4
  <2> QED BY <2>2, <2>3
<1> HIDE DEF P
<1>2. SUBSET S \subseteq P
  BY <1>1, SubsetInduction, SMTT(30)
<1> QED BY <1>2 DEF P

-----------------------------------------------------------------------------
(* One element changes.                                                    *)

\* An element gets another value.
LEMMA SumUpdate ==
  ASSUME NEW S, Listed(S), NEW f, NEW g, NEW x \in S,
         \A y \in S : f[y] \in Int /\ g[y] \in Int,
         \A y \in S \ {x} : f[y] = g[y]
  PROVE  SumFunctionOnSet(g, S) = (SumFunctionOnSet(f, S) - f[x]) + g[x]
<1> DEFINE T == S \ {x}
<1>1. Listed(T)
  BY ListedSubset
<1>2. SumFunctionOnSet(f, T) = SumFunctionOnSet(g, T) /\ SumFunctionOnSet(f, T) \in Int
  BY <1>1, SumSame, SumRemove
<1>3. SumFunctionOnSet(f, S) = f[x] + SumFunctionOnSet(f, T)
  BY SumRemove
<1>4. SumFunctionOnSet(g, S) = g[x] + SumFunctionOnSet(g, T)
  BY SumRemove
<1> HIDE DEF T
<1> QED BY <1>2, <1>3, <1>4, SMTT(30)

\* An element is added.
LEMMA SumAdd ==
  ASSUME NEW S, Listed(S), NEW f, NEW g, NEW x, x \notin S,
         \A y \in S : f[y] = g[y] /\ f[y] \in Int, g[x] \in Int
  PROVE  SumFunctionOnSet(g, S \cup {x}) = SumFunctionOnSet(f, S) + g[x]
<1> DEFINE T == S \cup {x}
<1>1. Listed(T) /\ T \ {x} = S /\ x \in T
  BY ListedAdd
<1>2. \A y \in T : g[y] \in Int
  OBVIOUS
<1>3. SumFunctionOnSet(g, T) = g[x] + SumFunctionOnSet(g, S)
  <2> HIDE DEF T
  <2>1. SumFunctionOnSet(g, T) = g[x] + SumFunctionOnSet(g, T \ {x})
    BY <1>1, <1>2, SumRemove
  <2> QED BY <1>1, <2>1
<1>4. SumFunctionOnSet(f, S) = SumFunctionOnSet(g, S) /\ SumFunctionOnSet(f, S) \in Int
  BY SumSame, SumRemove
<1> QED BY <1>3, <1>4, SMTT(30)

-----------------------------------------------------------------------------
(* What the stakes, the escrows and the bonds add up to.                   *)

StakeFn(R) == [a \in DOMAIN R |-> StakeOf(R[a])]
FeeFn(J) == [j \in DOMAIN J |-> J[j].fee]
Unsettled(J) == {j \in DOMAIN J : ~Settled(J[j])}
Takes(job, a) == job.status = STATUS_ACCEPTED /\ job.accepted_relayer = a
Taken(J, a) == {j \in DOMAIN J : Takes(J[j], a)}

Stakes(R) == SumFunctionOnSet(StakeFn(R), DOMAIN R)
Escrow(J) == SumFunctionOnSet(FeeFn(J), Unsettled(J))
Bond(J, a) == SumFunctionOnSet(FeeFn(J), Taken(J, a))
Reported(L) == SumFunctionOnSet(L, Accounts)

Balanced(bal, R, J, L) == bal + Reported(L) >= Stakes(R) + Escrow(J)
BondsMatch(R, J, L) == \A a \in DOMAIN R : L[a] = 0 => R[a].bonded_stake = Bond(J, a)

\* The two invariants say that the books balance, and that the bonds match.
LEMMA BooksParts ==
  ASSUME slashed \in [Accounts -> Nat]
  PROVE  /\ Solvent <=> Balanced(sac[Registry], relayers, jobs, slashed)
         /\ BondedIsAcceptedFees <=> BondsMatch(relayers, jobs, slashed)
<1>1. DOMAIN slashed = Accounts /\ DOMAIN StakeFn(relayers) = DOMAIN relayers
  BY DEF StakeFn
<1>2. SumFunction(slashed) = Reported(slashed)
  BY <1>1 DEF Reported, SumFunction
<1>3. Owed = Stakes(relayers) + Escrow(jobs)
  BY <1>1 DEF Owed, Stakes, Escrow, SumFees, SumFunction, StakeFn, FeeFn, Unsettled
<1> QED BY <1>2, <1>3 DEF Solvent, Balanced, BondedIsAcceptedFees, BondsMatch, Bond, SumFees,
        FeeFn, Taken, Takes, AcceptedBy

\* The two properties of the next state in terms of its books.
LEMMA BooksPartsNext ==
  ASSUME slashed' \in [Accounts -> Nat]
  PROVE  /\ Solvent' <=> Balanced(sac'[Registry], relayers', jobs', slashed')
         /\ BondedIsAcceptedFees' <=> BondsMatch(relayers', jobs', slashed')
<1>1. DOMAIN slashed' = Accounts /\ DOMAIN StakeFn(relayers') = DOMAIN relayers'
  BY DEF StakeFn
<1>2. SumFunction(slashed') = Reported(slashed')
  BY <1>1 DEF Reported, SumFunction
<1>3. Owed' = Stakes(relayers') + Escrow(jobs')
  BY <1>1 DEF Owed, Stakes, Escrow, SumFees, SumFunction, StakeFn, FeeFn, Unsettled
<1> QED BY <1>2, <1>3 DEF Solvent, Balanced, BondedIsAcceptedFees, BondsMatch, Bond, SumFees,
        FeeFn, Taken, Takes, AcceptedBy

\* Addresses and job ids are finitely many.
LEMMA AddressesListed == Listed(Accounts) /\ Listed(JobIds)
BY FiniteListed, RegistryFiniteAssumption

\* A relayer's stake is a number.
LEMMA StakeType ==
  ASSUME NEW record \in RelayerRecord
  PROVE  StakeOf(record) \in Int
BY SMTT(30) DEF RelayerRecord, StakeOf

\* So is the sum of the stakes, and each of them.
LEMMA StakesType ==
  ASSUME NEW R, RelayersOK(R)
  PROVE  /\ Listed(DOMAIN R) /\ Stakes(R) \in Int
         /\ \A a \in DOMAIN R : StakeFn(R)[a] = StakeOf(R[a]) /\ StakeFn(R)[a] \in Int
<1>1. Listed(DOMAIN R)
  BY ListedSubset, AddressesListed DEF RelayersOK
<1>2. \A a \in DOMAIN R : StakeFn(R)[a] = StakeOf(R[a]) /\ StakeFn(R)[a] \in Int
  BY StakeType DEF StakeFn, RelayersOK
<1> QED BY <1>1, <1>2, SumRemove DEF Stakes

\* A relayer's record is replaced.
LEMMA StakesUpdate ==
  ASSUME NEW R, RelayersOK(R), NEW a \in DOMAIN R, NEW record \in RelayerRecord
  PROVE  Stakes([R EXCEPT ![a] = record]) = (Stakes(R) - StakeOf(R[a])) + StakeOf(record)
<1> DEFINE Q == [R EXCEPT ![a] = record]
<1>1. DOMAIN Q = DOMAIN R /\ Q[a] = record /\ \A b \in DOMAIN R \ {a} : Q[b] = R[b]
  OBVIOUS
<1> HIDE DEF Q
<1>2. /\ Listed(DOMAIN R)
      /\ \A b \in DOMAIN R : StakeFn(R)[b] = StakeOf(R[b]) /\ StakeFn(R)[b] \in Int
  BY StakesType
<1>3. /\ StakeFn(Q)[a] = StakeOf(record)
      /\ \A b \in DOMAIN R \ {a} : StakeFn(Q)[b] = StakeFn(R)[b]
  BY <1>1, <1>2 DEF StakeFn
<1>4. \A b \in DOMAIN R : StakeFn(R)[b] \in Int /\ StakeFn(Q)[b] \in Int
  BY <1>2, <1>3, StakeType
<1>5. SumFunctionOnSet(StakeFn(Q), DOMAIN R)
        = (SumFunctionOnSet(StakeFn(R), DOMAIN R) - StakeFn(R)[a]) + StakeFn(Q)[a]
  BY <1>2, <1>3, <1>4, SumUpdate, SMTT(30)
<1>6. Stakes(Q) = (Stakes(R) - StakeOf(R[a])) + StakeOf(record)
  BY <1>1, <1>2, <1>3, <1>5 DEF Stakes
<1> QED BY <1>6 DEF Q

\* A relayer registers.
LEMMA StakesPut ==
  ASSUME NEW R, RelayersOK(R), NEW a, a \notin DOMAIN R, NEW record \in RelayerRecord
  PROVE  Stakes(put(R, a, record)) = Stakes(R) + StakeOf(record)
<1> DEFINE Q == put(R, a, record)
<1>1. DOMAIN Q = DOMAIN R \cup {a} /\ Q[a] = record /\ \A b \in DOMAIN R : Q[b] = R[b]
  BY DEF put
<1> HIDE DEF Q
<1>2. /\ Listed(DOMAIN R)
      /\ \A b \in DOMAIN R : StakeFn(R)[b] = StakeOf(R[b]) /\ StakeFn(R)[b] \in Int
  BY StakesType
<1>3. /\ StakeFn(Q)[a] = StakeOf(record) /\ StakeFn(Q)[a] \in Int
      /\ \A b \in DOMAIN R : StakeFn(R)[b] = StakeFn(Q)[b]
  BY <1>1, <1>2, StakeType DEF StakeFn
<1>4. SumFunctionOnSet(StakeFn(Q), DOMAIN R \cup {a})
        = SumFunctionOnSet(StakeFn(R), DOMAIN R) + StakeFn(Q)[a]
  BY <1>2, <1>3, SumAdd, SMTT(30)
<1>5. Stakes(Q) = Stakes(R) + StakeOf(record)
  BY <1>1, <1>3, <1>4 DEF Stakes
<1> QED BY <1>5 DEF Q

\* The fees of any of the jobs have a sum.
LEMMA FeesType ==
  ASSUME NEW J, NEW D, JobsOK(J, D)
  PROVE  /\ \A j \in DOMAIN J : FeeFn(J)[j] = J[j].fee /\ FeeFn(J)[j] \in Nat
         /\ \A U \in SUBSET DOMAIN J : Listed(U) /\ SumFunctionOnSet(FeeFn(J), U) \in Int
<1>1. \A j \in DOMAIN J : FeeFn(J)[j] = J[j].fee /\ FeeFn(J)[j] \in Nat
  BY DEF FeeFn, JobsOK, JobOK, JobRecord
<1>2. ASSUME NEW U \in SUBSET DOMAIN J
      PROVE  Listed(U) /\ SumFunctionOnSet(FeeFn(J), U) \in Int
  <2>1. Listed(U)
    BY ListedSubset, AddressesListed DEF JobsOK
  <2>2. \A j \in U : FeeFn(J)[j] \in Int
    BY <1>1, SMTT(30)
  <2> QED BY <2>1, <2>2, SumRemove
<1> QED BY <1>1, <1>2

\* Escrow and bonds are numbers.
LEMMA BooksType ==
  ASSUME NEW J, NEW D, JobsOK(J, D)
  PROVE  Escrow(J) \in Int /\ \A a : Bond(J, a) \in Int
<1>1. Unsettled(J) \in SUBSET DOMAIN J /\ \A a : Taken(J, a) \in SUBSET DOMAIN J
  BY DEF Unsettled, Taken
<1> QED BY <1>1, FeesType DEF Escrow, Bond

\* Job j is replaced by a job of the same fee, and no other job changes.
Replaced(K, J, j, job) ==
  /\ j \in DOMAIN J /\ DOMAIN K = DOMAIN J
  /\ K[j] = job /\ job.fee = J[j].fee
  /\ \A i \in DOMAIN J : i # j => K[i] = J[i]

\* A job that is written back with its fee replaces itself.
LEMMA JobUpdate ==
  ASSUME NEW J, NEW j \in DOMAIN J, NEW job, job.fee = J[j].fee
  PROVE  Replaced([J EXCEPT ![j] = job], J, j, job)
BY DEF Replaced

\* A set of jobs loses one, gains one or stays when a job moves on: the fees
\* are the same.
LEMMA MovesOn ==
  ASSUME NEW J, NEW D, JobsOK(J, D), NEW K, NEW j, NEW job, Replaced(K, J, j, job),
         NEW U \in SUBSET DOMAIN J, NEW V,
         V = U \/ (j \in U /\ V = U \ {j}) \/ (j \notin U /\ V = U \cup {j})
  PROVE  SumFunctionOnSet(FeeFn(K), V)
           = IF V = U THEN SumFunctionOnSet(FeeFn(J), U)
             ELSE IF j \in U THEN SumFunctionOnSet(FeeFn(J), U) - J[j].fee
             ELSE SumFunctionOnSet(FeeFn(J), U) + J[j].fee
<1> DEFINE Total(W) == SumFunctionOnSet(FeeFn(J), W)
<1>1. FeeFn(K) = FeeFn(J)
  BY DEF FeeFn, Replaced
<1>2. /\ \A i \in DOMAIN J : FeeFn(J)[i] = J[i].fee /\ FeeFn(J)[i] \in Int
      /\ Listed(U) /\ Total(U) \in Int /\ Total(V) \in Int /\ j \in DOMAIN J
  BY FeesType, SMTT(30) DEF Replaced
<1>3. CASE V = U
  BY <1>1, <1>3
<1>4. CASE V # U /\ j \in U
  <2>1. V = U \ {j}
    BY <1>4
  <2>2. Total(U) = J[j].fee + Total(V)
    BY <1>2, <1>4, <2>1, SumRemove, SMTT(30)
  <2> HIDE DEF Total
  <2>3. Total(V) = Total(U) - J[j].fee
    BY <1>2, <2>2, SMTT(30)
  <2> QED BY <1>1, <1>4, <2>3 DEF Total
<1>5. CASE V # U /\ j \notin U
  <2>1. V = U \cup {j}
    BY <1>5
  <2>2. /\ Listed(V) /\ j \in V /\ V \ {j} = U
        /\ \A i \in V : FeeFn(J)[i] \in Int
    <3>1. Listed(V)
      BY <1>2, <2>1, ListedAdd
    <3> QED BY <1>2, <1>5, <2>1, <3>1
  <2>3. Total(V) = J[j].fee + Total(U)
    BY <1>2, <2>2, SumRemove, SMTT(30)
  <2> HIDE DEF Total
  <2>4. Total(V) = Total(U) + J[j].fee
    BY <1>2, <2>3, SMTT(30)
  <2> QED BY <1>1, <1>5, <2>4 DEF Total
<1> QED BY <1>3, <1>4, <1>5

\* What becomes of the escrow and of the bonds when a job is replaced.
Carries(K, J, old, job) ==
  /\ Settled(job) => Escrow(K) = Escrow(J) - old.fee
  /\ ~Settled(job) => Escrow(K) = Escrow(J)
  /\ \A a : (Takes(job, a) <=> Takes(old, a)) => Bond(K, a) = Bond(J, a)
  /\ \A a : Takes(old, a) /\ ~Takes(job, a) => Bond(K, a) = Bond(J, a) - old.fee
  /\ \A a : Takes(job, a) /\ ~Takes(old, a) => Bond(K, a) = Bond(J, a) + old.fee

\* A job that moves on carries its fee from one book to another.
LEMMA JobReplaced ==
  ASSUME NEW J, NEW D, JobsOK(J, D), NEW K, NEW j, NEW job, Replaced(K, J, j, job),
         ~Settled(J[j])
  PROVE  Carries(K, J, J[j], job)
<1> DEFINE fee == J[j].fee
<1>1. /\ DOMAIN K = DOMAIN J /\ K[j] = job /\ j \in DOMAIN J
      /\ \A i \in DOMAIN J \ {j} : K[i] = J[i]
  BY DEF Replaced
<1>2. \A U \in SUBSET DOMAIN J : \A V :
        V = U \/ (j \in U /\ V = U \ {j}) \/ (j \notin U /\ V = U \cup {j})
          => SumFunctionOnSet(FeeFn(K), V)
               = IF V = U THEN SumFunctionOnSet(FeeFn(J), U)
                 ELSE IF j \in U THEN SumFunctionOnSet(FeeFn(J), U) - fee
                 ELSE SumFunctionOnSet(FeeFn(J), U) + fee
  BY MovesOn
<1> HIDE DEF fee
<1>3. Unsettled(J) \in SUBSET DOMAIN J /\ j \in Unsettled(J)
  BY <1>1 DEF Unsettled
<1>4. Unsettled(K) = IF Settled(job) THEN Unsettled(J) \ {j} ELSE Unsettled(J)
  BY <1>1 DEF Unsettled
<1>5. /\ Settled(job) => Escrow(K) = Escrow(J) - fee
      /\ ~Settled(job) => Escrow(K) = Escrow(J)
  BY <1>2, <1>3, <1>4 DEF Escrow
<1>6. ASSUME NEW a
      PROVE  /\ (Takes(job, a) <=> Takes(J[j], a)) => Bond(K, a) = Bond(J, a)
             /\ Takes(J[j], a) /\ ~Takes(job, a) => Bond(K, a) = Bond(J, a) - fee
             /\ Takes(job, a) /\ ~Takes(J[j], a) => Bond(K, a) = Bond(J, a) + fee
  <2>1. Taken(J, a) \in SUBSET DOMAIN J /\ (j \in Taken(J, a) <=> Takes(J[j], a))
    BY <1>1 DEF Taken
  <2>2. CASE Takes(job, a) <=> Takes(J[j], a)
    <3>1. Taken(K, a) = Taken(J, a)
      BY <1>1, <2>2, SMTT(30) DEF Taken
    <3> QED BY <1>2, <2>1, <2>2, <3>1 DEF Bond
  <2>3. CASE Takes(J[j], a) /\ ~Takes(job, a)
    <3>1. Taken(K, a) = Taken(J, a) \ {j}
      BY <1>1, <2>3, SMTT(30) DEF Taken
    <3> QED BY <1>2, <2>1, <2>3, <3>1 DEF Bond
  <2>4. CASE Takes(job, a) /\ ~Takes(J[j], a)
    <3>1. Taken(K, a) = Taken(J, a) \cup {j}
      BY <1>1, <2>4, SMTT(30) DEF Taken
    <3> QED BY <1>2, <2>1, <2>4, <3>1 DEF Bond
  <2> QED BY <2>2, <2>3, <2>4
<1> QED BY <1>5, <1>6 DEF fee, Carries

\* A job is created.
LEMMA JobPut ==
  ASSUME NEW J, NEW D, JobsOK(J, D), NEW j, j \notin DOMAIN J, NEW job \in JobRecord,
         job.status = STATUS_OPEN, NEW K, K = put(J, j, job)
  PROVE  /\ Escrow(K) = Escrow(J) + job.fee
         /\ \A a : Bond(K, a) = Bond(J, a)
<1>1. DOMAIN K = DOMAIN J \cup {j} /\ K[j] = job /\ \A i \in DOMAIN J : K[i] = J[i]
  BY DEF put
<1>2. ~Settled(job) /\ \A a : ~Takes(job, a)
  BY SMTT(30) DEF Settled, Takes, STATUS_OPEN, STATUS_ACCEPTED, STATUS_SUBMITTED,
     STATUS_SLASHED, STATUS_CANCELED
<1>3. Unsettled(K) = Unsettled(J) \cup {j} /\ \A a : Taken(K, a) = Taken(J, a)
  BY <1>1, <1>2 DEF Unsettled, Taken
<1>4. /\ \A i \in DOMAIN J : FeeFn(J)[i] = FeeFn(K)[i] /\ FeeFn(J)[i] \in Int
      /\ FeeFn(K)[j] = job.fee /\ job.fee \in Int
  <2>1. \A i \in DOMAIN J : FeeFn(J)[i] = FeeFn(K)[i] /\ FeeFn(J)[i] \in Nat
    BY <1>1, FeesType DEF FeeFn
  <2>2. FeeFn(K)[j] = job.fee /\ job.fee \in Nat
    BY <1>1 DEF FeeFn, JobRecord
  <2> QED BY <2>1, <2>2, SMTT(30)
<1>5. /\ Unsettled(J) \subseteq DOMAIN J /\ Listed(Unsettled(J))
      /\ \A a : Taken(J, a) \subseteq DOMAIN J /\ Listed(Taken(J, a))
  BY FeesType DEF Unsettled, Taken
<1>6. Escrow(K) = Escrow(J) + job.fee
  <2> DEFINE U == Unsettled(J)
  <2>1. /\ Listed(U) /\ j \notin U /\ FeeFn(K)[j] \in Int
        /\ \A i \in U : FeeFn(J)[i] = FeeFn(K)[i] /\ FeeFn(J)[i] \in Int
    BY <1>4, <1>5
  <2>2. SumFunctionOnSet(FeeFn(K), U \cup {j}) = SumFunctionOnSet(FeeFn(J), U) + FeeFn(K)[j]
    <3> DEFINE f == FeeFn(J)
               g == FeeFn(K)
    <3>1. /\ Listed(U) /\ j \notin U /\ g[j] \in Int
          /\ \A i \in U : f[i] = g[i] /\ f[i] \in Int
      BY <2>1
    <3> HIDE DEF f, g, U
    <3>2. SumFunctionOnSet(g, U \cup {j}) = SumFunctionOnSet(f, U) + g[j]
      BY <3>1, SumAdd, SMTT(30)
    <3> QED BY <3>2 DEF f, g
  <2> QED BY <1>3, <1>4, <2>2 DEF Escrow, U
<1>7. ASSUME NEW a PROVE Bond(K, a) = Bond(J, a)
  <2>1. SumFunctionOnSet(FeeFn(J), Taken(J, a)) = SumFunctionOnSet(FeeFn(K), Taken(J, a))
    BY <1>4, <1>5, SumSame, SMTT(30)
  <2>2. Taken(K, a) = Taken(J, a)
    BY <1>3
  <2> QED BY <2>1, <2>2 DEF Bond
<1> QED BY <1>6, <1>7

-----------------------------------------------------------------------------
(* One lemma per entry point that moves a stake, a fee or a bond.          *)

\* The inductive invariant of the books.
BooksInv == RegistryInv /\ Solvent /\ BondedIsAcceptedFees

\* What the invariant says of stakes, escrow and bonds.
LEMMA BooksFacts ==
  ASSUME BooksInv
  PROVE  /\ RestOK /\ RelayersOK(relayers) /\ JobsOK(jobs, DOMAIN relayers)
         /\ slashed \in [Accounts -> Nat] /\ sac \in [Holders -> Nat]
         /\ Balanced(sac[Registry], relayers, jobs, slashed)
         /\ BondsMatch(relayers, jobs, slashed)
         /\ Stakes(relayers) \in Int /\ Escrow(jobs) \in Int
         /\ Reported(slashed) \in Int /\ sac[Registry] \in Nat
<1>1. /\ RestOK /\ RelayersOK(relayers) /\ JobsOK(jobs, DOMAIN relayers)
      /\ slashed \in [Accounts -> Nat] /\ sac \in [Holders -> Nat]
      /\ Registry \in Holders
  BY InvParts DEF BooksInv, RestOK, Holders
<1>2. Reported(slashed) \in Int
  <2>1. \A a \in Accounts : slashed[a] \in Int
    BY <1>1, SMTT(30)
  <2> QED BY <2>1, SumRemove, AddressesListed DEF Reported
<1> QED BY <1>1, <1>2, BooksParts, StakesType, BooksType DEF BooksInv

\* What a payment of the registry costs it, and what an account pays in.
LEMMA PaidBalance ==
  ASSUME NEW bal \in [Holders -> Nat], NEW to \in Holders, NEW amount \in Nat,
         Paid(bal, to, amount)
  PROVE  sac'[Registry] \in Nat /\ sac'[Registry] >= bal[Registry] - amount
<1>1. Registry \in Holders /\ bal[Registry] >= amount
  BY DEF Holders, Paid
<1> QED BY <1>1, PaidType, TransferBalance DEF Paid

\* What is collected from an account reaches the registry.
LEMMA CollectedBalance ==
  ASSUME sac \in [Holders -> Nat], NEW from \in Accounts, NEW amount \in Nat,
         Collected(from, amount)
  PROVE  sac'[Registry] = sac[Registry] + amount
<1>1. Registry \in Holders /\ from \in Holders /\ sac[from] >= amount /\ from # Registry
  BY RegistryAddressAssumption DEF Holders, Collected
<1> QED BY <1>1, TransferBalance, SMTT(30) DEF Collected

\* A step that changes the bond of one relayer and of no other.
LEMMA BondsUpdate ==
  ASSUME NEW R, NEW J, NEW K, NEW L, BondsMatch(R, J, L), NEW a \in DOMAIN R,
         NEW record, \A b \in DOMAIN R \ {a} : Bond(K, b) = Bond(J, b),
         L[a] = 0 /\ R[a].bonded_stake = Bond(J, a) => record.bonded_stake = Bond(K, a)
  PROVE  BondsMatch([R EXCEPT ![a] = record], K, L)
BY DEF BondsMatch

\* register adds a stake that was paid in.
LEMMA RegisterBooks ==
  ASSUME BooksInv, NEW a \in Accounts, NEW s \in Amounts, register(a, s)
  PROVE  Solvent' /\ BondedIsAcceptedFees'
<1> DEFINE record == [free_stake |-> s, bonded_stake |-> 0,
                      pending_unstake |-> 0, unstake_unlock_ledger |-> 0]
<1>1. /\ RestOK /\ RelayersOK(relayers) /\ JobsOK(jobs, DOMAIN relayers)
      /\ Balanced(sac[Registry], relayers, jobs, slashed)
      /\ BondsMatch(relayers, jobs, slashed)
      /\ Stakes(relayers) \in Int /\ Escrow(jobs) \in Int
      /\ Reported(slashed) \in Int /\ sac[Registry] \in Nat
      /\ slashed \in [Accounts -> Nat] /\ sac \in [Holders -> Nat]
  BY BooksFacts
<1>2. s \in Nat
  BY <1>1, RegistryAmountsAssumption, SMTT(30) DEF register, RestOK
<1>3. /\ a \notin DOMAIN relayers /\ relayers' = put(relayers, a, record)
      /\ jobs' = jobs /\ slashed' = slashed /\ Collected(a, s)
  BY DEF register
<1>4. record \in RelayerRecord /\ StakeOf(record) = s /\ record.bonded_stake = 0
  BY <1>2, SMTT(30) DEF RelayerRecord, StakeOf
<1> HIDE DEF record
<1>5. sac'[Registry] = sac[Registry] + s
  BY <1>1, <1>2, <1>3, CollectedBalance
<1>6. Stakes(relayers') = Stakes(relayers) + s
  BY <1>1, <1>3, <1>4, StakesPut
<1>7. Balanced(sac'[Registry], relayers', jobs', slashed')
  BY <1>1, <1>2, <1>3, <1>5, <1>6, SMTT(30) DEF Balanced
<1>8. Bond(jobs, a) = 0
  <2>1. Taken(jobs, a) = {}
    <3> SUFFICES ASSUME NEW j \in DOMAIN jobs, Takes(jobs[j], a) PROVE FALSE
      BY DEF Taken
    <3>1. jobs[j].status \notin {STATUS_OPEN, STATUS_CANCELED}
      BY SMTT(30) DEF Takes, STATUS_ACCEPTED, STATUS_OPEN, STATUS_CANCELED
    <3>2. jobs[j].accepted_relayer \in DOMAIN relayers
      BY <1>1, <3>1 DEF JobsOK, JobOK
    <3> QED BY <1>3, <3>2 DEF Takes
  <2> QED BY <2>1, SumFold, ListedEmpty DEF Bond
<1>9. BondsMatch(relayers', jobs', slashed')
  BY <1>1, <1>3, <1>4, <1>8 DEF BondsMatch, put
<1> QED BY <1>1, <1>3, <1>7, <1>9, BooksPartsNext

\* What a call that changes one record of a relayer and no job has to show.
LEMMA RelayerBooks ==
  ASSUME BooksInv, NEW a \in DOMAIN relayers, NEW record \in RelayerRecord,
         relayers' = [relayers EXCEPT ![a] = record], jobs' = jobs, slashed' = slashed,
         record.bonded_stake = relayers[a].bonded_stake, sac'[Registry] \in Nat,
         sac'[Registry] - sac[Registry] >= StakeOf(record) - StakeOf(relayers[a])
  PROVE  Solvent' /\ BondedIsAcceptedFees'
<1>1. /\ RelayersOK(relayers) /\ slashed \in [Accounts -> Nat]
      /\ Balanced(sac[Registry], relayers, jobs, slashed)
      /\ BondsMatch(relayers, jobs, slashed)
      /\ Stakes(relayers) \in Int /\ Escrow(jobs) \in Int
      /\ Reported(slashed) \in Int /\ sac[Registry] \in Nat
  BY BooksFacts
<1>2. StakeOf(record) \in Int /\ StakeOf(relayers[a]) \in Int
  BY <1>1, StakeType DEF RelayersOK
<1>3. Stakes(relayers') = (Stakes(relayers) - StakeOf(relayers[a])) + StakeOf(record)
  BY <1>1, StakesUpdate
<1>4. Balanced(sac'[Registry], relayers', jobs', slashed')
  BY <1>1, <1>2, <1>3, SMTT(30) DEF Balanced
<1>5. BondsMatch(relayers', jobs', slashed')
  BY <1>1, BondsUpdate
<1> QED BY <1>1, <1>4, <1>5, BooksPartsNext

\* Staking and unstaking move a stake, or pay it out.
LEMMA StakeBooks ==
  ASSUME BooksInv, NEW a \in Accounts, NEW s \in Amounts \cup {0},
         add_stake(a, s) \/ request_unstake(a, s) \/ withdraw_stake(a)
  PROVE  Solvent' /\ BondedIsAcceptedFees'
<1>1. /\ RelayersOK(relayers) /\ RestOK
      /\ sac[Registry] \in Nat /\ sac \in [Holders -> Nat]
  BY BooksFacts
<1>2. a \in DOMAIN relayers /\ a \in Holders
  BY DEF add_stake, request_unstake, withdraw_stake, Holders
<1>3. relayers[a] \in RelayerRecord /\ jobs' = jobs /\ slashed' = slashed
  BY <1>1, <1>2 DEF RelayersOK, add_stake, request_unstake, withdraw_stake
<1>4. /\ relayers[a].free_stake \in Nat /\ relayers[a].bonded_stake \in Int
      /\ relayers[a].pending_unstake \in Nat
  BY <1>3 DEF RelayerRecord
<1>5. s \in Int
  BY RegistryAmountsAssumption, SMTT(30)
<1>6. CASE add_stake(a, s)
  <2> DEFINE r == [relayers[a] EXCEPT !.free_stake = @ + s]
  <2>1. /\ s > 0 /\ Collected(a, s) /\ relayers' = [relayers EXCEPT ![a] = r]
    BY <1>2, <1>6 DEF add_stake
  <2>2. /\ r \in RelayerRecord /\ r.bonded_stake = relayers[a].bonded_stake
        /\ StakeOf(r) - StakeOf(relayers[a]) = s
    BY <1>3, <1>4, <1>5, <2>1, SMTT(30) DEF RelayerRecord, StakeOf
  <2> HIDE DEF r
  <2>3. s \in Nat
    BY <1>5, <2>1, SMTT(30)
  <2>4. sac'[Registry] = sac[Registry] + s
    BY <1>1, <2>1, <2>3, CollectedBalance
  <2>5. sac'[Registry] \in Nat /\ sac'[Registry] - sac[Registry] >= s
    BY <1>1, <2>3, <2>4, SMTT(30)
  <2> QED BY <1>2, <1>3, <2>1, <2>2, <2>5, RelayerBooks
<1>7. CASE request_unstake(a, s)
  <2> DEFINE r == [relayers[a] EXCEPT
                     !.free_stake = @ - s, !.pending_unstake = @ + s,
                     !.unstake_unlock_ledger = now + unstake_cooldown_ledgers]
  <2>1. /\ s > 0 /\ relayers[a].free_stake >= s /\ sac' = sac
        /\ relayers' = [relayers EXCEPT ![a] = r]
    BY <1>2, <1>7 DEF request_unstake
  <2>2. /\ relayers[a].free_stake - s \in Nat /\ relayers[a].pending_unstake + s \in Nat
        /\ now + unstake_cooldown_ledgers \in Nat
    BY <1>1, <1>4, <1>5, <2>1, SMTT(30) DEF RestOK
  <2>3. r \in RelayerRecord /\ r.bonded_stake = relayers[a].bonded_stake
    BY <1>3, <2>2 DEF RelayerRecord
  <2>4. StakeOf(r) - StakeOf(relayers[a]) = 0
    BY <1>3, <1>4, <1>5, SMTT(30) DEF RelayerRecord, StakeOf
  <2> HIDE DEF r
  <2>5. sac'[Registry] \in Nat /\ sac'[Registry] - sac[Registry] >= 0
    BY <1>1, <2>1, SMTT(30)
  <2> QED BY <1>2, <1>3, <2>1, <2>3, <2>4, <2>5, RelayerBooks
<1>8. CASE withdraw_stake(a)
  <2> DEFINE r == [relayers[a] EXCEPT !.pending_unstake = 0, !.unstake_unlock_ledger = 0]
             v == relayers[a].pending_unstake
  <2>1. Paid(sac, a, v) /\ relayers' = [relayers EXCEPT ![a] = r]
    BY <1>2, <1>8 DEF withdraw_stake
  <2>2. r \in RelayerRecord /\ r.bonded_stake = relayers[a].bonded_stake
    BY <1>3 DEF RelayerRecord
  <2>3. StakeOf(r) - StakeOf(relayers[a]) = 0 - v
    BY <1>3, <1>4, SMTT(30) DEF RelayerRecord, StakeOf
  <2> HIDE DEF r, v
  <2>4. v \in Nat
    BY <1>4 DEF v
  <2>5. sac'[Registry] \in Nat /\ sac'[Registry] >= sac[Registry] - v
    BY <1>1, <1>2, <2>1, <2>4, PaidBalance
  <2>6. sac'[Registry] - sac[Registry] >= 0 - v
    BY <1>1, <2>4, <2>5, SMTT(30)
  <2> QED BY <1>2, <1>3, <2>1, <2>2, <2>3, <2>5, <2>6, RelayerBooks
<1> QED BY <1>6, <1>7, <1>8

\* create_job pays the fee into escrow.
LEMMA CreateBooks ==
  ASSUME BooksInv, NEW a \in Accounts, NEW j \in JobIds, NEW p \in Payloads,
         NEW d \in 1 .. (MaxLedger - 1), NEW fee \in Amounts,
         create_job(a, j, p, d, fee)
  PROVE  Solvent' /\ BondedIsAcceptedFees'
<1> DEFINE job == [creator |-> a, payload_hash |-> p, fee |-> fee,
                   deadline_ledger |-> d, accepted_relayer |-> NoRelayer,
                   status |-> STATUS_OPEN]
<1>1. /\ JobsOK(jobs, DOMAIN relayers) /\ sac \in [Holders -> Nat]
      /\ Balanced(sac[Registry], relayers, jobs, slashed)
      /\ BondsMatch(relayers, jobs, slashed)
      /\ Stakes(relayers) \in Int /\ Escrow(jobs) \in Int
      /\ Reported(slashed) \in Int /\ sac[Registry] \in Nat
      /\ slashed \in [Accounts -> Nat]
  BY BooksFacts
<1>2. fee \in Nat /\ d \in Nat
  BY RegistryAmountsAssumption, RegistryLedgerAssumption, SMTT(30) DEF create_job
<1>3. /\ j \notin DOMAIN jobs /\ jobs' = put(jobs, j, job) /\ Collected(a, fee)
      /\ relayers' = relayers /\ slashed' = slashed
  BY DEF create_job
<1>4. job \in JobRecord /\ job.status = STATUS_OPEN /\ job.fee = fee
  BY <1>2, SMTT(30) DEF JobRecord, STATUS_OPEN, STATUS_CANCELED
<1> HIDE DEF job
<1>5. sac'[Registry] = sac[Registry] + fee
  BY <1>1, <1>2, <1>3, CollectedBalance
<1>6. Escrow(jobs') = Escrow(jobs) + fee /\ \A b : Bond(jobs', b) = Bond(jobs, b)
  <2>1. JobsOK(jobs, DOMAIN relayers) /\ j \notin DOMAIN jobs /\ jobs' = put(jobs, j, job)
    BY <1>1, <1>3
  <2> QED BY <1>4, <2>1, JobPut, SMTT(30)
<1>7. Balanced(sac'[Registry], relayers', jobs', slashed')
  BY <1>1, <1>2, <1>3, <1>5, <1>6, SMTT(30) DEF Balanced
<1>8. BondsMatch(relayers', jobs', slashed')
  BY <1>1, <1>3, <1>6 DEF BondsMatch
<1> QED BY <1>1, <1>3, <1>7, <1>8, BooksPartsNext

\* accept_job bonds the fee of the job from free stake.
LEMMA AcceptBooks ==
  ASSUME BooksInv, NEW a \in Accounts, NEW j \in JobIds, accept_job(a, j)
  PROVE  Solvent' /\ BondedIsAcceptedFees'
<1> DEFINE fee == jobs[j].fee
           record == [relayers[a] EXCEPT !.free_stake = @ - fee,
                                         !.bonded_stake = @ + fee]
           job == [jobs[j] EXCEPT !.accepted_relayer = a,
                                  !.status = STATUS_ACCEPTED]
<1>1. /\ RelayersOK(relayers) /\ JobsOK(jobs, DOMAIN relayers)
      /\ Balanced(sac[Registry], relayers, jobs, slashed)
      /\ BondsMatch(relayers, jobs, slashed)
      /\ Stakes(relayers) \in Int /\ slashed \in [Accounts -> Nat]
  BY BooksFacts
<1>2. /\ a \in DOMAIN relayers /\ j \in DOMAIN jobs /\ jobs[j].status = STATUS_OPEN
      /\ relayers[a].free_stake >= fee
      /\ relayers' = [relayers EXCEPT ![a] = record]
      /\ jobs' = [jobs EXCEPT ![j] = job]
      /\ slashed' = slashed /\ sac' = sac
  BY DEF accept_job
<1>3. relayers[a] \in RelayerRecord /\ jobs[j] \in JobRecord
  BY <1>1, <1>2 DEF RelayersOK, JobsOK, JobOK
<1>4. /\ relayers[a].free_stake \in Nat /\ relayers[a].bonded_stake \in Int
      /\ relayers[a].pending_unstake \in Nat /\ fee \in Nat
  BY <1>3 DEF RelayerRecord, JobRecord
<1>5. /\ record \in RelayerRecord /\ record.bonded_stake = relayers[a].bonded_stake + fee
      /\ StakeOf(record) = StakeOf(relayers[a])
  <2>1. relayers[a].free_stake - fee \in Nat /\ relayers[a].bonded_stake + fee \in Int
    BY <1>2, <1>4, SMTT(30)
  <2>2. /\ record \in RelayerRecord
        /\ record.free_stake = relayers[a].free_stake - fee
        /\ record.bonded_stake = relayers[a].bonded_stake + fee
        /\ record.pending_unstake = relayers[a].pending_unstake
    BY <1>3, <2>1 DEF RelayerRecord
  <2> HIDE DEF record, fee
  <2> QED BY <1>4, <2>2, SMTT(30) DEF StakeOf
<1>6. /\ job.fee = fee /\ job.status = STATUS_ACCEPTED /\ job.accepted_relayer = a
  BY <1>3 DEF JobRecord
<1> HIDE DEF record, job
<1>7. /\ ~Settled(jobs[j]) /\ ~Settled(job) /\ \A b : ~Takes(jobs[j], b)
      /\ \A b : Takes(job, b) <=> b = a
  BY <1>2, <1>6, SMTT(30) DEF Settled, Takes, STATUS_OPEN, STATUS_ACCEPTED,
     STATUS_SUBMITTED, STATUS_SLASHED, STATUS_CANCELED
<1>8. /\ Escrow(jobs') = Escrow(jobs) /\ Bond(jobs', a) = Bond(jobs, a) + fee
      /\ \A b : b # a => Bond(jobs', b) = Bond(jobs, b)
  <2>1. /\ JobsOK(jobs, DOMAIN relayers) /\ Replaced(jobs', jobs, j, job)
        /\ ~Settled(jobs[j])
    BY <1>1, <1>2, <1>6, <1>7, JobUpdate
  <2>2. Carries(jobs', jobs, jobs[j], job)
    BY <2>1, JobReplaced
  <2> QED BY <1>7, <2>2 DEF Carries
<1>9. StakeOf(record) \in Int
  BY <1>5, StakeType
<1>10. Stakes(relayers') = Stakes(relayers)
  <2>1. Stakes(relayers') = (Stakes(relayers) - StakeOf(record)) + StakeOf(record)
    BY <1>1, <1>2, <1>5, StakesUpdate
  <2> QED BY <1>1, <1>9, <2>1, SMTT(30)
<1>11. Balanced(sac'[Registry], relayers', jobs', slashed')
  BY <1>1, <1>2, <1>8, <1>10 DEF Balanced
<1>12. BondsMatch(relayers', jobs', slashed')
  BY <1>1, <1>2, <1>5, <1>8, BondsUpdate
<1> QED BY <1>1, <1>2, <1>11, <1>12, BooksPartsNext

\* The fee leaves the escrow and the registry, the bond goes back to the free
\* stake; the pool may have paid the registry, and took nothing from it.
LEMMA SubmitBooks ==
  ASSUME BooksInv, NEW a \in Accounts, NEW j \in JobIds, NEW p,
         NEW after \in [Holders -> Nat], after[Registry] >= sac[Registry],
         submit_pool_withdraw(a, j, p, after)
  PROVE  Solvent' /\ BondedIsAcceptedFees'
<1> DEFINE fee == jobs[j].fee
           record == [relayers[a] EXCEPT !.bonded_stake = @ - fee,
                                         !.free_stake = @ + fee]
           job == [jobs[j] EXCEPT !.status = STATUS_SUBMITTED]
<1>1. /\ RelayersOK(relayers) /\ JobsOK(jobs, DOMAIN relayers)
      /\ Balanced(sac[Registry], relayers, jobs, slashed)
      /\ BondsMatch(relayers, jobs, slashed)
      /\ Stakes(relayers) \in Int /\ Escrow(jobs) \in Int
      /\ Reported(slashed) \in Int /\ sac[Registry] \in Nat
      /\ slashed \in [Accounts -> Nat]
  BY BooksFacts
<1>2. /\ j \in DOMAIN jobs /\ jobs[j].status = STATUS_ACCEPTED
      /\ jobs[j].accepted_relayer = a
      /\ relayers' = [relayers EXCEPT ![a] = record]
      /\ jobs' = [jobs EXCEPT ![j] = job]
      /\ slashed' = slashed /\ Paid(after, a, fee)
  BY DEF submit_pool_withdraw
<1>3. a \in DOMAIN relayers /\ jobs[j] \in JobRecord
  BY <1>1, <1>2, SMTT(30) DEF JobsOK, JobOK, STATUS_OPEN, STATUS_ACCEPTED, STATUS_CANCELED
<1>4. relayers[a] \in RelayerRecord
  BY <1>1, <1>3 DEF RelayersOK
<1>5. /\ relayers[a].free_stake \in Nat /\ relayers[a].bonded_stake \in Int
      /\ relayers[a].pending_unstake \in Nat /\ fee \in Nat
  BY <1>3, <1>4 DEF RelayerRecord, JobRecord
<1>6. /\ record \in RelayerRecord /\ record.bonded_stake = relayers[a].bonded_stake - fee
      /\ StakeOf(record) = StakeOf(relayers[a])
  <2>1. relayers[a].free_stake + fee \in Nat /\ relayers[a].bonded_stake - fee \in Int
    BY <1>5, SMTT(30)
  <2>2. /\ record \in RelayerRecord
        /\ record.free_stake = relayers[a].free_stake + fee
        /\ record.bonded_stake = relayers[a].bonded_stake - fee
        /\ record.pending_unstake = relayers[a].pending_unstake
    BY <1>4, <2>1 DEF RelayerRecord
  <2> HIDE DEF record, fee
  <2> QED BY <1>5, <2>2, SMTT(30) DEF StakeOf
<1>7. job.fee = fee /\ job.status = STATUS_SUBMITTED
  BY <1>3 DEF JobRecord
<1> HIDE DEF record, job
<1>8. /\ ~Settled(jobs[j]) /\ Settled(job) /\ \A b : ~Takes(job, b)
      /\ \A b : Takes(jobs[j], b) <=> b = a
  BY <1>2, <1>7, SMTT(30) DEF Settled, Takes, STATUS_OPEN, STATUS_ACCEPTED,
     STATUS_SUBMITTED, STATUS_SLASHED, STATUS_CANCELED
<1>9. /\ Escrow(jobs') = Escrow(jobs) - fee /\ Bond(jobs', a) = Bond(jobs, a) - fee
      /\ \A b : b # a => Bond(jobs', b) = Bond(jobs, b)
  <2>1. /\ JobsOK(jobs, DOMAIN relayers) /\ Replaced(jobs', jobs, j, job)
        /\ ~Settled(jobs[j])
    BY <1>1, <1>2, <1>7, <1>8, JobUpdate
  <2>2. Carries(jobs', jobs, jobs[j], job)
    BY <2>1, JobReplaced
  <2> QED BY <1>8, <2>2 DEF Carries
<1>10. Stakes(relayers') = Stakes(relayers)
  <2>1. StakeOf(record) \in Int
    BY <1>6, StakeType
  <2>2. Stakes(relayers') = (Stakes(relayers) - StakeOf(relayers[a])) + StakeOf(record)
    BY <1>1, <1>2, <1>3, <1>6, StakesUpdate
  <2> QED BY <1>1, <1>6, <2>1, <2>2, SMTT(30)
<1> HIDE DEF fee
<1>11. sac'[Registry] \in Nat /\ sac'[Registry] >= after[Registry] - fee
  BY <1>2, <1>5, PaidBalance DEF Holders
<1>12. after[Registry] \in Nat
  BY DEF Holders
<1>13. Balanced(sac'[Registry], relayers', jobs', slashed')
  <2>1. slashed' = slashed
    BY <1>2
  <2>2. /\ sac[Registry] + Reported(slashed) >= Stakes(relayers) + Escrow(jobs)
        /\ Stakes(relayers) \in Int /\ Escrow(jobs) \in Int
        /\ Reported(slashed) \in Int /\ sac[Registry] \in Nat
    BY <1>1 DEF Balanced
  <2> QED BY <1>5, <1>9, <1>10, <1>11, <1>12, <2>1, <2>2, SMTT(30) DEF Balanced
<1>14. BondsMatch(relayers', jobs', slashed')
  BY <1>1, <1>2, <1>3, <1>6, <1>9, BondsUpdate
<1> QED BY <1>1, <1>2, <1>13, <1>14, BooksPartsNext

\* slash_job pays twice the fee: the escrow and the bond cover it.
LEMMA SlashBooks ==
  ASSUME BooksInv, NEW c \in Accounts, NEW j \in JobIds, slash_job(c, j)
  PROVE  Solvent' /\ BondedIsAcceptedFees'
<1> DEFINE fee == jobs[j].fee
           a == jobs[j].accepted_relayer
           record == slashed_relayer(relayers[a], fee)
           job == [jobs[j] EXCEPT !.status = STATUS_SLASHED]
<1>1. /\ RelayersOK(relayers) /\ JobsOK(jobs, DOMAIN relayers)
      /\ Balanced(sac[Registry], relayers, jobs, slashed)
      /\ BondsMatch(relayers, jobs, slashed)
      /\ Stakes(relayers) \in Int /\ Escrow(jobs) \in Int
      /\ Reported(slashed) \in Int /\ sac[Registry] \in Nat
      /\ slashed \in [Accounts -> Nat] /\ sac \in [Holders -> Nat]
      /\ RegistryInv
  BY BooksFacts DEF BooksInv
<1>2. /\ j \in DOMAIN jobs /\ jobs[j].status = STATUS_ACCEPTED
      /\ relayers' = [relayers EXCEPT ![a] = record]
      /\ jobs' = [jobs EXCEPT ![j] = job]
      /\ slashed' = slashed /\ Paid(sac, c, fee * 2)
  BY DEF slash_job, missed
<1>3. a \in DOMAIN relayers /\ jobs[j] \in JobRecord
  BY <1>1, <1>2, SMTT(30) DEF JobsOK, JobOK, STATUS_OPEN, STATUS_ACCEPTED, STATUS_CANCELED
<1>4. relayers[a] \in RelayerRecord
  BY <1>1, <1>3 DEF RelayersOK
<1>5. /\ relayers[a].free_stake \in Nat /\ relayers[a].bonded_stake \in Int
      /\ relayers[a].pending_unstake \in Nat /\ relayers[a].unstake_unlock_ledger \in Nat
      /\ fee \in Nat
  BY <1>3, <1>4 DEF RelayerRecord, JobRecord
<1>6. /\ record \in RelayerRecord /\ record.bonded_stake = relayers[a].bonded_stake - fee
      /\ StakeOf(record) <= StakeOf(relayers[a]) - fee
  <2> DEFINE r == relayers[a]
             pending == r.pending_unstake - Lesser(r.pending_unstake, fee)
             unlock == IF pending = 0 THEN 0 ELSE r.unstake_unlock_ledger
  <2>1. record = [r EXCEPT !.bonded_stake = @ - fee, !.pending_unstake = pending,
                           !.unstake_unlock_ledger = unlock]
    BY DEF slashed_relayer
  <2>2. /\ pending \in Nat /\ pending <= r.pending_unstake
        /\ r.bonded_stake - fee \in Int /\ unlock \in Nat
    BY <1>5, SMTT(30) DEF Lesser
  <2> HIDE DEF pending, unlock, record
  <2>3. /\ record \in RelayerRecord
        /\ record.free_stake = r.free_stake
        /\ record.bonded_stake = r.bonded_stake - fee
        /\ record.pending_unstake = pending
    BY <1>4, <2>1, <2>2 DEF RelayerRecord
  <2> HIDE DEF r, fee
  <2>4. StakeOf(record) <= StakeOf(r) - fee
    BY <1>5, <2>2, <2>3, SMTT(30) DEF StakeOf, r
  <2> QED BY <2>3, <2>4 DEF r
<1>7. job.fee = fee /\ job.status = STATUS_SLASHED
  BY <1>3 DEF JobRecord
<1> HIDE DEF record, job
<1>8. /\ ~Settled(jobs[j]) /\ Settled(job) /\ \A b : ~Takes(job, b)
      /\ \A b : Takes(jobs[j], b) <=> b = a
  BY <1>2, <1>7, SMTT(30) DEF Settled, Takes, STATUS_OPEN, STATUS_ACCEPTED,
     STATUS_SUBMITTED, STATUS_SLASHED, STATUS_CANCELED
<1>9. /\ Escrow(jobs') = Escrow(jobs) - fee /\ Bond(jobs', a) = Bond(jobs, a) - fee
      /\ \A b : b # a => Bond(jobs', b) = Bond(jobs, b)
  <2>1. /\ JobsOK(jobs, DOMAIN relayers) /\ Replaced(jobs', jobs, j, job)
        /\ ~Settled(jobs[j])
    BY <1>1, <1>2, <1>7, <1>8, JobUpdate
  <2>2. Carries(jobs', jobs, jobs[j], job)
    BY <2>1, JobReplaced
  <2> QED BY <1>8, <2>2 DEF Carries
<1> HIDE DEF a
<1>10. /\ Stakes(relayers') = (Stakes(relayers) - StakeOf(relayers[a])) + StakeOf(record)
       /\ StakeOf(record) \in Int /\ StakeOf(relayers[a]) \in Int
  BY <1>1, <1>2, <1>3, <1>4, <1>6, StakesUpdate, StakeType
<1>11. BondsMatch(relayers', jobs', slashed')
  BY <1>1, <1>2, <1>3, <1>6, <1>9, BondsUpdate
<1> HIDE DEF fee
<1>12. sac'[Registry] \in Nat /\ sac'[Registry] >= sac[Registry] - fee * 2
  <2>1. fee * 2 \in Nat /\ c \in Holders
    BY <1>5, SMTT(30) DEF Holders
  <2> QED BY <1>1, <1>2, <2>1, PaidBalance
<1>13. Balanced(sac'[Registry], relayers', jobs', slashed')
  BY <1>1, <1>2, <1>5, <1>6, <1>9, <1>10, <1>12, SMTT(30) DEF Balanced
<1> QED BY <1>1, <1>2, <1>11, <1>13, BooksPartsNext

\* cancel_job pays an open job's fee back.
LEMMA CancelBooks ==
  ASSUME BooksInv, NEW c \in Accounts, NEW j \in JobIds, cancel_job(c, j)
  PROVE  Solvent' /\ BondedIsAcceptedFees'
<1> DEFINE fee == jobs[j].fee
           job == [jobs[j] EXCEPT !.status = STATUS_CANCELED]
<1>1. /\ JobsOK(jobs, DOMAIN relayers) /\ sac \in [Holders -> Nat]
      /\ Balanced(sac[Registry], relayers, jobs, slashed)
      /\ BondsMatch(relayers, jobs, slashed)
      /\ Stakes(relayers) \in Int /\ Escrow(jobs) \in Int
      /\ Reported(slashed) \in Int /\ sac[Registry] \in Nat
      /\ slashed \in [Accounts -> Nat]
  BY BooksFacts
<1>2. /\ j \in DOMAIN jobs /\ jobs[j].status = STATUS_OPEN
      /\ jobs' = [jobs EXCEPT ![j] = job]
      /\ Paid(sac, c, fee)
  BY DEF cancel_job
<1>3. relayers' = relayers /\ slashed' = slashed
  BY DEF cancel_job
<1>4. jobs[j] \in JobRecord
  BY <1>1, <1>2 DEF JobsOK, JobOK
<1>5. job.fee = fee /\ job.status = STATUS_CANCELED /\ fee \in Nat
  BY <1>4 DEF JobRecord
<1> HIDE DEF job
<1>6. /\ ~Settled(jobs[j]) /\ Settled(job)
      /\ \A b : ~Takes(job, b) /\ ~Takes(jobs[j], b)
  BY <1>2, <1>5, SMTT(30) DEF Settled, Takes, STATUS_OPEN, STATUS_ACCEPTED,
     STATUS_SUBMITTED, STATUS_SLASHED, STATUS_CANCELED
<1>7. Escrow(jobs') = Escrow(jobs) - fee /\ \A b : Bond(jobs', b) = Bond(jobs, b)
  <2>1. /\ JobsOK(jobs, DOMAIN relayers) /\ Replaced(jobs', jobs, j, job)
        /\ ~Settled(jobs[j])
    BY <1>1, <1>2, <1>5, <1>6, JobUpdate
  <2>2. Carries(jobs', jobs, jobs[j], job)
    BY <2>1, JobReplaced
  <2> QED BY <1>6, <2>2 DEF Carries
<1> HIDE DEF fee
<1>8. sac'[Registry] \in Nat /\ sac'[Registry] >= sac[Registry] - fee
  BY <1>1, <1>2, <1>5, PaidBalance DEF Holders
<1>9. Balanced(sac'[Registry], relayers', jobs', slashed')
  BY <1>1, <1>3, <1>5, <1>7, <1>8, SMTT(30) DEF Balanced
<1>10. BondsMatch(relayers', jobs', slashed')
  BY <1>1, <1>3, <1>7 DEF BondsMatch
<1> QED BY <1>1, <1>3, <1>9, <1>10, BooksPartsNext

\* report_slash pays the whole amount and enters it in the slash record; the
\* relayer's stake only shrinks.
LEMMA ReportBooks ==
  ASSUME BooksInv, NEW a \in Accounts, NEW h \in Holders,
         NEW v \in SlashAmounts, report_slash(a, h, v)
  PROVE  Solvent' /\ BondedIsAcceptedFees'
<1> DEFINE r == relayers[a]
           record == [r EXCEPT !.bonded_stake = @ - slash_from_bonded(r, v),
                               !.free_stake = @ - slash_from_free(r, v)]
<1>1. /\ RelayersOK(relayers) /\ sac \in [Holders -> Nat]
      /\ Balanced(sac[Registry], relayers, jobs, slashed)
      /\ BondsMatch(relayers, jobs, slashed)
      /\ Stakes(relayers) \in Int /\ Escrow(jobs) \in Int
      /\ Reported(slashed) \in Int /\ sac[Registry] \in Nat
      /\ slashed \in [Accounts -> Nat]
  BY BooksFacts
<1>2. v \in Nat \ {0} /\ a \in DOMAIN relayers
  BY RegistryAmountsAssumption, SMTT(30) DEF report_slash
<1>3. r \in RelayerRecord
  BY <1>1, <1>2 DEF RelayersOK
<1>4. /\ relayers' = [relayers EXCEPT ![a] = record]
      /\ slashed' = [slashed EXCEPT ![a] = @ + v]
      /\ Paid(sac, h, v) /\ jobs' = jobs
  BY <1>2 DEF report_slash
<1>5. /\ r.free_stake - slash_from_free(r, v) \in Nat /\ slash_from_free(r, v) \in Nat
      /\ r.bonded_stake - slash_from_bonded(r, v) \in Int /\ slash_from_bonded(r, v) \in Nat
      /\ r.free_stake \in Nat /\ r.bonded_stake \in Int /\ r.pending_unstake \in Nat
  <2>1. r.free_stake \in Nat /\ r.bonded_stake \in Int /\ r.pending_unstake \in Nat
    BY <1>3 DEF RelayerRecord
  <2> HIDE DEF r
  <2> QED BY <1>2, <2>1, SMTT(30) DEF slash_from_free, slash_from_bonded, Lesser
<1>6. record \in RelayerRecord /\ StakeOf(record) <= StakeOf(r)
  <2> HIDE DEF r
  <2>1. /\ record \in RelayerRecord
        /\ record.free_stake = r.free_stake - slash_from_free(r, v)
        /\ record.bonded_stake = r.bonded_stake - slash_from_bonded(r, v)
        /\ record.pending_unstake = r.pending_unstake
    BY <1>3, <1>5 DEF RelayerRecord
  <2> HIDE DEF record
  <2> QED BY <1>5, <2>1, SMTT(30) DEF StakeOf
<1> HIDE DEF record
<1>7. /\ Stakes(relayers') = (Stakes(relayers) - StakeOf(r)) + StakeOf(record)
      /\ StakeOf(record) \in Int /\ StakeOf(r) \in Int
  BY <1>1, <1>2, <1>3, <1>4, <1>6, StakesUpdate, StakeType
<1> HIDE DEF r
<1>8. sac'[Registry] \in Nat /\ sac'[Registry] >= sac[Registry] - v
  BY <1>1, <1>2, <1>4, PaidBalance
<1>9. /\ slashed' \in [Accounts -> Nat] /\ slashed'[a] # 0
      /\ \A b \in Accounts \ {a} : slashed[b] = slashed'[b]
      /\ slashed'[a] = slashed[a] + v
  BY <1>1, <1>2, <1>4, SMTT(30)
<1>10. Reported(slashed') = Reported(slashed) + v
  <2>1. \A b \in Accounts : slashed[b] \in Int /\ slashed'[b] \in Int
    BY <1>1, <1>9, SMTT(30)
  <2>2. /\ Listed(Accounts) /\ a \in Accounts
        /\ \A b \in Accounts \ {a} : slashed[b] = slashed'[b]
    BY <1>9, AddressesListed
  <2>3. Reported(slashed') = (Reported(slashed) - slashed[a]) + slashed'[a]
    BY <2>1, <2>2, SumUpdate, SMTT(30) DEF Reported
  <2>4. /\ Reported(slashed) \in Int /\ v \in Int /\ slashed[a] \in Int
        /\ slashed'[a] = slashed[a] + v
    <3>1. v \in Int
      BY <1>2, SMTT(30)
    <3>2. slashed[a] \in Int /\ slashed'[a] = slashed[a] + v
      BY <1>9, <2>1
    <3> QED BY <1>1, <3>1, <3>2
  <2> QED BY <2>3, <2>4, SMTT(30)
<1>11. Balanced(sac'[Registry], relayers', jobs', slashed')
  <2>1. jobs' = jobs
    BY <1>4
  <2>2. StakeOf(record) <= StakeOf(r) /\ v \in Nat
    BY <1>2, <1>6
  <2> QED BY <1>1, <1>7, <1>8, <1>10, <2>1, <2>2, SMTT(30) DEF Balanced
<1>12. BondsMatch(relayers', jobs', slashed')
  <2>1. /\ DOMAIN relayers' = DOMAIN relayers /\ DOMAIN relayers \subseteq Accounts
        /\ \A b \in DOMAIN relayers \ {a} : relayers'[b] = relayers[b]
    BY <1>1, <1>4 DEF RelayersOK
  <2>2. jobs' = jobs
    BY <1>4
  <2> QED BY <1>1, <1>9, <2>1, <2>2 DEF BondsMatch
<1> QED BY <1>9, <1>11, <1>12, BooksPartsNext

\* Every step of the registry keeps the books.
LEMMA NextBooks == BooksInv /\ [Next]_vars => BooksInv'
<1> SUFFICES ASSUME BooksInv, [Next]_vars PROVE BooksInv'
  OBVIOUS
<1> DEFINE Goal == Solvent' /\ BondedIsAcceptedFees'
<1>1. RegistryInv'
  BY NextInv DEF BooksInv
<1>2. ASSUME NEW a \in Accounts, StakeCall(a) PROVE Goal
  <2>1. ASSUME NEW s \in Amounts, register(a, s) PROVE Goal
    BY <2>1, RegisterBooks
  <2>2. ASSUME NEW s \in Amounts, add_stake(a, s) \/ request_unstake(a, s) PROVE Goal
    BY <2>2, StakeBooks
  <2>3. CASE withdraw_stake(a)
    BY <2>3, StakeBooks
  <2> QED BY <1>2, <2>1, <2>2, <2>3 DEF StakeCall
<1>3. ASSUME NEW a \in Accounts, NEW j \in JobIds, JobCall(a, j) PROVE Goal
  <2>1. ASSUME NEW p \in Payloads, NEW after \in AfterPool,
               submit_pool_withdraw(a, j, p, after)
        PROVE  Goal
    BY <2>1, BooksFacts, AfterPoolType, SubmitBooks
  <2> QED BY <1>3, <2>1, CreateBooks, AcceptBooks, SlashBooks, CancelBooks DEF JobCall
<1>4. ASSUME NEW a \in Accounts, NEW h \in Holders, NEW v \in SlashAmounts,
             report_slash(a, h, v)
      PROVE  Goal
  BY <1>4, ReportBooks
<1>5. ASSUME UNCHANGED <<relayers, jobs, slashed, sac>> PROVE Goal
  <2>1. /\ slashed' \in [Accounts -> Nat]
        /\ Balanced(sac'[Registry], relayers', jobs', slashed')
        /\ BondsMatch(relayers', jobs', slashed')
    BY <1>5, BooksFacts
  <2> QED BY <2>1, BooksPartsNext
<1>6. ASSUME NEW a \in Accounts, AdminCall(a) PROVE UNCHANGED <<relayers, jobs, slashed, sac>>
  BY <1>6 DEF AdminCall, set_config, transfer_admin
<1>7. CloseLedger \/ UNCHANGED vars => UNCHANGED <<relayers, jobs, slashed, sac>>
  BY DEF CloseLedger, vars
<1>8. Goal
  BY <1>2, <1>3, <1>4, <1>5, <1>6, <1>7 DEF Next
<1> QED BY <1>1, <1>8 DEF BooksInv

\* A step of another contract keeps the books when it takes nothing from the
\* registry.
LEMMA OtherContractBooks ==
  ASSUME BooksInv, UNCHANGED <<now, config, relayers, jobs, slashed>>,
         sac' \in [Holders -> Nat], sac'[Registry] >= sac[Registry]
  PROVE  BooksInv'
<1>1. /\ RestOK /\ RelayersOK(relayers) /\ JobsOK(jobs, DOMAIN relayers)
      /\ slashed \in [Accounts -> Nat]
      /\ Balanced(sac[Registry], relayers, jobs, slashed)
      /\ BondsMatch(relayers, jobs, slashed)
      /\ Stakes(relayers) \in Int /\ Escrow(jobs) \in Int
      /\ Reported(slashed) \in Int /\ sac[Registry] \in Nat
  BY BooksFacts
<1>2. RegistryInv'
  <2>1. RestOK'
    BY <1>1 DEF RestOK, config
  <2> QED BY <1>1, <2>1, InvPartsNext
<1>3. sac'[Registry] \in Nat
  BY DEF Holders
<1>4. Balanced(sac'[Registry], relayers', jobs', slashed')
  BY <1>1, <1>3, SMTT(30) DEF Balanced
<1>5. BondsMatch(relayers', jobs', slashed')
  BY <1>1
<1> QED BY <1>1, <1>2, <1>4, <1>5, BooksPartsNext DEF BooksInv

\* A new registry owes nothing.
LEMMA InitBooks ==
  ASSUME InitStorage, sac \in [Holders -> Nat]
  PROVE  BooksInv
<1>1. DOMAIN relayers = {} /\ DOMAIN jobs = {} /\ slashed = [a \in Accounts |-> 0]
  BY DEF InitStorage
<1>2. Stakes(relayers) = 0 /\ Escrow(jobs) = 0
  <2>1. Unsettled(jobs) = {}
    BY <1>1 DEF Unsettled
  <2> QED BY <1>1, <2>1, SumFold, ListedEmpty DEF Stakes, Escrow
<1>3. Reported(slashed) = 0
  BY <1>1, SumZero, AddressesListed DEF Reported
<1>4. Registry \in Holders /\ sac[Registry] \in Nat /\ slashed \in [Accounts -> Nat]
  BY <1>1, SMTT(30) DEF Holders
<1>5. Balanced(sac[Registry], relayers, jobs, slashed)
  BY <1>2, <1>3, <1>4, SMTT(30) DEF Balanced
<1>6. BondsMatch(relayers, jobs, slashed)
  BY <1>1 DEF BondsMatch
<1> QED BY <1>4, <1>5, <1>6, BooksParts, InitStorageInv DEF BooksInv

\* The books balance in every reachable state.
LEMMA BooksHold == Spec => []BooksInv
<1>1. Init => BooksInv
  BY InitBooks, InitSac DEF Init
<1> QED BY <1>1, NextBooks, PTL DEF Spec

\* Whatever the interleaving of staking, jobs, submissions, slashes and
\* reports, the registry's balance covers every stake and every escrow, but for
\* what report_slash has paid out.
THEOREM SolventHolds == Spec => []Solvent
<1>1. BooksInv => Solvent
  BY DEF BooksInv
<1> QED BY <1>1, BooksHold, PTL

\* A relayer that was never reported has bonded exactly the fees of the jobs it
\* has accepted and not finished.
THEOREM BondsHold == Spec => []BondedIsAcceptedFees
<1>1. BooksInv => BondedIsAcceptedFees
  BY DEF BooksInv
<1> QED BY <1>1, BooksHold, PTL
==============================================================================
