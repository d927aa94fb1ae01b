-------------------------- MODULE RelayedPoolProofs --------------------------
(***************************************************************************)
(* Proofs about RelayedPool.  A step of the composition is to each of the  *)
(* two contracts a step of its own, a step of the other one that takes     *)
(* nothing from it, or its half of a submission; the invariants proved for *)
(* the pool and for the registry alone carry over to the shared ledger.    *)
(***************************************************************************)
EXTENDS RelayedPool, SorobanHost, TLAPS

USE ZenonT(20)

-----------------------------------------------------------------------------
(* The shared balances.                                                    *)

Addresses == Accounts \cup {Pool, Registry}
Balances == [Addresses -> Nat]

\* What the steps need to know of the state.
Typed ==
  /\ sac \in Balances
  /\ minimum_stake \in Nat
  /\ \A j \in DOMAIN jobs : jobs[j] \in R!JobRecord

\* The two contracts are addresses of their own.
LEMMA AddressFacts ==
  /\ Pool \in Addresses /\ Registry \in Addresses /\ Pool # Registry
  /\ Accounts \subseteq Addresses
  /\ \A a \in Accounts : a # Pool /\ a # Registry
BY RelayedAddressAssumption DEF Addresses

\* The balances both contracts start with.
LEMMA InitBalances == Init => sac \in Balances
BY RelayedAmountsAssumption, SMTT(30) DEF Init, Balances, Addresses

\* The constants of the registry: one address more leaves the accounts finite,
\* and a pool call is a step of the pool here and not a credit from outside.
LEMMA RegistryConstants ==
  /\ IsFiniteSet(Accounts \cup {Pool})
  /\ R!RegistryAmountsAssumption
  /\ R!AfterPool = {}
<1>1. IsFiniteSet(Accounts \cup {Pool})
  <2>1. PICK seq \in Seq(Accounts) :
          \A a \in Accounts : \E n \in 1 .. Len(seq) : seq[n] = a
    BY RelayedAddressAssumption DEF IsFiniteSet
  <2> DEFINE more == Append(seq, Pool)
  <2>2. /\ more \in Seq(Accounts \cup {Pool})
        /\ \A a \in Accounts \cup {Pool} : \E n \in 1 .. Len(more) : more[n] = a
    <3>1. /\ more \in Seq(Accounts \cup {Pool}) /\ Len(more) = Len(seq) + 1
          /\ more[Len(seq) + 1] = Pool /\ Len(seq) \in Nat
          /\ \A n \in 1 .. Len(seq) : more[n] = seq[n]
      BY SMTT(30)
    <3> HIDE DEF more
    <3>2. /\ Len(seq) + 1 \in 1 .. Len(more)
          /\ \A n \in 1 .. Len(seq) : n \in 1 .. Len(more)
      BY <3>1, SMTT(30)
    <3> QED BY <2>1, <3>1, <3>2
  <2> QED BY <2>2 DEF IsFiniteSet
<1>2. R!RegistryAmountsAssumption
  BY RelayedAmountsAssumption, SMTT(30) DEF R!RegistryAmountsAssumption
<1>3. R!AfterPool = {}
  BY SMTT(30) DEF R!AfterPool
<1> QED BY <1>1, <1>2, <1>3

\* A covered transfer keeps balances balances, takes from the sender only and
\* leaves everyone but sender and receiver alone.
LEMMA Transfers ==
  ASSUME NEW bal \in Balances, NEW from \in Addresses, NEW to \in Addresses,
         NEW amount \in Nat, bal[from] >= amount
  PROVE  /\ transfer(bal, from, to, amount) \in Balances
         /\ \A h \in Addresses \ {from} : transfer(bal, from, to, amount)[h] >= bal[h]
         /\ from # to => transfer(bal, from, to, amount)[from] = bal[from] - amount
         /\ \A h \in Addresses \ {from, to} : transfer(bal, from, to, amount)[h] = bal[h]
<1>1. transfer(bal, from, to, amount) \in Balances
  BY SMTT(30) DEF transfer, Balances
<1>2. \A h \in Addresses \ {from} : transfer(bal, from, to, amount)[h] >= bal[h]
  BY SMTT(30) DEF transfer, Balances
<1>3. from # to => transfer(bal, from, to, amount)[from] = bal[from] - amount
  BY SMTT(30) DEF transfer, Balances
<1>4. \A h \in Addresses \ {from, to} : transfer(bal, from, to, amount)[h] = bal[h]
  BY SMTT(30) DEF transfer, Balances
<1> QED BY <1>1, <1>2, <1>3, <1>4

\* The payouts of a withdrawal take nothing from the registry; those that pay
\* accounts take just the value from the pool and leave the registry alone.
LEMMA PayOuts ==
  ASSUME sac \in Balances, NEW w \in Payloads, P!withdraw_call(w)
  PROVE  /\ P!PaidOut(w) \in Balances
         /\ P!PaidOut(w)[Registry] >= sac[Registry]
         /\ {w.recipient, w.relayer} \subseteq Accounts =>
              /\ P!PaidOut(w)[Pool] = sac[Pool] - w.value
              /\ P!PaidOut(w)[Registry] = sac[Registry]
<1> DEFINE payout == w.value - w.fee
           paid == P!PaidRecipient(w)
           out == P!PaidOut(w)
<1>1. /\ w.recipient \in Addresses /\ w.relayer \in Addresses
      /\ w.value \in Int /\ w.fee \in Int
  BY RelayedAmountsAssumption DEF P!Withdrawals, P!Holders, Addresses
<1>2. w.value > 0 /\ w.fee >= 0 /\ w.fee <= w.value /\ P!Covered(w)
  BY DEF P!withdraw_call
<1>3. /\ w.value \in Nat /\ w.fee \in Nat /\ payout \in Nat
      /\ sac[Pool] >= payout /\ paid[Pool] >= w.fee
  BY <1>1, <1>2, SMTT(30) DEF P!Covered
<1>4. /\ paid = transfer(sac, Pool, w.recipient, payout)
      /\ out = transfer(paid, Pool, w.relayer, w.fee)
  BY DEF P!PaidRecipient, P!PaidOut, P!transfer, transfer
<1> HIDE DEF payout, paid, out
<1>5. /\ paid \in Balances
      /\ paid[Registry] >= sac[Registry]
      /\ w.recipient # Pool => paid[Pool] = sac[Pool] - payout
      /\ Registry # w.recipient => paid[Registry] = sac[Registry]
  BY <1>1, <1>3, <1>4, Transfers, AddressFacts, SMTT(30)
<1>6. /\ out \in Balances
      /\ out[Registry] >= paid[Registry]
      /\ w.relayer # Pool => out[Pool] = paid[Pool] - w.fee
      /\ Registry # w.relayer => out[Registry] = paid[Registry]
  BY <1>1, <1>3, <1>4, <1>5, Transfers, AddressFacts, SMTT(30)
<1>7. /\ sac[Registry] \in Nat /\ paid[Registry] \in Nat /\ out[Registry] \in Nat
      /\ sac[Pool] \in Nat
  BY <1>5, <1>6, AddressFacts DEF Balances
<1>8. out[Registry] >= sac[Registry]
  BY <1>5, <1>6, <1>7, SMTT(30)
<1>9. ASSUME {w.recipient, w.relayer} \subseteq Accounts
      PROVE  out[Pool] = sac[Pool] - w.value /\ out[Registry] = sac[Registry]
  <2>1. /\ w.recipient # Pool /\ w.relayer # Pool
        /\ Registry # w.recipient /\ Registry # w.relayer
    BY <1>9, AddressFacts
  <2> QED BY <1>3, <1>5, <1>6, <1>7, <2>1, SMTT(30) DEF payout
<1> QED BY <1>6, <1>8, <1>9 DEF out

-----------------------------------------------------------------------------
(* The steps, as each contract sees them.                                  *)

\* A step after which no other jobs are submitted than before.
NoneSubmitted ==
  /\ DOMAIN jobs \subseteq DOMAIN jobs'
  /\ \A j \in DOMAIN jobs' : jobs'[j].status = R!STATUS_SUBMITTED =>
       /\ j \in DOMAIN jobs
       /\ jobs[j].status = R!STATUS_SUBMITTED
       /\ jobs'[j].payload_hash = jobs[j].payload_hash

\* What is the pool's alone, and what it does to the registry.
PoolOnly ==
  /\ P!Next
  /\ UNCHANGED <<now, registry_vars>>
  /\ nullifiers \subseteq nullifiers'
  /\ sac' \in Balances /\ sac'[Registry] >= sac[Registry]

\* deposit, withdraw and the administration leave the registry its balance.
LEMMA PoolStep ==
  ASSUME Typed, PoolCall
  PROVE  PoolOnly
<1>1. /\ sac \in Balances /\ sac[Registry] \in Nat /\ UNCHANGED registry_vars
  BY AddressFacts DEF Typed, Balances, PoolCall
<1>2. CASE \E a \in Accounts, v \in Amounts, c \in Commitments :
             P!deposit(a, v, c, dep_count)
  <2>1. PICK a \in Accounts, v \in Amounts, c \in Commitments :
          P!deposit(a, v, c, dep_count)
    BY <1>2
  <2>2. v \in Nat /\ sac[a] >= v /\ sac' = transfer(sac, a, Pool, v)
    <3>1. v \in Nat
      BY <2>1, RelayedAmountsAssumption, SMTT(30) DEF P!deposit
    <3> QED BY <2>1, <3>1 DEF P!deposit, P!transfer, transfer
  <2>3. sac' \in Balances /\ sac'[Registry] >= sac[Registry]
    BY <1>1, <2>2, Transfers, AddressFacts
  <2>4. now' = now /\ nullifiers' = nullifiers
    BY <2>1 DEF P!deposit
  <2>5. P!Next
    BY <2>1 DEF P!Next, P!UserCall
  <2> QED BY <1>1, <2>3, <2>4, <2>5 DEF PoolOnly
<1>3. CASE \E w \in Payloads : P!withdraw(w)
  <2>1. PICK w \in Payloads : P!withdraw(w)
    BY <1>3
  <2>2. P!withdraw_call(w) /\ sac' = P!PaidOut(w)
    BY <2>1 DEF P!withdraw
  <2>3. sac' \in Balances /\ sac'[Registry] >= sac[Registry]
    BY <1>1, <2>2, PayOuts
  <2>4. now' = now /\ nullifiers \subseteq nullifiers'
    BY <2>2 DEF P!withdraw_call
  <2>5. P!Next
    BY <2>1, RelayedAmountsAssumption DEF P!Next, P!UserCall
  <2> QED BY <1>1, <2>3, <2>4, <2>5 DEF PoolOnly
<1>4. CASE \/ \E kind \in P!Kinds, root \in Roots : P!publish_root(kind, Deployer, root)
           \/ P!request_pause_withdrawals(Deployer)
           \/ P!unpause_withdrawals(Deployer)
  <2>1. UNCHANGED <<now, P!custody>>
    BY <1>4 DEF P!publish_root, P!request_pause_withdrawals, P!unpause_withdrawals
  <2>2. sac' = sac /\ nullifiers' = nullifiers /\ now' = now /\ sac[Registry] >= sac[Registry]
    BY <1>1, <2>1, SMTT(30) DEF P!custody
  <2>3. P!Next
    BY <1>4, RelayedAddressAssumption DEF P!Next, P!AdminCall
  <2> QED BY <1>1, <2>2, <2>3 DEF PoolOnly
<1> QED BY <1>2, <1>3, <1>4 DEF PoolCall

\* A step of the registry alone, and what it does to the pool.
RegistryOnly ==
  /\ R!Next
  /\ UNCHANGED <<now, pool_vars>>
  /\ NoneSubmitted
  /\ sac' \in Balances /\ sac'[Pool] >= sac[Pool]

\* A payment of the registry to an account, or by one, leaves the pool its own.
LEMMA RegistryPays ==
  ASSUME sac \in Balances, NEW a \in Accounts, NEW v \in Nat,
         R!Paid(sac, a, v) \/ R!Collected(a, v)
  PROVE  sac' \in Balances /\ sac'[Pool] >= sac[Pool]
<1>1. CASE R!Paid(sac, a, v)
  <2>1. sac[Registry] >= v /\ sac' = transfer(sac, Registry, a, v)
    BY <1>1 DEF R!Paid, R!transfer, transfer
  <2> QED BY <2>1, Transfers, AddressFacts
<1>2. CASE R!Collected(a, v)
  <2>1. sac[a] >= v /\ sac' = transfer(sac, a, Registry, v)
    BY <1>2 DEF R!Collected, R!transfer, transfer
  <2> QED BY <2>1, Transfers, AddressFacts
<1> QED BY <1>1, <1>2

\* register and the calls on jobs other than a submission take nothing from the
\* pool, and none of them makes a job a submitted one.
LEMMA RegistryStep ==
  ASSUME Typed, RegistryCall
  PROVE  RegistryOnly
<1>1. /\ sac \in Balances /\ sac[Pool] \in Nat /\ UNCHANGED pool_vars
      /\ minimum_stake \in Nat /\ sac[Pool] >= sac[Pool]
      /\ Operators \subseteq Accounts /\ Users \subseteq Accounts
  <2>1. /\ sac \in Balances /\ sac[Pool] \in Nat /\ UNCHANGED pool_vars
        /\ minimum_stake \in Nat
        /\ Operators \subseteq Accounts /\ Users \subseteq Accounts
    BY AddressFacts, RelayedAddressAssumption DEF Typed, Balances, RegistryCall
  <2> QED BY <2>1, SMTT(30)
<1>2. \A j \in DOMAIN jobs :
        jobs[j] \in R!JobRecord /\ jobs[j].fee \in Nat /\ jobs[j].fee * 2 \in Nat
  BY SMTT(30) DEF Typed, R!JobRecord
<1> USE DEF R!STATUS_OPEN, R!STATUS_ACCEPTED, R!STATUS_SUBMITTED,
            R!STATUS_SLASHED, R!STATUS_CANCELED
<1>3. CASE \E a \in Operators, s \in Amounts : R!register(a, s)
  <2>1. PICK a \in Operators, s \in Amounts : R!register(a, s)
    BY <1>3
  <2>2. s \in Nat /\ R!Collected(a, s)
    BY <1>1, <2>1, RelayedAmountsAssumption, SMTT(30) DEF R!register
  <2>3. NoneSubmitted /\ now' = now
    BY <2>1 DEF R!register, NoneSubmitted
  <2>4. R!Next
    BY <1>1, <2>1 DEF R!Next, R!StakeCall
  <2> QED BY <1>1, <2>2, <2>3, <2>4, RegistryPays DEF RegistryOnly
<1>4. CASE \E a \in Operators, j \in JobIds : R!accept_job(a, j)
  <2>1. PICK a \in Operators, j \in JobIds : R!accept_job(a, j)
    BY <1>4
  <2>2. NoneSubmitted
    BY <1>2, <2>1, SMTT(30) DEF R!accept_job, R!JobRecord, NoneSubmitted
  <2>3. sac' = sac /\ now' = now
    BY <2>1 DEF R!accept_job
  <2>4. R!Next
    BY <1>1, <2>1 DEF R!Next, R!JobCall
  <2> QED BY <1>1, <2>2, <2>3, <2>4 DEF RegistryOnly
<1>5. CASE \E a \in Users, j \in JobIds, w \in Payloads,
              d \in 1 .. (MaxLedger - 1), fee \in Amounts : R!create_job(a, j, w, d, fee)
  <2>1. PICK a \in Users, j \in JobIds, w \in Payloads,
             d \in 1 .. (MaxLedger - 1), fee \in Amounts : R!create_job(a, j, w, d, fee)
    BY <1>5
  <2>2. fee \in Nat /\ R!Collected(a, fee)
    BY <2>1, RelayedAmountsAssumption, SMTT(30) DEF R!create_job
  <2>3. NoneSubmitted /\ now' = now
    BY <2>1, SMTT(30) DEF R!create_job, R!put, NoneSubmitted
  <2>4. R!Next
    BY <1>1, <2>1 DEF R!Next, R!JobCall
  <2> QED BY <1>1, <2>2, <2>3, <2>4, RegistryPays DEF RegistryOnly
<1>6. CASE \E a \in Users, j \in JobIds : R!slash_job(a, j) \/ R!cancel_job(a, j)
  <2>1. PICK a \in Users, j \in JobIds : R!slash_job(a, j) \/ R!cancel_job(a, j)
    BY <1>6
  <2>2. /\ j \in DOMAIN jobs /\ now' = now
        /\ R!Paid(sac, a, jobs[j].fee * 2) \/ R!Paid(sac, a, jobs[j].fee)
    BY <2>1 DEF R!slash_job, R!cancel_job
  <2>3. sac' \in Balances /\ sac'[Pool] >= sac[Pool]
    BY <1>1, <1>2, <2>2, RegistryPays
  <2>4. NoneSubmitted
    BY <1>2, <2>1, SMTT(30) DEF R!slash_job, R!cancel_job, R!JobRecord, NoneSubmitted
  <2>5. R!Next
    BY <1>1, <2>1 DEF R!Next, R!JobCall
  <2> QED BY <1>1, <2>2, <2>3, <2>4, <2>5 DEF RegistryOnly
<1> QED BY <1>3, <1>4, <1>5, <1>6 DEF RegistryCall

\* What a submission is to the two contracts: the pool makes a withdrawal, and
\* the registry pays the fee of a job out of the balances that leaves.
Relays(a, j, w) ==
  /\ P!withdraw_call(w)
  /\ R!submit_pool_withdraw(a, j, w, P!PaidOut(w))
  /\ P!PaidOut(w) \in Balances /\ P!PaidOut(w)[Registry] >= sac[Registry]
  /\ j \in DOMAIN jobs /\ jobs[j].payload_hash = w
  /\ DOMAIN jobs' = DOMAIN jobs
  /\ \A i \in DOMAIN jobs : i # j => jobs'[i] = jobs[i]
  /\ jobs'[j].payload_hash = w
  /\ w.nullifier_hash \notin nullifiers
  /\ nullifiers' = nullifiers \cup {w.nullifier_hash}
  /\ sac' \in Balances
  /\ sac'[Pool] = P!PaidOut(w)[Pool]
  /\ sac'[Registry] = P!PaidOut(w)[Registry] - jobs[j].fee

\* submit_pool_withdraw does so: its fee is not taken from the pool.
LEMMA SubmitStep ==
  ASSUME Typed, NEW a \in Operators, NEW j \in JobIds, NEW w \in Payloads,
         submit_pool_withdraw(a, j, w)
  PROVE  Relays(a, j, w)
<1> DEFINE out == P!PaidOut(w)
           fee == jobs[j].fee
<1>1. P!withdraw_call(w) /\ R!submit_pool_withdraw(a, j, w, out)
  BY DEF submit_pool_withdraw
<1>2. out \in Balances /\ out[Registry] >= sac[Registry]
  BY <1>1, PayOuts DEF Typed
<1>3. w.nullifier_hash \notin nullifiers /\ nullifiers' = nullifiers \cup {w.nullifier_hash}
  BY <1>1 DEF P!withdraw_call, P!is_unspent
<1> HIDE DEF out
<1>4. /\ j \in DOMAIN jobs /\ jobs[j].payload_hash = w
      /\ jobs' = [jobs EXCEPT ![j].status = R!STATUS_SUBMITTED]
      /\ R!Paid(out, a, fee)
  BY <1>1 DEF R!submit_pool_withdraw
<1>5. jobs[j] \in R!JobRecord /\ fee \in Nat
  BY <1>4 DEF Typed, R!JobRecord
<1> HIDE DEF fee
<1>6. /\ DOMAIN jobs' = DOMAIN jobs
      /\ \A i \in DOMAIN jobs : i # j => jobs'[i] = jobs[i]
      /\ jobs'[j].payload_hash = w
  BY <1>4, <1>5 DEF R!JobRecord
<1>7. a \in Addresses /\ a # Registry /\ a # Pool
  BY AddressFacts, RelayedAddressAssumption
<1>8. out[Registry] >= fee /\ sac' = transfer(out, Registry, a, fee)
  BY <1>4 DEF R!Paid, R!transfer, transfer
<1>9. /\ sac' \in Balances /\ sac'[Pool] = out[Pool]
      /\ sac'[Registry] = out[Registry] - fee
  BY <1>2, <1>5, <1>7, <1>8, Transfers, AddressFacts, SMTT(30)
<1> QED BY <1>1, <1>2, <1>3, <1>4, <1>6, <1>9 DEF Relays, out, fee

\* A ledger closes for both contracts.
BothClose == P!CloseLedger /\ R!CloseLedger

\* Every step is one of the pool's, one of the registry's, a submission or the
\* close of a ledger.
LEMMA Steps ==
  ASSUME Typed, [Next]_vars
  PROVE  \/ PoolOnly \/ RegistryOnly \/ BothClose \/ UNCHANGED vars
         \/ \E a \in Operators, j \in JobIds, w \in Payloads : Relays(a, j, w)
BY PoolStep, RegistryStep, SubmitStep DEF Next, CloseLedger, BothClose

\* Only a submission makes a job a submitted one, and no step forgets a note.
LEMMA OthersSubmitNone ==
  ASSUME PoolOnly \/ RegistryOnly \/ BothClose \/ UNCHANGED vars
  PROVE  NoneSubmitted /\ nullifiers \subseteq nullifiers'
<1>1. CASE PoolOnly
  BY <1>1 DEF PoolOnly, registry_vars, NoneSubmitted
<1>2. CASE RegistryOnly
  BY <1>2 DEF RegistryOnly, pool_vars
<1>3. CASE BothClose \/ UNCHANGED vars
  BY <1>3 DEF BothClose, P!CloseLedger, P!custody, R!CloseLedger, NoneSubmitted,
     vars, pool_vars, registry_vars
<1> QED BY <1>1, <1>2, <1>3

-----------------------------------------------------------------------------
(* Notes and fees.                                                         *)

\* The note of every submitted job is spent in the pool.
SubmittedIsSpent ==
  \A j \in DOMAIN jobs :
    jobs[j].status = R!STATUS_SUBMITTED => jobs[j].payload_hash.nullifier_hash \in nullifiers

NotesInv == SubmittedIsSpent /\ OneFeePerNote

\* The note of a job that is submitted now was not spent, so it is the note of
\* no job submitted before.
LEMMA NotesNext ==
  ASSUME Typed, NotesInv, [Next]_vars
  PROVE  NotesInv'
<1>1. CASE NoneSubmitted /\ nullifiers \subseteq nullifiers'
  BY <1>1 DEF NotesInv, SubmittedIsSpent, OneFeePerNote, NoneSubmitted,
     R!STATUS_SUBMITTED
<1>2. ASSUME NEW a \in Operators, NEW j \in JobIds, NEW w \in Payloads, Relays(a, j, w)
      PROVE  NotesInv'
  <2>1. SubmittedIsSpent'
    BY <1>2 DEF Relays, NotesInv, SubmittedIsSpent, R!STATUS_SUBMITTED
  <2>2. \A i \in DOMAIN jobs : i # j /\ jobs[i].status = R!STATUS_SUBMITTED
          => jobs[i].payload_hash.nullifier_hash # w.nullifier_hash
    BY <1>2 DEF Relays, NotesInv, SubmittedIsSpent
  <2>3. OneFeePerNote'
    BY <1>2, <2>2 DEF Relays, NotesInv, OneFeePerNote, R!STATUS_SUBMITTED
  <2> QED BY <2>1, <2>3 DEF NotesInv
<1> QED BY <1>1, <1>2, Steps, OthersSubmitNone

\* A job that a step makes a submitted one: its withdrawal is made in the step.
Withdrawn(j) ==
  jobs[j].status # R!STATUS_SUBMITTED /\ jobs'[j].status = R!STATUS_SUBMITTED =>
    LET w == jobs[j].payload_hash
    IN  /\ w.nullifier_hash \in nullifiers' \ nullifiers
        /\ {w.recipient, w.relayer} \subseteq Accounts =>
             /\ sac'[Pool] = sac[Pool] - w.value
             /\ sac'[Registry] = sac[Registry] - jobs[j].fee

\* submit_pool_withdraw spends the note and pays value and fee in one step.
LEMMA SubmittedNext ==
  ASSUME Typed, [Next]_vars, NEW j \in DOMAIN jobs
  PROVE  Withdrawn(j)
<1>1. CASE NoneSubmitted
  BY <1>1 DEF NoneSubmitted, Withdrawn
<1>2. ASSUME NEW a \in Operators, NEW k \in JobIds, NEW w \in Payloads, Relays(a, k, w)
      PROVE  Withdrawn(j)
  <2>1. CASE j # k
    BY <1>2, <2>1 DEF Relays, Withdrawn
  <2>2. CASE j = k
    <3>1. {w.recipient, w.relayer} \subseteq Accounts =>
            /\ P!PaidOut(w)[Pool] = sac[Pool] - w.value
            /\ P!PaidOut(w)[Registry] = sac[Registry]
      BY <1>2, PayOuts DEF Relays, Typed
    <3> QED BY <1>2, <2>2, <3>1 DEF Relays, Withdrawn
  <2> QED BY <2>1, <2>2
<1> QED BY <1>1, <1>2, Steps, OthersSubmitNone

-----------------------------------------------------------------------------
(* The pool's books: what PrivacyPoolProofs proves, on the shared ledger.  *)

PP == INSTANCE PrivacyPoolProofs
        WITH Accounts <- Accounts \cup {Registry}, admin <- pool_admin,
             Expiries <- {}, MAX_MINIMUM <- 0

\* The pool's assumptions on its constants hold.
LEMMA PoolAssumptions ==
  /\ PP!PoolAddressAssumption
  /\ PP!PoolAmountsAssumption
  /\ PP!PoolLedgerAssumption
  /\ PP!PoolSizeAssumption
<1>1. PP!PoolAddressAssumption
  BY RelayedAddressAssumption DEF PP!PoolAddressAssumption
<1>2. PP!PoolAmountsAssumption
  BY RelayedAmountsAssumption DEF PP!PoolAmountsAssumption
<1>3. PP!PoolLedgerAssumption
  BY RelayedLedgerAssumption DEF PP!PoolLedgerAssumption
<1>4. PP!PoolSizeAssumption
  BY RelayedLedgerAssumption, SMTT(30) DEF PP!PoolSizeAssumption
<1> QED BY <1>1, <1>2, <1>3, <1>4

\* The holders of XLM are those the pool knows.
LEMMA PoolBalances ==
  /\ [PP!Holders -> Nat] = Balances
  /\ Payloads \subseteq PP!Withdrawals
<1>1. PP!Holders = Addresses
  BY DEF PP!Holders, Addresses
<1> QED BY <1>1, RelayedAmountsAssumption
    DEF Balances, P!Withdrawals, PP!Withdrawals, P!Holders, PP!Holders

\* P and PP are the same pool: its calls are the calls of PrivacyPoolProofs.
LEMMA SamePool ==
  /\ P!Next => PP!Next
  /\ P!CloseLedger => PP!CloseLedger
  /\ P!InitStorage => PP!InitStorage
  /\ PP!Custody => P!Custody
  /\ \A w : P!PaidOut(w) = PP!PaidOut(w) /\ (P!withdraw_call(w) => PP!withdraw_call(w))
<1> USE DEF P!config, PP!config, P!tree, PP!tree, P!custody, PP!custody,
   P!publication, PP!publication, P!pauses, PP!pauses, P!transfer, PP!transfer,
   P!InsertLeaf, PP!InsertLeaf, P!Kinds, PP!Kinds, P!StateKind, PP!StateKind,
   P!AspKind, PP!AspKind, P!NO_PAUSE_REQUEST, PP!NO_PAUSE_REQUEST, P!UNPUBLISHED,
   PP!UNPUBLISHED
<1>1. P!get_capacity_alert_level(cap_count + 1)
        = PP!get_capacity_alert_level(cap_count + 1)
  <2>1. /\ P!FULL_BPS = PP!FULL_BPS
        /\ P!CAPACITY_WARNING_THRESHOLD_BPS = PP!CAPACITY_WARNING_THRESHOLD_BPS
        /\ P!CAPACITY_CRITICAL_THRESHOLD_BPS = PP!CAPACITY_CRITICAL_THRESHOLD_BPS
    BY SMTT(30) DEF P!FULL_BPS, PP!FULL_BPS, P!CAPACITY_WARNING_THRESHOLD_BPS,
       PP!CAPACITY_WARNING_THRESHOLD_BPS, P!CAPACITY_CRITICAL_THRESHOLD_BPS,
       PP!CAPACITY_CRITICAL_THRESHOLD_BPS
  <2> QED BY <2>1 DEF P!get_capacity_alert_level, PP!get_capacity_alert_level,
     P!get_capacity_percentage_bps, PP!get_capacity_percentage_bps
<1>2. ASSUME NEW a, NEW v, NEW c, NEW i, P!deposit(a, v, c, i)
      PROVE  PP!deposit(a, v, c, i)
  <2>1. P!increment_commitment_count => PP!increment_commitment_count
    BY <1>1 DEF P!increment_commitment_count, PP!increment_commitment_count,
       P!check_and_emit_capacity_alert, PP!check_and_emit_capacity_alert
  <2> QED BY <1>2, <2>1 DEF P!deposit, PP!deposit, P!is_tree_at_capacity,
     PP!is_tree_at_capacity
<1>3. \A w : P!PaidRecipient(w) = PP!PaidRecipient(w) /\ P!PaidOut(w) = PP!PaidOut(w)
  BY DEF P!PaidRecipient, PP!PaidRecipient, P!PaidOut, PP!PaidOut
<1>4. \A w : P!withdraw_call(w) => PP!withdraw_call(w)
  BY <1>3 DEF P!withdraw_call, PP!withdraw_call, P!withdrawals_pause_active,
     PP!withdrawals_pause_active, P!SaturatingSub, PP!SaturatingSub,
     P!require_fresh_root, PP!require_fresh_root, P!is_unspent, PP!is_unspent,
     P!within_custody, PP!within_custody, P!Covered, PP!Covered
<1>5. \A a : P!AdminCall(a) => PP!AdminCall(a)
  BY DEF P!AdminCall, PP!AdminCall, P!publish_root, PP!publish_root, P!record_root,
     PP!record_root, P!kept_history, PP!kept_history, P!set_root_expiry,
     PP!set_root_expiry, P!transfer_admin, PP!transfer_admin, P!pause_deposits,
     PP!pause_deposits, P!unpause_deposits, PP!unpause_deposits,
     P!request_pause_withdrawals, PP!request_pause_withdrawals, P!unpause_withdrawals,
     PP!unpause_withdrawals, P!set_withdrawal_minimum, PP!set_withdrawal_minimum
<1>6. P!UserCall => PP!UserCall
  BY <1>2, <1>3, <1>4 DEF P!UserCall, PP!UserCall, P!withdraw, PP!withdraw,
     P!Withdrawals, PP!Withdrawals, P!Holders, PP!Holders
<1>7. P!CloseLedger => PP!CloseLedger
  BY DEF P!CloseLedger, PP!CloseLedger
<1>8. P!Next => PP!Next
  BY <1>5, <1>6, <1>7 DEF P!Next, PP!Next
<1>9. (P!InitStorage => PP!InitStorage) /\ (PP!Custody => P!Custody)
  BY DEF P!InitStorage, PP!InitStorage, P!Custody, PP!Custody
<1> QED BY <1>3, <1>4, <1>7, <1>8, <1>9

\* Every step of the composition keeps the invariant of the pool's funds.
LEMMA PoolNext ==
  ASSUME Typed, PP!FundsInv, [Next]_vars
  PROVE  PP!FundsInv'
<1>1. CASE PoolOnly \/ BothClose \/ UNCHANGED vars
  <2>1. [PP!Next]_(PP!vars)
    BY <1>1, SamePool DEF PoolOnly, BothClose, PP!Next, vars, pool_vars,
       PP!vars, PP!config, PP!tree, PP!custody, PP!publication, PP!pauses
  <2> QED BY <2>1, PoolAssumptions, PP!NextFunds
<1>2. CASE RegistryOnly
  BY <1>2, PoolAssumptions, PoolBalances, PP!OtherContractFunds
  DEF RegistryOnly, pool_vars, PP!config, PP!tree, PP!publication, PP!pauses
<1>3. ASSUME NEW a \in Operators, NEW j \in JobIds, NEW w \in Payloads, Relays(a, j, w)
      PROVE  PP!FundsInv'
  <2>1. /\ w \in PP!Withdrawals /\ PP!withdraw_call(w)
        /\ sac' \in [PP!Holders -> Nat] /\ sac'[Pool] = PP!PaidOut(w)[Pool]
        /\ sac'[Pool] \in Nat
    BY <1>3, SamePool, PoolBalances, AddressFacts DEF Relays, Balances
  <2>2. sac'[Pool] >= PP!PaidOut(w)[Pool]
    BY <2>1, SMTT(30)
  <2> QED BY <2>1, <2>2, PoolAssumptions, PP!WithdrawFunds
<1> QED BY <1>1, <1>2, <1>3, Steps

-----------------------------------------------------------------------------
(* The registry's books: what RelayerRegistryProofs proves, on the shared *)
(* ledger.                                                                 *)

RB == INSTANCE RelayerRegistryProofs
        WITH Accounts <- Accounts \cup {Pool}, SlashAmounts <- {}, MaxSlashed <- 0,
             PoolCredits <- {}, Cooldowns <- {UnstakeCooldown},
             DeadlineSpans <- {MaxDeadline}

\* The registry's assumptions on its constants hold: one address more leaves the
\* set of the accounts finite.
LEMMA RegistryAssumptions ==
  /\ RB!RegistryAddressAssumption
  /\ RB!RegistryFiniteAssumption
  /\ RB!RegistryAmountsAssumption
  /\ RB!RegistryLedgerAssumption
<1>1. RB!RegistryAddressAssumption
  BY RelayedAddressAssumption DEF RB!RegistryAddressAssumption
<1>2. RB!RegistryFiniteAssumption
  BY RegistryConstants, RelayedAddressAssumption
  DEF RB!RegistryFiniteAssumption, IsFiniteSet, RB!IsFiniteSet
<1>3. RB!RegistryAmountsAssumption
  BY RegistryConstants DEF R!RegistryAmountsAssumption, RB!RegistryAmountsAssumption
<1>4. RB!RegistryLedgerAssumption
  BY RelayedLedgerAssumption DEF RB!RegistryLedgerAssumption
<1> QED BY <1>1, <1>2, <1>3, <1>4

\* R and RB are the same registry: its calls are the calls of
\* RelayerRegistryProofs.
LEMMA SameRegistry ==
  /\ [RB!Holders -> Nat] = Balances
  /\ R!Next => RB!Next
  /\ R!CloseLedger => RB!CloseLedger
  /\ R!InitStorage => RB!InitStorage
  /\ RB!Solvent /\ RB!BondedIsAcceptedFees => R!Solvent /\ R!BondedIsAcceptedFees
  /\ \A a, j, w, after :
       R!submit_pool_withdraw(a, j, w, after) => RB!submit_pool_withdraw(a, j, w, after)
  /\ R!JobRecord = RB!JobRecord
<1> USE DEF R!config, RB!config, R!transfer, RB!transfer, R!Paid, RB!Paid,
   R!Collected, RB!Collected, R!put, RB!put, R!STATUS_OPEN, RB!STATUS_OPEN,
   R!STATUS_ACCEPTED, RB!STATUS_ACCEPTED, R!STATUS_SUBMITTED, RB!STATUS_SUBMITTED,
   R!STATUS_SLASHED, RB!STATUS_SLASHED, R!STATUS_CANCELED, RB!STATUS_CANCELED,
   R!NoRelayer, RB!NoRelayer, R!Holders, RB!Holders
<1>1. [RB!Holders -> Nat] = Balances /\ R!JobRecord = RB!JobRecord
  <2>1. RB!Holders = Addresses
    BY DEF Addresses
  <2> QED BY <2>1 DEF Balances, R!JobRecord, RB!JobRecord
<1>2. \A a : R!StakeCall(a) => RB!StakeCall(a)
  BY DEF R!StakeCall, RB!StakeCall, R!register, RB!register, R!add_stake,
     RB!add_stake, R!request_unstake, RB!request_unstake, R!withdraw_stake,
     RB!withdraw_stake
<1>3. \A a : R!AdminCall(a) => RB!AdminCall(a)
  BY DEF R!AdminCall, RB!AdminCall, R!set_config, RB!set_config, R!transfer_admin,
     RB!transfer_admin
<1>4. ASSUME NEW a, NEW j, NEW w, NEW after, R!submit_pool_withdraw(a, j, w, after)
      PROVE  RB!submit_pool_withdraw(a, j, w, after)
  BY <1>4 DEF R!submit_pool_withdraw, RB!submit_pool_withdraw
<1>5. ASSUME NEW a, NEW j, R!JobCall(a, j) PROVE RB!JobCall(a, j)
  <2>1. ASSUME NEW w, NEW d, NEW fee, R!create_job(a, j, w, d, fee)
        PROVE  RB!create_job(a, j, w, d, fee)
    BY <2>1 DEF R!create_job, RB!create_job
  <2>2. /\ R!accept_job(a, j) => RB!accept_job(a, j)
        /\ R!cancel_job(a, j) => RB!cancel_job(a, j)
    BY DEF R!accept_job, RB!accept_job, R!cancel_job, RB!cancel_job
  <2>3. R!slash_job(a, j) => RB!slash_job(a, j)
    BY DEF R!slash_job, RB!slash_job, R!missed, RB!missed, R!slashed_relayer,
       RB!slashed_relayer, R!Lesser, RB!Lesser
  <2> QED BY <1>5, <2>1, <2>2, <2>3, RegistryConstants DEF R!JobCall, RB!JobCall
<1>6. R!CloseLedger => RB!CloseLedger
  BY DEF R!CloseLedger, RB!CloseLedger
<1>7. R!Next => RB!Next
  BY <1>2, <1>3, <1>5, <1>6 DEF R!Next, RB!Next
<1>8. R!InitStorage => RB!InitStorage
  BY DEF R!InitStorage, RB!InitStorage
<1>9. RB!Solvent /\ RB!BondedIsAcceptedFees => R!Solvent /\ R!BondedIsAcceptedFees
  BY DEF R!Solvent, RB!Solvent, R!Owed, RB!Owed, R!StakeOf, RB!StakeOf, R!SumFees,
     RB!SumFees, R!Settled, RB!Settled, R!BondedIsAcceptedFees,
     RB!BondedIsAcceptedFees, R!AcceptedBy, RB!AcceptedBy, R!SumFunction,
     RB!SumFunction, R!SumFunctionOnSet, RB!SumFunctionOnSet, R!FoldFunctionOnSet,
     RB!FoldFunctionOnSet, R!MapThenFoldSet, RB!MapThenFoldSet
<1> QED BY <1>1, <1>4, <1>6, <1>7, <1>8, <1>9

\* Every step of the composition keeps the invariant of the registry's books.
LEMMA RegistryNext ==
  ASSUME Typed, RB!BooksInv, [Next]_vars
  PROVE  RB!BooksInv'
<1>1. CASE RegistryOnly \/ BothClose \/ UNCHANGED vars
  <2>1. [RB!Next]_(RB!vars)
    BY <1>1, SameRegistry DEF RegistryOnly, BothClose, RB!Next, vars,
       registry_vars, RB!vars, RB!config
  <2> QED BY <2>1, RegistryAssumptions, RB!NextBooks
<1>2. CASE PoolOnly
  BY <1>2, RegistryAssumptions, SameRegistry, RB!OtherContractBooks
  DEF PoolOnly, registry_vars, RB!config
<1>3. ASSUME NEW a \in Operators, NEW j \in JobIds, NEW w \in Payloads, Relays(a, j, w)
      PROVE  RB!BooksInv'
  <2> DEFINE out == P!PaidOut(w)
  <2>1. /\ RB!submit_pool_withdraw(a, j, w, out) /\ out \in [RB!Holders -> Nat]
        /\ out[Registry] >= sac[Registry] /\ a \in Accounts \cup {Pool}
    BY <1>3, SameRegistry, RelayedAddressAssumption DEF Relays
  <2> HIDE DEF out
  <2>2. RB!RegistryInv'
    BY <2>1, RegistryAssumptions, RB!SubmitInv DEF RB!BooksInv
  <2>3. RB!Solvent' /\ RB!BondedIsAcceptedFees'
    BY <2>1, RegistryAssumptions, RB!SubmitBooks
  <2> QED BY <2>2, <2>3 DEF RB!BooksInv
<1> QED BY <1>1, <1>2, <1>3, Steps

-----------------------------------------------------------------------------
(* The invariant and the theorems.                                         *)

RelayedInv == PP!FundsInv /\ RB!BooksInv /\ NotesInv

\* The balances and storage of both contracts are well typed.
LEMMA RelayedTyped == RelayedInv => Typed
BY PoolBalances, SameRegistry
DEF RelayedInv, Typed, PP!FundsInv, PP!TypeOK, RB!BooksInv, RB!RegistryInv, RB!TypeOK

\* Every step keeps the books of both contracts and the notes.
LEMMA RelayedNext == RelayedInv /\ [Next]_vars => RelayedInv'
BY RelayedTyped, PoolNext, RegistryNext, NotesNext DEF RelayedInv

\* Two freshly initialized contracts owe nothing and there are no jobs.
LEMMA RelayedInit == Init => RelayedInv
<1> SUFFICES ASSUME Init PROVE RelayedInv
  OBVIOUS
<1>1. sac \in Balances
  BY InitBalances
<1>2. PP!FundsInv
  BY <1>1, PoolBalances, SamePool, PoolAssumptions, PP!InitStorageFunds DEF Init
<1>3. RB!BooksInv
  BY <1>1, SameRegistry, RegistryAssumptions, RB!InitBooks DEF Init
<1>4. NotesInv
  BY DEF Init, R!InitStorage, NotesInv, SubmittedIsSpent, OneFeePerNote
<1> QED BY <1>2, <1>3, <1>4 DEF RelayedInv

\* The pool and the registry stay solvent side by side on one ledger: neither
\* contract's calls, nor a submission that moves the funds of both, takes what
\* the other one owes, and the bonds stay the fees of the accepted jobs.
THEOREM BothSolventHolds == Spec => []BothSolvent
<1>1. RelayedInv => BothSolvent
  BY SamePool, SameRegistry DEF RelayedInv, PP!FundsInv, RB!BooksInv, BothSolvent
<1> QED BY <1>1, RelayedInit, RelayedNext, PTL DEF Spec

\* No two jobs are paid for the same note, whoever created them: the note of a
\* submitted job is spent, and the pool refuses the second withdrawal.
THEOREM OneFeeHolds == Spec => []OneFeePerNote
<1>1. RelayedInv => OneFeePerNote
  BY DEF RelayedInv, NotesInv
<1> QED BY <1>1, RelayedInit, RelayedNext, PTL DEF Spec

\* A job becomes a submitted one only in the step in which the pool makes the
\* withdrawal it asked for: submit_pool_withdraw pays the fee after the pool call
\* of the same transaction, and no other call marks a job submitted.
THEOREM SubmittedHolds == Spec => SubmittedMeansWithdrawn
<1>1. RelayedInv /\ [Next]_vars => [\A j \in DOMAIN jobs : Withdrawn(j)]_vars
  BY RelayedTyped, SubmittedNext
<1> QED BY <1>1, RelayedInit, RelayedNext, PTL DEF Spec, SubmittedMeansWithdrawn,
   Withdrawn
==============================================================================
