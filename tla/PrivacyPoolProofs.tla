-------------------------- MODULE PrivacyPoolProofs --------------------------
(***************************************************************************)
(* Proofs about PrivacyPool, for all sets of accounts, commitments,        *)
(* nullifiers and roots, all amounts and bounds, and every verifier.       *)
(***************************************************************************)
EXTENDS PrivacyPool, TLAPS

USE ZenonT(20)

-----------------------------------------------------------------------------
(* The payouts and the leaf insertion.                                     *)

\* A covered transfer between holders leaves every balance a natural number.
LEMMA TransferType ==
  ASSUME NEW S, NEW bal \in [S -> Nat], NEW from \in S, NEW to \in S,
         NEW amount \in Nat, bal[from] >= amount
  PROVE  transfer(bal, from, to, amount) \in [S -> Nat]
BY SMTT(30) DEF transfer

\* A transfer takes at most its amount from any holder, and gives it to a
\* receiver that is not the sender.
LEMMA TransferBalance ==
  ASSUME NEW S, NEW bal \in [S -> Nat], NEW from \in S, NEW to \in S,
         NEW amount \in Nat, bal[from] >= amount, NEW h \in S
  PROVE  /\ transfer(bal, from, to, amount)[h] >= bal[h] - amount
         /\ h # from => transfer(bal, from, to, amount)[h] >= bal[h]
         /\ from # to => transfer(bal, from, to, amount)[to] = bal[to] + amount
BY SMTT(30) DEF transfer

\* The two payouts of a withdrawal keep the balances natural numbers, take at
\* most the withdrawn value from the pool and nothing from anyone else.
LEMMA PayOutBalance ==
  ASSUME sac \in [Holders -> Nat], NEW w \in Withdrawals,
         w.value \in Nat, w.fee \in Nat, w.fee <= w.value, Covered(w)
  PROVE  /\ PaidOut(w) \in [Holders -> Nat]
         /\ PaidOut(w)[Pool] >= sac[Pool] - w.value
         /\ \A h \in Holders : h # Pool => PaidOut(w)[h] >= sac[h]
<1> DEFINE payout == w.value - w.fee
           paid == PaidRecipient(w)
           out == PaidOut(w)
<1>1. /\ Pool \in Holders /\ w.recipient \in Holders /\ w.relayer \in Holders
      /\ payout \in Nat /\ sac[Pool] >= payout /\ paid[Pool] >= w.fee
      /\ out = transfer(paid, Pool, w.relayer, w.fee)
  BY SMTT(30) DEF Withdrawals, Holders, Covered, PaidOut
<1>2. /\ paid \in [Holders -> Nat] /\ paid[Pool] >= sac[Pool] - payout
      /\ \A h \in Holders : h # Pool => paid[h] >= sac[h]
  BY <1>1, TransferType, TransferBalance DEF PaidRecipient
<1> HIDE DEF paid, out
<1>3. out \in [Holders -> Nat]
  BY <1>1, <1>2, TransferType, SMTT(30)
<1>4. /\ out[Pool] >= paid[Pool] - w.fee
      /\ \A h \in Holders : h # Pool => out[h] >= paid[h]
  BY <1>1, <1>2, TransferBalance
<1>5. /\ out[Pool] \in Nat /\ paid[Pool] \in Nat /\ sac[Pool] \in Nat
      /\ \A h \in Holders : out[h] \in Nat /\ paid[h] \in Nat /\ sac[h] \in Nat
  BY <1>1, <1>2, <1>3
<1>6. out[Pool] >= sac[Pool] - w.value
  BY <1>2, <1>4, <1>5, SMTT(30)
<1>7. \A h \in Holders : h # Pool => out[h] >= sac[h]
  BY <1>2, <1>4, <1>5, SMTT(30)
<1> QED BY <1>3, <1>6, <1>7 DEF out

\* Leaf insertion keeps the types of the tree.
LEMMA InsertLeafType ==
  ASSUME TypeOK, NEW leaf \in Commitments, NEW event \in Events,
         InsertLeaf(leaf, event)
  PROVE  /\ dep_count' \in Nat
         /\ DOMAIN commit' \subseteq Commitments
         /\ commit' \in [DOMAIN commit' -> Nat]
         /\ events' \in Seq(Events)
<1>1. dep_count' \in Nat /\ events' \in Seq(Events)
  BY SMTT(30) DEF TypeOK, InsertLeaf
<1>2. DOMAIN commit' = DOMAIN commit \cup {leaf}
  BY DEF InsertLeaf
<1>3. \A c \in DOMAIN commit' : commit'[c] \in Nat
  BY <1>2 DEF InsertLeaf, TypeOK
<1>4. commit' = [c \in DOMAIN commit' |-> commit'[c]]
  BY <1>2 DEF InsertLeaf
<1> QED BY <1>1, <1>2, <1>3, <1>4 DEF TypeOK

-----------------------------------------------------------------------------
(* Type correctness.                                                       *)

\* The amounts of a withdrawal that passes the first checks are natural.
LEMMA WithdrawArguments ==
  ASSUME NEW w \in Withdrawals, withdraw_call(w)
  PROVE  /\ w.value \in Nat /\ w.fee \in Nat /\ w.fee <= w.value
         /\ w.new_commitment \in Commitments /\ w.nullifier_hash \in Nullifiers
<1>1. /\ w.value \in Amounts /\ w.fee \in Amounts
      /\ w.new_commitment \in Commitments /\ w.nullifier_hash \in Nullifiers
  BY DEF Withdrawals
<1>2. w.value > 0 /\ w.fee >= 0 /\ w.fee <= w.value
  BY DEF withdraw_call
<1>3. w.value \in Int /\ w.fee \in Int
  BY <1>1, PoolAmountsAssumption
<1> QED BY <1>1, <1>2, <1>3, SMTT(30)

\* deposit keeps the types; the capacity guard keeps cap_count in its range.
LEMMA DepositType ==
  ASSUME TypeOK, NEW a \in Accounts, NEW v \in Amounts, NEW c \in Commitments,
         deposit(a, v, c, dep_count)
  PROVE  TypeOK'
<1> DEFINE event == [topic |-> "Deposit", leaf |-> c, value |-> v, ledger |-> now]
<1>1. v \in Nat /\ a \in Holders /\ Pool \in Holders /\ sac[a] >= v
  BY PoolAmountsAssumption, SMTT(30) DEF deposit, Holders
<1>2. event \in Events
  BY <1>1, SMTT(30) DEF Events, TypeOK
<1>3. InsertLeaf(c, event)
  BY DEF deposit
<1>4. /\ dep_count' \in Nat
      /\ DOMAIN commit' \subseteq Commitments
      /\ commit' \in [DOMAIN commit' -> Nat]
      /\ events' \in Seq(Events)
  <2> HIDE DEF event
  <2> QED BY <1>2, <1>3, InsertLeafType
<1>5. sac' \in [Holders -> Nat]
  BY <1>1, TransferType DEF deposit, TypeOK
<1>6. cap_count' \in 0 .. MAX_COMMITMENTS
  BY PoolSizeAssumption, SMTT(30)
  DEF deposit, is_tree_at_capacity, increment_commitment_count, TypeOK
<1>7. last_alert' \in AlertLevels
  BY DEF deposit, increment_commitment_count, check_and_emit_capacity_alert,
         get_capacity_alert_level, TypeOK, AlertLevels
<1>8. tot_dep' \in Nat
  BY <1>1, SMTT(30) DEF deposit, TypeOK
<1> QED
  BY <1>4, <1>5, <1>6, <1>7, <1>8
  DEF deposit, TypeOK, config, publication, pauses

\* withdraw keeps the types.
LEMMA WithdrawType ==
  ASSUME TypeOK, NEW w \in Withdrawals, withdraw_call(w), sac' \in [Holders -> Nat]
  PROVE  TypeOK'
<1> DEFINE event == [topic |-> "Withdraw", leaf |-> w.new_commitment,
                     value |-> w.value, ledger |-> now,
                     nullifier_hash |-> w.nullifier_hash]
<1>1. /\ w.value \in Nat /\ w.fee \in Nat /\ w.fee <= w.value
      /\ w.new_commitment \in Commitments /\ w.nullifier_hash \in Nullifiers
  BY WithdrawArguments
<1>2. event \in Events
  BY <1>1, SMTT(30) DEF Events, TypeOK
<1>3. InsertLeaf(w.new_commitment, event)
  BY DEF withdraw_call
<1>4. /\ dep_count' \in Nat
      /\ DOMAIN commit' \subseteq Commitments
      /\ commit' \in [DOMAIN commit' -> Nat]
      /\ events' \in Seq(Events)
  <2> HIDE DEF event
  <2> QED BY <1>1, <1>2, <1>3, InsertLeafType
<1>5. tot_wd' \in Nat /\ nullifiers' \subseteq Nullifiers
  BY <1>1, SMTT(30) DEF withdraw_call, TypeOK
<1> QED
  BY <1>4, <1>5 DEF withdraw_call, TypeOK, config, publication, pauses

\* What the payouts of a withdrawal leave.
LEMMA WithdrawPays ==
  ASSUME sac \in [Holders -> Nat], NEW w \in Withdrawals, withdraw_call(w)
  PROVE  /\ PaidOut(w) \in [Holders -> Nat]
         /\ PaidOut(w)[Pool] >= sac[Pool] - w.value
         /\ \A h \in Holders : h # Pool => PaidOut(w)[h] >= sac[h]
<1>1. Covered(w)
  BY DEF withdraw_call
<1> QED BY <1>1, WithdrawArguments, PayOutBalance

\* A publication keeps the types.
LEMMA PublishType ==
  ASSUME TypeOK, NEW kind \in Kinds, NEW a \in Accounts, NEW root \in Roots,
         publish_root(kind, a, root)
  PROVE  TypeOK'
<1>1. root_entry' \in [Kinds -> [Roots -> Nat]]
  BY SMTT(30) DEF publish_root, record_root, TypeOK
<1>2. kept_history(kind) \in Seq(Roots)
  <2>1. history[kind] \in Seq(Roots)
    BY DEF TypeOK
  <2>2. Len(history[kind]) >= MAX_ROOT_HISTORY => Tail(history[kind]) \in Seq(Roots)
    BY <2>1, PoolSizeAssumption, SMTT(30)
  <2> QED BY <2>1, <2>2 DEF kept_history
<1>3. history' \in [Kinds -> Seq(Roots)]
  <2> HIDE DEF kept_history
  <2>1. Append(kept_history(kind), root) \in Seq(Roots)
    BY <1>2, SMTT(30)
  <2> QED BY <2>1 DEF publish_root, TypeOK
<1> QED
  BY <1>1, <1>3 DEF publish_root, TypeOK, config, tree, custody, pauses

\* Every step keeps the types.
LEMMA NextType == TypeOK /\ [Next]_vars => TypeOK'
<1> SUFFICES ASSUME TypeOK, [Next]_vars PROVE TypeOK'
  OBVIOUS
<1>1. ASSUME NEW a \in Accounts, AdminCall(a) PROVE TypeOK'
  <2>1. ASSUME NEW kind \in Kinds, NEW root \in Roots, publish_root(kind, a, root)
        PROVE  TypeOK'
    BY <2>1, PublishType
  <2>2. ASSUME NEW e \in Expiries, set_root_expiry(a, e) PROVE TypeOK'
    BY <2>2, PoolLedgerAssumption
    DEF set_root_expiry, TypeOK, tree, custody, publication, pauses
  <2>3. ASSUME NEW b \in Accounts, transfer_admin(a, b) PROVE TypeOK'
    BY <2>3 DEF transfer_admin, TypeOK, tree, custody, publication, pauses
  <2>4. CASE pause_deposits(a) \/ unpause_deposits(a)
    BY <2>4 DEF pause_deposits, unpause_deposits, TypeOK, config, tree,
                custody, publication
  <2>5. CASE request_pause_withdrawals(a) \/ unpause_withdrawals(a)
    BY <2>5, SMTT(30) DEF request_pause_withdrawals, unpause_withdrawals,
                NO_PAUSE_REQUEST, TypeOK, config, tree, custody, publication
  <2>6. ASSUME NEW m \in Amounts, set_withdrawal_minimum(a, m) PROVE TypeOK'
    <3>1. m > 0 /\ minimum' = m
      BY <2>6 DEF set_withdrawal_minimum
    <3>2. minimum' \in Nat
      BY <3>1, PoolAmountsAssumption, SMTT(30)
    <3> QED BY <2>6, <3>2
    DEF set_withdrawal_minimum, TypeOK, tree, custody, publication, pauses
  <2> QED BY <1>1, <2>1, <2>2, <2>3, <2>4, <2>5, <2>6 DEF AdminCall
<1>2. CASE UserCall
  <2>1. ASSUME NEW w \in Withdrawals, withdraw(w) PROVE TypeOK'
    <3>1. sac' \in [Holders -> Nat]
      BY <2>1, WithdrawPays DEF withdraw, TypeOK
    <3> QED BY <2>1, <3>1, WithdrawType DEF withdraw
  <2> QED BY <1>2, <2>1, DepositType DEF UserCall
<1>3. CASE CloseLedger
  <2>1. now' \in 1 .. (MaxLedger + 1)
    BY <1>3, PoolLedgerAssumption, SMTT(30) DEF CloseLedger, TypeOK
  <2> QED BY <1>3, <2>1
  DEF CloseLedger, TypeOK, config, tree, custody, publication, pauses
<1>4. CASE UNCHANGED vars
  BY <1>4 DEF vars, TypeOK, config, tree, custody, publication, pauses
<1> QED BY <1>1, <1>2, <1>3, <1>4 DEF Next

\* The state written by initialize is of the right type.
LEMMA InitType ==
  ASSUME InitStorage, sac \in [Holders -> Nat]
  PROVE  TypeOK
<1>1. /\ now \in 1 .. (MaxLedger + 1)
      /\ cap_count \in 0 .. MAX_COMMITMENTS
      /\ last_alert \in AlertLevels
      /\ root_expiry \in Nat
  BY PoolLedgerAssumption, PoolSizeAssumption, SMTT(30) DEF InitStorage, AlertLevels
<1>2. /\ root_entry \in [Kinds -> [Roots -> Nat]]
      /\ history \in [Kinds -> Seq(Roots)]
      /\ events \in Seq(Events)
  BY SMTT(30) DEF InitStorage, UNPUBLISHED
<1>3. DOMAIN commit = {} /\ commit \in [DOMAIN commit -> Nat]
  BY DEF InitStorage
<1> QED BY <1>1, <1>2, <1>3 DEF InitStorage, TypeOK, NO_PAUSE_REQUEST

\* The balances at the start.
LEMMA InitSac == Init => sac \in [Holders -> Nat]
BY PoolAmountsAssumption, SMTT(30) DEF Init

\* Every entry point of the contract keeps its storage well typed: counters and
\* balances never become negative and the capacity guard is never overrun.
THEOREM TypeCorrect == Spec => []TypeOK
<1>1. Init => TypeOK
  BY InitType, InitSac DEF Init
<1>2. TypeOK /\ [Next]_vars => TypeOK'
  BY NextType
<1> QED BY <1>1, <1>2, PTL DEF Spec

-----------------------------------------------------------------------------
(* Custody, leaf indices and nullifiers.                                   *)

\* Only deposit and withdraw touch the funds and the tree.
LEMMA QuietSteps ==
  ASSUME [Next]_vars
  PROVE  UserCall \/ UNCHANGED <<tree, custody>>
<1>1. ASSUME NEW a \in Accounts, AdminCall(a) PROVE UNCHANGED <<tree, custody>>
  BY <1>1 DEF AdminCall, publish_root, set_root_expiry, transfer_admin,
              pause_deposits, unpause_deposits, request_pause_withdrawals,
              unpause_withdrawals, set_withdrawal_minimum
<1> QED BY <1>1 DEF Next, CloseLedger, vars

\* The inductive invariant of the three: Custody holds a difference of
\* counters against a balance and needs their types, the others are inductive
\* once the event log has its type.
FundsInv == TypeOK /\ Custody /\ LeafIndicesFollowEvents /\ NullifierSpentOnce

\* deposit adds the same value to the balance of the pool and to tot_dep.
LEMMA DepositCustody ==
  ASSUME FundsInv, NEW a \in Accounts, NEW v \in Amounts,
         NEW c \in Commitments, deposit(a, v, c, dep_count)
  PROVE  Custody'
<1>1. v \in Nat /\ a \in Holders /\ Pool \in Holders /\ sac[a] >= v /\ a # Pool
  BY PoolAmountsAssumption, PoolAddressAssumption, SMTT(30) DEF deposit, Holders
<1>2. sac'[Pool] = sac[Pool] + v
  <2>1. sac' = transfer(sac, a, Pool, v) /\ sac \in [Holders -> Nat]
    BY DEF deposit, FundsInv, TypeOK
  <2>2. transfer(sac, a, Pool, v)[Pool] = sac[Pool] + v
    BY <1>1, <2>1, TransferBalance, SMTT(30)
  <2> QED BY <2>1, <2>2
<1>3. tot_dep' = tot_dep + v /\ tot_wd' = tot_wd
  BY DEF deposit
<1>4. sac[Pool] \in Nat /\ tot_dep \in Nat /\ tot_wd \in Nat
  BY <1>1 DEF FundsInv, TypeOK
<1> QED BY <1>1, <1>2, <1>3, <1>4, SMTT(30) DEF FundsInv, Custody

\* withdraw adds the value to tot_wd, within tot_dep, and pays out no more.
LEMMA WithdrawCustody ==
  ASSUME FundsInv, NEW w \in Withdrawals, withdraw_call(w),
         sac' \in [Holders -> Nat], sac'[Pool] >= PaidOut(w)[Pool]
  PROVE  Custody'
<1>1. sac \in [Holders -> Nat] /\ Pool \in Holders
  BY DEF FundsInv, TypeOK, Holders
<1>2. PaidOut(w) \in [Holders -> Nat] /\ PaidOut(w)[Pool] >= sac[Pool] - w.value
  BY <1>1, WithdrawPays
<1>3. w.value \in Nat /\ w.fee \in Nat /\ w.fee <= w.value
  BY WithdrawArguments
<1>4. sac'[Pool] >= sac[Pool] - w.value
  <2>1. PaidOut(w)[Pool] \in Nat /\ sac[Pool] \in Nat /\ sac'[Pool] \in Nat
    BY <1>1, <1>2
  <2> QED BY <1>2, <1>3, <2>1, SMTT(30)
<1>5. tot_wd' = tot_wd + w.value /\ tot_dep' = tot_dep /\ tot_wd' <= tot_dep
  BY DEF withdraw_call, within_custody
<1>6. /\ sac[Pool] \in Nat /\ tot_dep \in Nat /\ tot_wd \in Nat
      /\ sac'[Pool] \in Nat
  BY <1>1 DEF FundsInv, TypeOK
<1>7. sac[Pool] >= tot_dep - tot_wd
  BY DEF FundsInv, Custody
<1>8. sac'[Pool] >= tot_dep' - tot_wd'
  BY <1>3, <1>4, <1>5, <1>6, <1>7, SMTT(30)
<1> QED BY <1>5, <1>8 DEF Custody

\* An insertion at index dep_count extends the leaf sequence.
LEMMA InsertLeafIndices ==
  ASSUME TypeOK, LeafIndicesFollowEvents, NEW leaf \in Commitments,
         NEW event \in Events, event.leaf = leaf, InsertLeaf(leaf, event)
  PROVE  LeafIndicesFollowEvents'
<1>1. /\ events' = Append(events, event) /\ events \in Seq(Events)
      /\ dep_count' = dep_count + 1 /\ Len(events) = dep_count
      /\ dep_count \in Nat
  BY DEF InsertLeaf, TypeOK, LeafIndicesFollowEvents
<1>2. /\ Len(events') = dep_count'
      /\ events'[dep_count + 1] = event
      /\ \A i \in 1 .. Len(events) : events'[i] = events[i]
  BY <1>1, SMTT(30)
<1>3. /\ DOMAIN commit' = DOMAIN commit \cup {leaf}
      /\ commit'[leaf] = dep_count
      /\ \A c \in DOMAIN commit : c # leaf => commit'[c] = commit[c]
      /\ \A c \in DOMAIN commit : commit[c] \in Nat
  BY DEF InsertLeaf, TypeOK
<1>4. ASSUME NEW i \in 1 .. Len(events')
      PROVE  events'[i].leaf \in DOMAIN commit' /\ commit'[events'[i].leaf] >= i - 1
  <2>1. CASE i = dep_count + 1
    BY <2>1, <1>1, <1>2, <1>3, SMTT(30)
  <2>2. CASE i # dep_count + 1
    <3>1. i \in 1 .. Len(events) /\ events'[i] = events[i] /\ i - 1 < dep_count
      BY <2>2, <1>1, <1>2, SMTT(30)
    <3>2. events[i].leaf \in DOMAIN commit /\ commit[events[i].leaf] >= i - 1
      BY <3>1 DEF LeafIndicesFollowEvents
    <3>3. CASE events[i].leaf = leaf
      BY <3>1, <3>3, <1>1, <1>3, SMTT(30)
    <3>4. CASE events[i].leaf # leaf
      BY <3>1, <3>2, <3>4, <1>3
    <3> QED BY <3>3, <3>4
  <2> QED BY <2>1, <2>2
<1>5. ASSUME NEW c \in DOMAIN commit'
      PROVE  commit'[c] < dep_count' /\ events'[commit'[c] + 1].leaf = c
  <2>1. CASE c = leaf
    BY <2>1, <1>1, <1>2, <1>3, SMTT(30)
  <2>2. CASE c # leaf
    <3>1. c \in DOMAIN commit /\ commit'[c] = commit[c] /\ commit[c] \in Nat
      BY <2>2, <1>3
    <3>2. commit[c] < dep_count /\ events[commit[c] + 1].leaf = c
      BY <3>1 DEF LeafIndicesFollowEvents
    <3>3. commit[c] + 1 \in 1 .. Len(events)
      BY <3>1, <3>2, <1>1, SMTT(30)
    <3>4. events'[commit[c] + 1] = events[commit[c] + 1]
      BY <3>3, <1>2
    <3> QED BY <3>1, <3>2, <3>4, <1>1, SMTT(30)
  <2> QED BY <2>1, <2>2
<1> QED BY <1>2, <1>4, <1>5 DEF LeafIndicesFollowEvents

\* A deposit adds an event that carries no nullifier.
LEMMA DepositNullifiers ==
  ASSUME FundsInv, NEW a \in Accounts, NEW v \in Amounts,
         NEW c \in Commitments, deposit(a, v, c, dep_count)
  PROVE  NullifierSpentOnce'
<1>1. PICK event : /\ event.topic = "Deposit"
                   /\ events' = Append(events, event)
  BY DEF deposit, InsertLeaf
<1>2. events \in Seq(Events) /\ nullifiers' = nullifiers
  BY DEF FundsInv, TypeOK, deposit
<1>3. /\ Len(events') = Len(events) + 1
      /\ events'[Len(events) + 1].topic # "Withdraw"
      /\ \A i \in 1 .. Len(events) : events'[i] = events[i]
  BY <1>1, <1>2, SMTT(30)
<1>4. \A i \in 1 .. Len(events') :
        events'[i].topic = "Withdraw" =>
          i \in 1 .. Len(events) /\ events'[i] = events[i]
  BY <1>2, <1>3, SMTT(30)
<1> QED BY <1>2, <1>4 DEF FundsInv, NullifierSpentOnce

\* A withdrawal adds an event with a nullifier that no event carries yet.
LEMMA WithdrawNullifiers ==
  ASSUME FundsInv, NEW w \in Withdrawals, withdraw_call(w)
  PROVE  NullifierSpentOnce'
<1> DEFINE n == w.nullifier_hash
<1>1. PICK event : event.nullifier_hash = n /\ events' = Append(events, event)
  BY DEF withdraw_call, InsertLeaf
<1>2. /\ events \in Seq(Events)
      /\ nullifiers' = nullifiers \cup {n} /\ n \notin nullifiers
  BY DEF FundsInv, TypeOK, withdraw_call, is_unspent
<1>3. /\ Len(events') = Len(events) + 1 /\ Len(events) \in Nat
      /\ events'[Len(events) + 1].nullifier_hash = n
      /\ \A i \in 1 .. Len(events) : events'[i] = events[i]
  BY <1>1, <1>2, SMTT(30)
<1>4. \A i \in 1 .. Len(events) :
        events[i].topic = "Withdraw" => events[i].nullifier_hash \in nullifiers
  BY DEF FundsInv, NullifierSpentOnce
<1>5. ASSUME NEW i \in 1 .. Len(events'), events'[i].topic = "Withdraw"
      PROVE  IF i = Len(events) + 1
             THEN events'[i].nullifier_hash = n
             ELSE /\ i \in 1 .. Len(events) /\ events'[i] = events[i]
                  /\ events'[i].nullifier_hash \in nullifiers
  BY <1>3, <1>4, <1>5, SMTT(30)
<1>6. \A i \in 1 .. Len(events') :
        events'[i].topic = "Withdraw" => events'[i].nullifier_hash \in nullifiers'
  BY <1>2, <1>5
<1>7. ASSUME NEW i \in 1 .. Len(events'), NEW j \in 1 .. Len(events'),
             events'[i].topic = "Withdraw", events'[j].topic = "Withdraw",
             events'[i].nullifier_hash = events'[j].nullifier_hash
      PROVE  i = j
  <2> HIDE DEF n
  <2>1. CASE i = Len(events) + 1 \/ j = Len(events) + 1
    BY <1>2, <1>5, <1>7, <2>1
  <2>2. CASE i # Len(events) + 1 /\ j # Len(events) + 1
    <3>1. /\ i \in 1 .. Len(events) /\ events'[i] = events[i]
          /\ j \in 1 .. Len(events) /\ events'[j] = events[j]
      BY <1>5, <1>7, <2>2
    <3> QED BY <1>7, <3>1 DEF FundsInv, NullifierSpentOnce
  <2> QED BY <2>1, <2>2
<1> QED BY <1>6, <1>7 DEF NullifierSpentOnce

\* A withdrawal keeps the invariant of the funds, and so does a transaction
\* that makes one and pays the pool something on top.
LEMMA WithdrawFunds ==
  ASSUME FundsInv, NEW w \in Withdrawals, withdraw_call(w),
         sac' \in [Holders -> Nat], sac'[Pool] >= PaidOut(w)[Pool]
  PROVE  FundsInv'
<1> DEFINE event == [topic |-> "Withdraw", leaf |-> w.new_commitment,
                     value |-> w.value, ledger |-> now,
                     nullifier_hash |-> w.nullifier_hash]
<1>1. /\ w.new_commitment \in Commitments /\ w.nullifier_hash \in Nullifiers
      /\ w.value \in Nat
  BY WithdrawArguments
<1>2. now \in Nat /\ TypeOK
  BY SMTT(30) DEF FundsInv, TypeOK
<1>3. event.leaf = w.new_commitment /\ event \in Events
  BY <1>1, <1>2 DEF Events
<1>4. InsertLeaf(w.new_commitment, event)
  BY DEF withdraw_call
<1>5. LeafIndicesFollowEvents'
  <2> HIDE DEF event
  <2> QED BY <1>1, <1>2, <1>3, <1>4, InsertLeafIndices DEF FundsInv
<1> QED BY <1>2, <1>5, WithdrawType, WithdrawCustody, WithdrawNullifiers DEF FundsInv

\* A step of another contract keeps the invariant of the funds when it takes
\* nothing from the pool.
LEMMA OtherContractFunds ==
  ASSUME FundsInv, UNCHANGED <<now, config, tree, publication, pauses>>,
         UNCHANGED <<tot_dep, tot_wd, nullifiers>>,
         sac' \in [Holders -> Nat], sac'[Pool] >= sac[Pool]
  PROVE  FundsInv'
<1>1. TypeOK /\ Custody /\ LeafIndicesFollowEvents /\ NullifierSpentOnce
  BY DEF FundsInv
<1>2. TypeOK'
  BY <1>1 DEF TypeOK, config, tree, publication, pauses
<1>3. Custody'
  <2>1. sac[Pool] \in Nat /\ sac'[Pool] \in Nat /\ tot_dep \in Nat /\ tot_wd \in Nat
    BY <1>1 DEF TypeOK, Holders
  <2>2. tot_wd <= tot_dep /\ sac[Pool] >= tot_dep - tot_wd
    BY <1>1 DEF Custody
  <2>3. sac'[Pool] >= tot_dep - tot_wd
    BY <2>1, <2>2, SMTT(30)
  <2> QED BY <2>2, <2>3 DEF Custody
<1>4. LeafIndicesFollowEvents' /\ NullifierSpentOnce'
  BY <1>1 DEF LeafIndicesFollowEvents, NullifierSpentOnce, tree
<1> QED BY <1>2, <1>3, <1>4 DEF FundsInv

\* Every step keeps the invariant of the funds.
LEMMA NextFunds == FundsInv /\ [Next]_vars => FundsInv'
<1> SUFFICES ASSUME FundsInv, [Next]_vars PROVE FundsInv'
  OBVIOUS
<1>1. TypeOK /\ TypeOK'
  BY NextType DEF FundsInv
<1>a. now \in Nat
  BY SMTT(30) DEF FundsInv, TypeOK
<1>2. ASSUME NEW a \in Accounts, NEW v \in Amounts, NEW c \in Commitments,
             deposit(a, v, c, dep_count)
      PROVE  FundsInv'
  <2> DEFINE event == [topic |-> "Deposit", leaf |-> c, value |-> v,
                       ledger |-> now]
  <2>0. v \in Nat
    BY <1>2, PoolAmountsAssumption, SMTT(30) DEF deposit
  <2>1. event.leaf = c /\ InsertLeaf(c, event) /\ event \in Events
    <3>1. InsertLeaf(c, event)
      BY <1>2 DEF deposit
    <3>2. event.leaf = c /\ event \in Events
      BY <1>a, <2>0 DEF Events
    <3> QED BY <3>1, <3>2
  <2>2. LeafIndicesFollowEvents'
    <3> HIDE DEF event
    <3> QED BY <1>1, <2>1, InsertLeafIndices DEF FundsInv
  <2> QED BY <1>1, <1>2, <2>2, DepositCustody, DepositNullifiers DEF FundsInv
<1>3. ASSUME NEW w \in Withdrawals, withdraw(w) PROVE FundsInv'
  <2>1. withdraw_call(w) /\ sac' = PaidOut(w)
    BY <1>3 DEF withdraw
  <2>2. sac' \in [Holders -> Nat] /\ sac'[Pool] \in Nat
    BY <1>1 DEF TypeOK, Holders
  <2>3. sac'[Pool] >= PaidOut(w)[Pool]
    BY <2>1, <2>2, SMTT(30)
  <2> QED BY <2>1, <2>2, <2>3, WithdrawFunds
<1>4. CASE UNCHANGED <<tree, custody>>
  <2>1. /\ UNCHANGED <<dep_count, commit, events, nullifiers>>
        /\ UNCHANGED <<tot_dep, tot_wd, sac>>
    BY <1>4 DEF tree, custody
  <2>2. Custody'
    BY <2>1 DEF FundsInv, Custody
  <2>3. LeafIndicesFollowEvents' /\ NullifierSpentOnce'
    BY <2>1 DEF FundsInv, LeafIndicesFollowEvents, NullifierSpentOnce
  <2> QED BY <1>1, <2>2, <2>3 DEF FundsInv
<1> QED BY <1>2, <1>3, <1>4, QuietSteps DEF UserCall

\* The pool that initialize leaves owes nothing, and has no leaves and no
\* nullifiers.
LEMMA InitStorageFunds ==
  ASSUME InitStorage, sac \in [Holders -> Nat]
  PROVE  FundsInv
<1>1. Custody
  <2>1. sac[Pool] \in Nat /\ tot_dep = 0 /\ tot_wd = 0
    BY DEF InitStorage, Holders
  <2> QED BY <2>1, SMTT(30) DEF Custody
<1>2. LeafIndicesFollowEvents /\ NullifierSpentOnce
  BY SMTT(30) DEF InitStorage, LeafIndicesFollowEvents, NullifierSpentOnce
<1> QED BY <1>1, <1>2, InitType DEF FundsInv

\* A new pool has no deposits.
LEMMA InitFunds == Init => FundsInv
BY InitStorageFunds, InitSac DEF Init

\* The pool stays solvent whatever the verifier accepts: it holds at least the
\* deposits that were not withdrawn.
THEOREM CustodyHolds == Spec => []Custody
<1>1. FundsInv => Custody
  BY DEF FundsInv
<1> QED BY <1>1, InitFunds, NextFunds, PTL DEF Spec

\* The events of the contract are its leaves, in order.
THEOREM LeafIndicesHold == Spec => []LeafIndicesFollowEvents
<1>1. FundsInv => LeafIndicesFollowEvents
  BY DEF FundsInv
<1> QED BY <1>1, InitFunds, NextFunds, PTL DEF Spec

\* No nullifier is spent twice, whatever the verifier accepts.
THEOREM NullifiersHold == Spec => []NullifierSpentOnce
<1>1. FundsInv => NullifierSpentOnce
  BY DEF FundsInv
<1> QED BY <1>1, InitFunds, NextFunds, PTL DEF Spec

-----------------------------------------------------------------------------
(* Roots and pauses.                                                       *)

\* Ledger numbers in storage are those of ledgers that have been reached.
LedgersPast ==
  /\ \A kind \in Kinds, root \in Roots : root_entry[kind][root] <= now
  /\ wd_pause_req <= now

\* The inductive invariant: a publication makes its root the freshest only
\* because no entry is ahead of the current ledger.
RootsInv == TypeOK /\ LedgersPast /\ LatestRootIsFreshest

\* A publication of any kind keeps the invariant.
LEMMA PublishRoots ==
  ASSUME RootsInv, NEW kind \in Kinds, NEW a \in Accounts, NEW root \in Roots,
         publish_root(kind, a, root)
  PROVE  RootsInv'
<1>1. TypeOK /\ TypeOK'
  BY PublishType DEF RootsInv
<1>2. /\ \A r \in Roots : root_entry'[kind][r] =
                             IF r = root THEN now ELSE root_entry[kind][r]
      /\ \A k \in Kinds : k # kind => root_entry'[k] = root_entry[k]
      /\ now' = now /\ wd_pause_req' = wd_pause_req
  BY <1>1 DEF publish_root, record_root, TypeOK, pauses
<1>3. now \in Nat /\ now <= now
  BY SMTT(30) DEF RootsInv, TypeOK
<1>4. LedgersPast'
  <2>1. \A k \in Kinds, r \in Roots : root_entry[k][r] <= now
    BY DEF RootsInv, LedgersPast
  <2>2. ASSUME NEW k \in Kinds, NEW r \in Roots PROVE root_entry'[k][r] <= now
    BY <1>2, <1>3, <2>1
  <2> QED BY <1>2, <2>2 DEF RootsInv, LedgersPast
<1>5. kept_history(kind) \in Seq(Roots)
  <2>1. history[kind] \in Seq(Roots)
    BY <1>1 DEF TypeOK
  <2>2. Len(history[kind]) >= MAX_ROOT_HISTORY => Tail(history[kind]) \in Seq(Roots)
    BY <2>1, PoolSizeAssumption, SMTT(30)
  <2> QED BY <2>1, <2>2 DEF kept_history
<1>6. /\ history'[kind] = Append(kept_history(kind), root)
      /\ \A k \in Kinds : k # kind => history'[k] = history[k]
  BY <1>1 DEF publish_root, TypeOK
<1>7. get_latest_root(kind)' = root
  BY <1>5, <1>6, SMTT(30) DEF get_latest_root
<1>8. ASSUME NEW k \in Kinds, history'[k] # << >>, NEW r \in Roots
      PROVE  root_entry'[k][r] <= root_entry'[k][get_latest_root(k)']
  <2>1. CASE k = kind
    <3>1. root_entry'[k][get_latest_root(k)'] = now
      BY <1>2, <1>7, <2>1
    <3>2. root_entry'[k][r] <= now
      BY <1>4, <1>2 DEF LedgersPast
    <3> QED BY <3>1, <3>2
  <2>2. CASE k # kind
    <3>1. history'[k] = history[k] /\ root_entry'[k] = root_entry[k]
      BY <1>2, <1>6, <2>2
    <3>2. get_latest_root(k)' = get_latest_root(k)
      BY <3>1 DEF get_latest_root
    <3> QED BY <1>8, <3>1, <3>2 DEF RootsInv, LatestRootIsFreshest
  <2> QED BY <2>1, <2>2
<1>9. LatestRootIsFreshest'
  BY <1>8 DEF LatestRootIsFreshest
<1> QED BY <1>1, <1>4, <1>9 DEF RootsInv

\* Calls other than a publication and a pause request leave the ledger numbers
\* in storage alone, or reset the request; a request records the current one.
LEMMA OtherStepsPublication ==
  ASSUME [Next]_vars
  PROVE  \/ \E kind \in Kinds, a \in Accounts, root \in Roots :
              publish_root(kind, a, root)
         \/ /\ UNCHANGED publication
            /\ \/ now' = now /\ wd_pause_req' = wd_pause_req
               \/ now' = now /\ wd_pause_req = NO_PAUSE_REQUEST
                  /\ wd_pause_req' = now
               \/ now' = now /\ wd_pause_req' = NO_PAUSE_REQUEST
               \/ now' = now + 1 /\ UNCHANGED <<root_expiry, wd_pause_req>>
<1>1. ASSUME NEW a \in Accounts, AdminCall(a),
             ~ \E kind \in Kinds, root \in Roots : publish_root(kind, a, root)
      PROVE  /\ UNCHANGED publication
             /\ \/ now' = now /\ wd_pause_req' = wd_pause_req
                \/ now' = now /\ wd_pause_req = NO_PAUSE_REQUEST
                   /\ wd_pause_req' = now
                \/ now' = now /\ wd_pause_req' = NO_PAUSE_REQUEST
  BY <1>1 DEF AdminCall, set_root_expiry, transfer_admin, pause_deposits,
              unpause_deposits, request_pause_withdrawals,
              unpause_withdrawals, set_withdrawal_minimum, pauses
<1>2. CASE UserCall
  BY <1>2 DEF UserCall, deposit, withdraw, withdraw_call, pauses
<1>3. CASE CloseLedger
  BY <1>3 DEF CloseLedger, config, pauses
<1>4. CASE UNCHANGED vars
  BY <1>4 DEF vars, pauses
<1> QED BY <1>1, <1>2, <1>3, <1>4 DEF Next

\* Every step keeps the invariant of the roots.
LEMMA NextRoots == RootsInv /\ [Next]_vars => RootsInv'
<1> SUFFICES ASSUME RootsInv, [Next]_vars PROVE RootsInv'
  OBVIOUS
<1>1. TypeOK'
  BY NextType DEF RootsInv
<1>2. CASE \E kind \in Kinds, a \in Accounts, root \in Roots :
             publish_root(kind, a, root)
  BY <1>2, PublishRoots
<1>3. CASE /\ UNCHANGED publication
           /\ now' \in {now, now + 1}
           /\ wd_pause_req' \in {wd_pause_req, now, NO_PAUSE_REQUEST}
  <2>1. /\ now \in Nat /\ wd_pause_req \in Nat
        /\ root_entry \in [Kinds -> [Roots -> Nat]]
    BY SMTT(30) DEF RootsInv, TypeOK
  <2>2. root_entry' = root_entry /\ history' = history
    BY <1>3 DEF publication
  <2>3. \A kind \in Kinds, root \in Roots : root_entry[kind][root] <= now'
    <3>1. ASSUME NEW kind \in Kinds, NEW root \in Roots
          PROVE  root_entry[kind][root] <= now'
      <4>1. root_entry[kind][root] \in Nat /\ root_entry[kind][root] <= now
        BY <2>1 DEF RootsInv, LedgersPast
      <4> QED BY <4>1, <2>1, <1>3, SMTT(30)
    <3> QED BY <3>1
  <2>4. wd_pause_req' <= now'
    BY <1>3, <2>1, SMTT(30) DEF RootsInv, LedgersPast, NO_PAUSE_REQUEST
  <2>5. LatestRootIsFreshest'
    BY <2>2 DEF RootsInv, LatestRootIsFreshest, get_latest_root
  <2> QED BY <1>1, <2>2, <2>3, <2>4, <2>5 DEF RootsInv, LedgersPast
<1> QED BY <1>2, <1>3, OtherStepsPublication

\* No root is published and no pause requested when the pool is initialized.
LEMMA InitRoots == Init => RootsInv
<1> SUFFICES ASSUME Init PROVE RootsInv
  OBVIOUS
<1>1. /\ \A kind \in Kinds, root \in Roots : root_entry[kind][root] = 0
      /\ wd_pause_req = 0 /\ now = 1
      /\ \A kind \in Kinds : history[kind] = << >>
  BY DEF Init, InitStorage, UNPUBLISHED, NO_PAUSE_REQUEST
<1>2. LedgersPast
  BY <1>1, SMTT(30) DEF LedgersPast
<1>3. LatestRootIsFreshest
  BY <1>1 DEF LatestRootIsFreshest
<1> QED BY <1>2, <1>3, InitType, InitSac DEF Init, RootsInv

\* get_latest_root answers the root that was published last.
THEOREM LatestRootHolds == Spec => []LatestRootIsFreshest
<1>1. RootsInv => LatestRootIsFreshest
  BY DEF RootsInv
<1> QED BY <1>1, InitRoots, NextRoots, PTL DEF Spec

\* A root that a withdrawal may use now is not taken away by any call, other
\* than one that shortens the expiry: publications only renew it.
THEOREM PublishedRootsHold == Spec => PublishedRootsStayFresh
<1>1. ASSUME RootsInv, [Next]_vars, now' = now, root_expiry' >= root_expiry,
             NEW k \in Kinds, NEW r \in Roots, require_fresh_root(k, r)
      PROVE  require_fresh_root(k, r)'
  <2>1. /\ now \in Nat /\ root_expiry \in Nat /\ now # 0
        /\ root_entry[k][r] \in Nat /\ root_entry[k][r] <= now
    BY <1>1, SMTT(30) DEF RootsInv, TypeOK, LedgersPast
  <2>2. root_expiry' \in Nat
    BY <1>1, NextType DEF RootsInv, TypeOK
  <2>3. root_entry'[k][r] \in {root_entry[k][r], now}
    <3>1. CASE \E kind \in Kinds, a \in Accounts, root \in Roots :
                 publish_root(kind, a, root)
      BY <3>1, <1>1, SMTT(30) DEF publish_root, record_root, RootsInv, TypeOK
    <3>2. CASE UNCHANGED publication
      BY <3>2 DEF publication
    <3> QED BY <1>1, <3>1, <3>2, OtherStepsPublication
  <2>4. /\ root_entry[k][r] # 0
        /\ now - root_entry[k][r] <= root_expiry
    BY <1>1, <2>1 DEF require_fresh_root, SaturatingSub, UNPUBLISHED
  <2> QED BY <1>1, <2>1, <2>2, <2>3, <2>4, SMTT(30)
      DEF require_fresh_root, SaturatingSub, UNPUBLISHED
<1>2. RootsInv /\ [Next]_vars =>
        [now' = now /\ root_expiry' >= root_expiry =>
           \A kind \in Kinds, root \in Roots :
             require_fresh_root(kind, root) => require_fresh_root(kind, root)']_vars
  BY <1>1
<1> QED BY <1>2, InitRoots, NextRoots, PTL DEF Spec, PublishedRootsStayFresh

\* A withdrawal pause starts exactly TIMELOCK ledgers after the request that is
\* pending, by the passing of time alone, and the request cannot be moved.
THEOREM PauseHolds == Spec => PauseIsTimelocked
<1> DEFINE Timelocked ==
      /\ ~withdrawals_pause_active /\ withdrawals_pause_active' =>
           /\ now' = now + 1
           /\ wd_pause_req' = wd_pause_req
           /\ now' = wd_pause_req + WITHDRAWAL_PAUSE_TIMELOCK_LEDGERS
      /\ wd_pause_req # NO_PAUSE_REQUEST =>
           wd_pause_req' \in {wd_pause_req, NO_PAUSE_REQUEST}
<1>1. ASSUME RootsInv, [Next]_vars PROVE Timelocked
  <2>1. /\ now \in Nat /\ wd_pause_req \in Nat /\ wd_pause_req <= now
        /\ WITHDRAWAL_PAUSE_TIMELOCK_LEDGERS \in Nat \ {0}
    BY <1>1, PoolLedgerAssumption, SMTT(30) DEF RootsInv, TypeOK, LedgersPast
  <2>2. \/ now' = now /\ wd_pause_req' = wd_pause_req
        \/ now' = now /\ wd_pause_req = NO_PAUSE_REQUEST /\ wd_pause_req' = now
        \/ now' = now /\ wd_pause_req' = NO_PAUSE_REQUEST
        \/ now' = now + 1 /\ wd_pause_req' = wd_pause_req
    <3>1. ASSUME NEW kind \in Kinds, NEW a \in Accounts, NEW root \in Roots,
                 publish_root(kind, a, root)
          PROVE  now' = now /\ wd_pause_req' = wd_pause_req
      BY <3>1 DEF publish_root, pauses
    <3> QED BY <1>1, <3>1, OtherStepsPublication
  <2> QED BY <2>1, <2>2, SMTT(30)
      DEF withdrawals_pause_active, SaturatingSub, NO_PAUSE_REQUEST
<1>2. RootsInv /\ [Next]_vars => [Timelocked]_vars
  BY <1>1
<1> QED BY <1>2, InitRoots, NextRoots, PTL DEF Spec, PauseIsTimelocked
-----------------------------------------------------------------------------
(* The capacity alert.                                                     *)

\* Division by a positive number is monotone.
LEMMA DivMonotone ==
  ASSUME NEW m \in Nat \ {0}, NEW a \in Nat, NEW b \in Nat, a <= b
  PROVE  (a \div m) \in Nat /\ (b \div m) \in Nat /\ (a \div m) <= (b \div m)
<1> DEFINE p == a \div m
           q == b \div m
<1>1. /\ p \in Nat /\ m * p <= a /\ a < m * p + m
      /\ q \in Nat /\ m * q <= b /\ b < m * q + m
  BY SMTT(30)
<1> HIDE DEF p, q
<1>2. p < q + 1
  <2> SUFFICES ASSUME p >= q + 1 PROVE FALSE
    BY <1>1, SMTT(30)
  <2>1. m * p >= m * q + m
    BY <1>1, SMTT(30)
  <2> QED BY <1>1, <2>1, SMTT(30)
<1> QED BY <1>1, <1>2, SMTT(30) DEF p, q

\* The alert level never falls as leaves are deposited, so a stored level is
\* only ever replaced by a higher one.
LEMMA LevelRises ==
  ASSUME NEW count \in Nat
  PROVE  check_and_emit_capacity_alert(get_capacity_alert_level(count),
                                       get_capacity_alert_level(count + 1))
           = get_capacity_alert_level(count + 1)
<1> DEFINE p == get_capacity_percentage_bps(count)
           q == get_capacity_percentage_bps(count + 1)
           warning == CAPACITY_WARNING_THRESHOLD_BPS
           critical == CAPACITY_CRITICAL_THRESHOLD_BPS
<1>1. p \in Nat /\ q \in Nat /\ p <= q
  <2> DEFINE a == count * FULL_BPS
             b == (count + 1) * FULL_BPS
  <2>1. FULL_BPS \in Nat
    BY SMTT(30) DEF FULL_BPS
  <2>2. a \in Nat /\ b \in Nat /\ a <= b
    BY <2>1, SMTT(30)
  <2>3. p = a \div MAX_COMMITMENTS /\ q = b \div MAX_COMMITMENTS
    BY DEF get_capacity_percentage_bps
  <2> HIDE DEF a, b, p, q
  <2> QED BY <2>2, <2>3, DivMonotone, PoolSizeAssumption
<1>2. warning \in Nat /\ critical \in Nat /\ warning <= critical
  BY SMTT(30) DEF CAPACITY_WARNING_THRESHOLD_BPS, CAPACITY_CRITICAL_THRESHOLD_BPS
<1> HIDE DEF p, q
<1>3. /\ p >= critical => q >= critical
      /\ p >= warning => q >= warning
      /\ p >= critical => p >= warning
  BY <1>1, <1>2, SMTT(30)
<1>4. /\ get_capacity_alert_level(count) =
           IF p >= critical THEN "Critical" ELSE IF p >= warning THEN "Warning" ELSE "Normal"
      /\ get_capacity_alert_level(count + 1) =
           IF q >= critical THEN "Critical" ELSE IF q >= warning THEN "Warning" ELSE "Normal"
  BY DEF p, q, get_capacity_alert_level
<1> QED BY <1>3, <1>4 DEF check_and_emit_capacity_alert

\* The stored alert is the alert level of the fill after every deposit, though
\* check_and_emit_capacity_alert writes it only when the level rises.
THEOREM AlertHolds == Spec => []AlertTracksFill
<1>1. Init => AlertTracksFill
  <2> SUFFICES ASSUME Init PROVE AlertTracksFill
    OBVIOUS
  <2>1. cap_count = 0 /\ last_alert = "Normal"
    BY DEF Init, InitStorage
  <2>2. get_capacity_percentage_bps(0) = 0
    BY PoolSizeAssumption, SMTT(30) DEF get_capacity_percentage_bps, FULL_BPS
  <2>3. ~(0 >= CAPACITY_CRITICAL_THRESHOLD_BPS) /\ ~(0 >= CAPACITY_WARNING_THRESHOLD_BPS)
    BY SMTT(30) DEF CAPACITY_CRITICAL_THRESHOLD_BPS, CAPACITY_WARNING_THRESHOLD_BPS
  <2> QED BY <2>1, <2>2, <2>3 DEF AlertTracksFill, get_capacity_alert_level
<1>2. TypeOK /\ AlertTracksFill /\ [Next]_vars => AlertTracksFill'
  <2> SUFFICES ASSUME TypeOK, AlertTracksFill, [Next]_vars PROVE AlertTracksFill'
    OBVIOUS
  <2>1. ASSUME NEW a \in Accounts, NEW v \in Amounts, NEW c \in Commitments,
               deposit(a, v, c, dep_count)
        PROVE  AlertTracksFill'
    <3>1. cap_count \in Nat
      BY SMTT(30) DEF TypeOK
    <3> QED BY <2>1, <3>1, LevelRises DEF deposit, increment_commitment_count, AlertTracksFill
  <2>2. ASSUME NEW w \in Withdrawals, withdraw(w) PROVE AlertTracksFill'
    BY <2>2 DEF withdraw, withdraw_call, AlertTracksFill
  <2>3. CASE UNCHANGED <<tree, custody>>
    BY <2>3 DEF tree, AlertTracksFill
  <2> QED BY <2>1, <2>2, <2>3, QuietSteps DEF UserCall
<1> QED BY <1>1, <1>2, TypeCorrect, PTL DEF Spec
==============================================================================
