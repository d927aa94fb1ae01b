----------------------------- MODULE PrivacyPool -----------------------------
(***************************************************************************)
(* The privacy-pool contract (contracts/privacy-pool/src: lib.rs,          *)
(* capacity.rs, withdrawal.rs).                                            *)
(*                                                                         *)
(* One action per entry point that changes state.  A Soroban call that     *)
(* returns an error or traps reverts as a whole, so a failing call is not  *)
(* a step: the checks of an entry point are the guards of its action, and  *)
(* require_auth() is the choice of the account that makes the call.        *)
(* Commitments, nullifiers and roots are opaque values; what the groth16   *)
(* verifier accepts is the constant operator verify_proof_v3.              *)
(***************************************************************************)
EXTENDS Sequences, SorobanHost

CONSTANTS
  Accounts,       \* addresses that sign calls and hold XLM
  Pool,           \* the contract's own address
  Commitments, Nullifiers, Roots,
  Amounts,        \* i128 arguments: values, fees and minimums
  Expiries,       \* arguments of set_root_expiry
  InitialBalance, \* XLM of every account at the start
  MaxLedger,      \* bound: last ledger that closes
  MAX_COMMITMENTS, MAX_ROOT_HISTORY,
  MAX_MINIMUM,    \* largest argument of set_withdrawal_minimum
  WITHDRAWAL_PAUSE_TIMELOCK_LEDGERS, DEFAULT_ROOT_EXPIRY_LEDGERS,
  verify_proof_v3(_)  \* does the verifier accept a proof of this withdrawal?

ASSUME PoolAddressAssumption == Pool \notin Accounts
ASSUME PoolAmountsAssumption ==
  /\ Amounts \subseteq Int
  /\ InitialBalance \in Nat
ASSUME PoolLedgerAssumption ==
  /\ MaxLedger \in Nat
  /\ Expiries \subseteq Nat
  /\ WITHDRAWAL_PAUSE_TIMELOCK_LEDGERS \in Nat \ {0}
  /\ DEFAULT_ROOT_EXPIRY_LEDGERS \in Nat
ASSUME PoolSizeAssumption ==
  /\ MAX_COMMITMENTS \in Nat \ {0}
  /\ MAX_ROOT_HISTORY \in Nat \ {0}
  /\ MAX_MINIMUM \in Nat

NO_PAUSE_REQUEST == 0
CAPACITY_WARNING_THRESHOLD_BPS == 8500
CAPACITY_CRITICAL_THRESHOLD_BPS == 9500
FULL_BPS == 10000

StateKind == "state"
AspKind == "asp"
Kinds == {StateKind, AspKind}

\* No ledger has sequence number 0, so 0 stands for "no entry" in root_entry.
UNPUBLISHED == 0

Holders == Accounts \cup {Pool}

Withdrawals ==
  [value : Amounts, fee : Amounts, state_root : Roots, asp_root : Roots,
   nullifier_hash : Nullifiers, new_commitment : Commitments,
   recipient : Holders, relayer : Holders]

Events ==
  [topic : {"Deposit"}, leaf : Commitments, value : Nat, ledger : Nat]
    \cup
  [topic : {"Withdraw"}, leaf : Commitments, value : Nat, ledger : Nat,
   nullifier_hash : Nullifiers]

VARIABLES
  now,            \* ledger sequence number
  admin,          \* config.admin
  root_expiry,    \* config.root_expiry_ledgers
  wd_admin,       \* DataKey::WithdrawalAdmin
  minimum,        \* DataKey::WithdrawalConfig.minimum_amount
  dep_count, tot_dep, tot_wd,
  cap_count,      \* DataKey::TreeCapacity.current_count
  last_alert,     \* DataKey::LastAlert.level, "Normal" while there is none
  commit,         \* ("commit", c) -> leaf index; the keys that are set
  nullifiers,     \* the ("nullifier", n) keys that are set
  root_entry,     \* (kind, root) -> ledger of the last publication
  history,        \* state_hist / asp_hist
  dep_paused, wd_pause_req,
  sac,            \* balances of the native asset contract
  events          \* the contract's Deposit and Withdraw events, in order

config == <<admin, root_expiry, wd_admin, minimum>>
tree == <<dep_count, cap_count, last_alert, commit, events>>
custody == <<tot_dep, tot_wd, nullifiers, sac>>
publication == <<root_entry, history>>
pauses == <<dep_paused, wd_pause_req>>
vars == <<now, config, tree, custody, publication, pauses>>

-----------------------------------------------------------------------------
(* Helpers.                                                                *)

withdrawals_pause_active ==
  /\ wd_pause_req # NO_PAUSE_REQUEST
  /\ SaturatingSub(now, wd_pause_req) >= WITHDRAWAL_PAUSE_TIMELOCK_LEDGERS

require_fresh_root(kind, root) ==
  /\ root_entry[kind][root] # UNPUBLISHED
  /\ SaturatingSub(now, root_entry[kind][root]) <= root_expiry

get_latest_root(kind) == history[kind][Len(history[kind])]

is_tree_at_capacity == cap_count >= MAX_COMMITMENTS

get_capacity_percentage_bps(count) == (count * FULL_BPS) \div MAX_COMMITMENTS

get_capacity_alert_level(count) ==
  LET bps == get_capacity_percentage_bps(count)
  IN  IF bps >= CAPACITY_CRITICAL_THRESHOLD_BPS THEN "Critical"
      ELSE IF bps >= CAPACITY_WARNING_THRESHOLD_BPS THEN "Warning"
      ELSE "Normal"

\* Mutant: the level is raised one step at a time.
check_and_emit_capacity_alert_Stepwise(prev, level) ==
  IF prev = "Normal" /\ level = "Critical" THEN prev ELSE level

\* The alert that is stored after the level has become `level`.
check_and_emit_capacity_alert(prev, level) ==
  IF \/ level = "Critical" /\ prev # "Critical"
     \/ level = "Warning" /\ prev = "Normal"
  THEN level
  ELSE prev

\* capacity::increment_commitment_count
increment_commitment_count ==
  /\ cap_count' = cap_count + 1
  /\ last_alert' = check_and_emit_capacity_alert(
                     last_alert, get_capacity_alert_level(cap_count + 1))

-----------------------------------------------------------------------------
(* initialize, by some account, on the first ledger of the model.          *)
InitStorage ==
  /\ now = 1
  /\ admin \in Accounts
  /\ root_expiry = DEFAULT_ROOT_EXPIRY_LEDGERS
  /\ wd_admin = admin
  /\ minimum = 0
  /\ dep_count = 0 /\ tot_dep = 0 /\ tot_wd = 0
  /\ cap_count = 0 /\ last_alert = "Normal"
  /\ commit = [c \in {} |-> 0]
  /\ nullifiers = {}
  /\ root_entry = [kind \in Kinds |-> [root \in Roots |-> UNPUBLISHED]]
  /\ history = [kind \in Kinds |-> << >>]
  /\ dep_paused = FALSE
  /\ wd_pause_req = NO_PAUSE_REQUEST
  /\ events = << >>

Init ==
  /\ InitStorage
  /\ sac = [h \in Holders |-> IF h = Pool THEN 0 ELSE InitialBalance]

\* Mutant: a withdrawal's remainder does not advance the deposit count.
InsertLeaf_NoCount(leaf, event) ==
  /\ commit' = [c \in DOMAIN commit \cup {leaf} |->
                  IF c = leaf THEN dep_count ELSE commit[c]]
  /\ dep_count' = IF event.topic = "Deposit" THEN dep_count + 1 ELSE dep_count
  /\ events' = Append(events, event)

\* Insert a leaf at the next index: the commitment key, the deposit count and
\* the event the indexer reads.
InsertLeaf(leaf, event) ==
  /\ commit' = [c \in DOMAIN commit \cup {leaf} |->
                  IF c = leaf THEN dep_count ELSE commit[c]]
  /\ dep_count' = dep_count + 1
  /\ events' = Append(events, event)

deposit(depositor, value, commitment, expected_index) ==
  /\ ~dep_paused
  /\ value > 0
  /\ dep_count = expected_index
  /\ ~is_tree_at_capacity
  /\ sac[depositor] >= value
  /\ sac' = transfer(sac, depositor, Pool, value)
  /\ InsertLeaf(commitment, [topic |-> "Deposit", leaf |-> commitment,
                             value |-> value, ledger |-> now])
  /\ increment_commitment_count
  /\ tot_dep' = tot_dep + value
  /\ UNCHANGED <<now, config, tot_wd, nullifiers, publication, pauses>>

\* The history without its oldest root when it is full.
kept_history(kind) ==
  IF Len(history[kind]) >= MAX_ROOT_HISTORY
  THEN Tail(history[kind])
  ELSE history[kind]

\* Mutant: a root that is already known keeps the ledger it has.
record_root_First(kind, root) ==
  [root_entry EXCEPT ![kind][root] = IF @ = UNPUBLISHED THEN now ELSE @]

\* Mutant: a root evicted from the history is no longer accepted.
record_root_Evict(kind, root) ==
  [root_entry EXCEPT ![kind] =
     [r \in Roots |->
        IF r = root THEN now
        ELSE IF Len(history[kind]) >= MAX_ROOT_HISTORY /\ r = history[kind][1]
             THEN UNPUBLISHED
             ELSE @[r]]]

record_root(kind, root) == [root_entry EXCEPT ![kind][root] = now]

\* update_state_root and update_asp_root
publish_root(kind, caller, root) ==
  /\ caller = admin
  /\ root_entry' = record_root(kind, root)
  /\ history' = [history EXCEPT ![kind] = Append(kept_history(kind), root)]
  /\ UNCHANGED <<now, config, tree, custody, pauses>>

set_root_expiry(caller, expiry_ledgers) ==
  /\ caller = admin
  /\ root_expiry' = expiry_ledgers
  /\ UNCHANGED <<now, admin, wd_admin, minimum, tree, custody, publication,
                 pauses>>

transfer_admin(caller, new_admin) ==
  /\ caller = admin
  /\ admin' = new_admin
  /\ UNCHANGED <<now, root_expiry, wd_admin, minimum, tree, custody,
                 publication, pauses>>

pause_deposits(caller) ==
  /\ caller = admin
  /\ dep_paused' = TRUE
  /\ UNCHANGED <<now, config, tree, custody, publication, wd_pause_req>>

unpause_deposits(caller) ==
  /\ caller = admin
  /\ dep_paused' = FALSE
  /\ UNCHANGED <<now, config, tree, custody, publication, wd_pause_req>>

\* Mutant: a second request restarts the timelock, without the NO_PAUSE_REQUEST test.
request_pause_withdrawals_Restart(caller) ==
  /\ caller = admin
  /\ wd_pause_req' = now
  /\ UNCHANGED <<now, config, tree, custody, publication, dep_paused>>

\* A request made while one is pending succeeds and changes nothing.
request_pause_withdrawals(caller) ==
  /\ caller = admin
  /\ wd_pause_req' =
       IF wd_pause_req = NO_PAUSE_REQUEST THEN now ELSE wd_pause_req
  /\ UNCHANGED <<now, config, tree, custody, publication, dep_paused>>

unpause_withdrawals(caller) ==
  /\ caller = admin
  /\ wd_pause_req # NO_PAUSE_REQUEST
  /\ wd_pause_req' = NO_PAUSE_REQUEST
  /\ UNCHANGED <<now, config, tree, custody, publication, dep_paused>>

set_withdrawal_minimum(caller, new_minimum) ==
  /\ caller = admin
  /\ caller = wd_admin  \* update_minimum_withdrawal_amount
  /\ new_minimum > 0 /\ new_minimum <= MAX_MINIMUM
  /\ minimum' = new_minimum
  /\ UNCHANGED <<now, admin, root_expiry, wd_admin, tree, custody,
                 publication, pauses>>

\* Mutant: the custody check forgets the withdrawal being made.
within_custody_Late(value) == tot_wd <= tot_dep

within_custody(value) == tot_wd + value <= tot_dep

\* Mutant: no replay protection.
is_unspent_Always(nullifier_hash) == TRUE

is_unspent(nullifier_hash) == nullifier_hash \notin nullifiers

\* The payouts of a withdrawal: to the recipient, then the fee.
PaidRecipient(w) == transfer(sac, Pool, w.recipient, w.value - w.fee)
PaidOut(w) == transfer(PaidRecipient(w), Pool, w.relayer, w.fee)
Covered(w) == sac[Pool] >= w.value - w.fee /\ PaidRecipient(w)[Pool] >= w.fee

\* withdraw without its effect on the balances, which are PaidOut(w) after it.
withdraw_call(w) ==
  /\ ~withdrawals_pause_active
  /\ w.value > 0 /\ w.fee >= 0 /\ w.fee <= w.value
  /\ w.value >= minimum
  /\ require_fresh_root(StateKind, w.state_root)
  /\ require_fresh_root(AspKind, w.asp_root)
  /\ is_unspent(w.nullifier_hash)
  /\ verify_proof_v3(w)
  /\ within_custody(w.value)
  /\ tot_wd' = tot_wd + w.value
  /\ nullifiers' = nullifiers \cup {w.nullifier_hash}
  /\ InsertLeaf(w.new_commitment,
       [topic |-> "Withdraw", leaf |-> w.new_commitment, value |-> w.value,
        ledger |-> now, nullifier_hash |-> w.nullifier_hash])
  /\ Covered(w)
  /\ UNCHANGED <<now, config, cap_count, last_alert, tot_dep, publication,
                 pauses>>

withdraw(w) == withdraw_call(w) /\ sac' = PaidOut(w)

CloseLedger ==
  /\ now < MaxLedger
  /\ now' = now + 1
  /\ UNCHANGED <<config, tree, custody, publication, pauses>>

AdminCall(caller) ==
  \/ \E kind \in Kinds, root \in Roots : publish_root(kind, caller, root)
  \/ \E e \in Expiries : set_root_expiry(caller, e)
  \/ \E a \in Accounts : transfer_admin(caller, a)
  \/ pause_deposits(caller)
  \/ unpause_deposits(caller)
  \/ request_pause_withdrawals(caller)
  \/ unpause_withdrawals(caller)
  \/ \E m \in Amounts : set_withdrawal_minimum(caller, m)

\* A racing depositor's expected_index is stale; the call then fails, so only
\* calls with the current index are steps.
UserCall ==
  \/ \E a \in Accounts, v \in Amounts, c \in Commitments :
       deposit(a, v, c, dep_count)
  \/ \E w \in Withdrawals : withdraw(w)

Next ==
  \/ \E a \in Accounts : AdminCall(a)
  \/ UserCall
  \/ CloseLedger

Spec == Init /\ [][Next]_vars

-----------------------------------------------------------------------------
(* Properties.                                                             *)

AlertLevels == {"Normal", "Warning", "Critical"}

\* Every variable has the type of the storage entry it models.
TypeOK ==
  /\ now \in 1 .. (MaxLedger + 1)
  /\ admin \in Accounts /\ wd_admin \in Accounts
  /\ root_expiry \in Nat /\ minimum \in Nat
  /\ dep_count \in Nat /\ tot_dep \in Nat /\ tot_wd \in Nat
  /\ cap_count \in 0 .. MAX_COMMITMENTS
  /\ last_alert \in AlertLevels
  /\ DOMAIN commit \subseteq Commitments
  /\ commit \in [DOMAIN commit -> Nat]
  /\ nullifiers \subseteq Nullifiers
  /\ root_entry \in [Kinds -> [Roots -> Nat]]
  /\ history \in [Kinds -> Seq(Roots)]
  /\ dep_paused \in BOOLEAN
  /\ wd_pause_req \in Nat
  /\ sac \in [Holders -> Nat]
  /\ events \in Seq(Events)

\* The pool can always pay what has been deposited and not withdrawn, whatever
\* the verifier accepts (the custody check and the payouts of withdraw): the
\* two payouts never take more than the amount added to tot_wd.
Custody ==
  /\ tot_wd <= tot_dep
  /\ sac[Pool] >= tot_dep - tot_wd

\* The event log is the leaf sequence: event i of the contract inserts leaf
\* i - 1 although deposits and withdrawals both insert, and the commitment key
\* of a leaf holds the index of its last insertion.  The ASP and the SDK
\* rebuild the state tree from the log and the indices on this assumption.
LeafIndicesFollowEvents ==
  /\ Len(events) = dep_count
  /\ \A i \in 1 .. Len(events) :
       /\ events[i].leaf \in DOMAIN commit
       /\ commit[events[i].leaf] >= i - 1
  /\ \A c \in DOMAIN commit :
       /\ commit[c] < dep_count
       /\ events[commit[c] + 1].leaf = c

\* No two withdrawals ever carried the same nullifier, whatever the verifier
\* accepts and however long ago the first was (the replay check of withdraw).
NullifierSpentOnce ==
  /\ \A i \in 1 .. Len(events) :
       events[i].topic = "Withdraw" => events[i].nullifier_hash \in nullifiers
  /\ \A i, j \in 1 .. Len(events) :
       /\ events[i].topic = "Withdraw" /\ events[j].topic = "Withdraw"
       /\ events[i].nullifier_hash = events[j].nullifier_hash
       => i = j

\* get_latest_root returns the last root of the history without looking at its
\* entry: no other root, evicted from the history or not, was published later.
LatestRootIsFreshest ==
  \A kind \in Kinds : history[kind] # << >> =>
    \A root \in Roots :
      root_entry[kind][root] <= root_entry[kind][get_latest_root(kind)]

\* The stored alert is the alert level of the current fill, although it is only
\* rewritten when check_and_emit_capacity_alert sees a level it has not stored.
AlertTracksFill == last_alert = get_capacity_alert_level(cap_count)

\* Publishing roots never invalidates a proof that is under way: a root that is
\* accepted stays accepted until a ledger closes or the expiry is shortened,
\* also when it is evicted from the bounded history.
PublishedRootsStayFresh ==
  [][now' = now /\ root_expiry' >= root_expiry =>
       \A kind \in Kinds, root \in Roots :
         require_fresh_root(kind, root) => require_fresh_root(kind, root)']_vars

\* The withdrawal pause is timelocked: no call turns it on, it starts only when
\* a ledger closes TIMELOCK ledgers after the request that is still pending,
\* and a pending request can be cancelled but not moved.
PauseIsTimelocked ==
  [][/\ ~withdrawals_pause_active /\ withdrawals_pause_active' =>
          /\ now' = now + 1
          /\ wd_pause_req' = wd_pause_req
          /\ now' = wd_pause_req + WITHDRAWAL_PAUSE_TIMELOCK_LEDGERS
     /\ wd_pause_req # NO_PAUSE_REQUEST =>
          wd_pause_req' \in {wd_pause_req, NO_PAUSE_REQUEST}]_vars
==============================================================================
