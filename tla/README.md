# Opaque on Stellar: TLA+ verification project

Models of the parts of this repository that keep state, the properties they
should have, TLC runs that check them on small instances, and TLAPS proofs that
hold for all instances. Paths below are relative to the repository root.

## 1. The system and its parts

Users deposit XLM into the **privacy pool** and withdraw it with a zero-knowledge
proof against two Merkle roots: the *state root* (all leaves of the pool) and the
*ASP root* (the approved deposits). The contract does not compute the roots; the
**ASP indexer** reads the pool's events, screens deposits, and publishes both.
A user who does not want to sign a withdrawal creates a job in the **relayer
registry**, with the fee in escrow. A **relayer node** receives the payload,
bonds stake with `accept_job`, and submits the withdrawal with
`submit_pool_withdraw`, which calls the pool in the same transaction; a relayer
that misses the deadline is slashed. A **hub** passes adverts, bids and outcomes
between users and relayers. The **pool wallet** in the browser generates the secrets
of a note, makes the user write them down, deposits, withdraws or hires a relayer, and
keeps the notes in (optionally encrypted) local storage. The **announcement sync**
reads the stealth announcements of the chain into a cache. Apart from the pool there
is a reputation system: schemas, attestations, a **publisher** that collects leaves
and posts roots, and a verifier contract. Administration can be handed to a multisig.

| part | source | module | status |
|---|---|---|---|
| privacy pool | `contracts/privacy-pool` | `PrivacyPool` | modelled, proved |
| relayer registry | `contracts/relayer-registry` | `RelayerRegistry` | modelled, proved |
| relayed withdrawal | both contracts | `RelayedPool` | composition, proved |
| ASP indexer | `asp/` | `AspIndexer` | partly, proved |
| relayer node | `relayer/src/{engine,job-queue,store,runtime,reconciler}.ts` | `RelayerEngine`, `BondedJobs` | partly, proved |
| pool wallet | `frontend/src/components/PoolView.tsx`, `lib/{poolSweep,depositBackupGate,encryptedStorage}.ts`, `store/poolNoteStore.ts` | `PoolWallet` | partly, proved |
| announcement sync | `frontend/src/hooks/useScanner.ts`, `lib/opaqueCache.ts` | `Scanner` | partly, proved |
| publisher | `publisher/` | `Publisher` | partly, safety proved |
| reputation verifier | `contracts/reputation-verifier` | roots and expiry in `Publisher` | partly |
| attestation engine | `contracts/attestation-engine-v2` | revocation in `Publisher` | partly |
| relayer hub, gossip, HTTP | `relayer/src/{hub,gossip,http,...}.ts` | | not modelled |
| schema registry, stealth registry, multisig admin | `contracts/...` | | not modelled: sequential, see section 5 |
| stealth announcer | `contracts/stealth-announcer` | | not modelled: events only |
| groth16 verifier, Poseidon, schema core, circuits, WASM scanner | | | not modelled: pure arithmetic and byte layouts out of TLC's reach |
| SDK, rest of the frontend, scripts, fuzz targets | | | not modelled: clients and tooling around the modelled calls |

`SorobanHost` holds what the contracts share: an asset transfer and saturating
subtraction. `MC*` modules only give constants their values.

## 2. How the modules correspond to the code

**Contracts.** One action per entry point that changes state. A Soroban call that
fails reverts as a whole, so a failing call is no step and the checks of the entry
point are the guards of its action. `require_auth` is the choice of the calling
account. `CloseLedger` is the clock. Views, TTL extensions and event texts are left
out; the Deposit and Withdraw events of the pool are kept because the ASP reads
them.

- `PrivacyPool` has a variable per storage key. Commitments, nullifiers and roots
  are opaque values. The proof verifier is the constant operator `verify_proof_v3`;
  the runs let it accept everything and the proofs leave it arbitrary, so nothing
  here rests on the soundness of the circuit.
- `RelayerRegistry` keeps relayer records, job records and balances. The payload
  hash is the payload. The pool call of `submit_pool_withdraw` appears as the
  balances it leaves behind (`AfterPool`). `slashed` is a history variable: what
  `report_slash` has paid out for each relayer.
- `RelayedPool` instantiates both on one ledger and one asset contract. Its
  `submit_pool_withdraw` is the conjunction of the pool's `withdraw_call` and the
  registry's action: one transaction. It keeps the administration that decides over
  a withdrawal (roots, pause) and leaves out staking calls other than `register`.

**ASP indexer.** `AspIndexer` splits one `runPoolTick` into steps at each request:
reading deposits, screening, comparing and posting the ASP root, the two event
queries of the state tree, posting the state root, saving. Between any two steps
ledgers close, transactions land or are dropped, the tick throws, the process
crashes, or an operator runs `reinstate.ts`. `store` is the file, `work` the state in
memory. A root is the sequence of its leaves. Transactions carry a sequence number
and the pending ones compete for it. The screening policy is the operator `Verdicts`.

**Relayer node.** `RelayerEngine` has one process per payload delivery and one for
the resume pass; `pc[p]` names the place between two awaits. `queue` is the
`AcceptedJobQueue` in memory, `disk` its file, `txs` the transactions that may still
be included, also after the sender stopped waiting or died. `held` keeps the phase
of an entry object the resume pass still holds after a delivery replaced or removed
it. A failing read answers "unknown". `unseen` is a history variable: jobs whose
entry was dropped because of such a read. `BondedJobs` is the abstract
specification, and `KeepsPromise` states the refinement with
`intents <- DOMAIN disk`, `bonded <-` the jobs accepted by this operator, and
`lost <-` the jobs without headroom or unseen.

**Publisher.** `Publisher` has the chain (`entries`: the roots that have not expired,
with their age; `latest`; `revoked`), the files (`leaves` of the state, `inbox` as a set
of files with their place in time, `roots` with a manifest) and one tick whose `pc` stops
at every request: each `getAttestation` is a step, of the leaves first (`CheckLeaf`) and
then of the inbox files (`CheckFile`), so attestations are revoked and ledgers close between
two of them. `active` and `eligible` are the code's `activeLeaves` and `validInbox`; a leaf
that reads as null and is submitted again is therefore pruned and appended anew. The root
transactions under way share one sequence number, so one that lands ends the others; those
of a tick that failed or died stay under way. Ages instead of ledger numbers let ledgers close for ever in a finite state
space, which is what the expiry of roots needs. `acked` and `blinded` (leaves whose
attestation read once came back null) are history variables.

**Pool wallet.** `PoolWallet` interleaves the handlers of the page at their awaits:
`exec[h]` are clicks on "Confirm & Sign", `sweep` the sweep of a stealth account,
`flow` the withdrawal. Transactions are never forgotten: one the page stopped polling
may still be included. `notes` is the store in memory, `disk` the item in local storage,
`writes` the encryptions under way, `session` the backup gate in session storage. A
reload clears the page and hydrates the store. `plan` is chosen at the start: what this
user does besides depositing. `backedUp` and `abandoned` are history variables. The pool
and the registry appear as what they do to the wallet's own notes and jobs; their full
models are `PrivacyPool` and `RelayerRegistry`.

**Announcement sync.** `Scanner` has the chain as the set of ledgers with an
announcement, the head and the oldest ledger the node retains; the cache (`cached`,
`sync`); `requests`, the map of shared page requests; and per scan its place in
`runScan`, the pages its workers wait for and the results that wait for an earlier page.
Every IndexedDB transaction is a step. `lost` is a history variable: what an interrupted
or overlapping reset has deleted behind the cursor.

## 3. What the runs check

| run | what it shows |
|---|---|
| `pool` | `Custody`: the pool can pay what is not withdrawn, whatever proofs verify; `LeafIndicesFollowEvents`: the event log is the leaf sequence; `NullifierSpentOnce`; `LatestRootIsFreshest`, `PublishedRootsStayFresh`: publications and evictions never take away a usable root; `AlertTracksFill`; `PauseIsTimelocked` |
| `registry` | `TypeOK`, `Solvent`, `BondedIsAcceptedFees`, `RecordsAgree` (a pending unstake is locked, an accepted job names a registered relayer), `JobsAreFinal`, over all orders of staking, job and report calls; `JobsSettle`: no fee stays in escrow for ever |
| `relayed` | `BothSolvent`, with the bonds of two jobs; `SubmittedMeansWithdrawn`: the fee is paid in the step that makes the withdrawal; `OneFeePerNote` |
| `asp` | `StateRootsAreReal`; `RootOnChainIsServed`: retention bounds the manifests and keeps the one of the root on chain; `AspRootGrows` |
| `asp_appeal` | `NoDepositForgotten`, `DecidedOnce`; `ApprovedReachesChain` under fairness |
| `engine` | `BondIsOnDisk`; `CompletedIsSubmitted`; `KeepsPromise`; `AcceptedFinishes`: a bonded job is submitted unless its headroom runs out |
| `wallet` | `NotesAreReal`: a stored note is the note at its leaf; `SpentIsSpent`: a note marked spent is spent on chain, through stalls, resubmissions and edits of the form; `DepositsAreBackedUp`; `DepositSecretKept`: a deposit that lands after the page reported a failure still has its secrets in the dialog or the store; `ConfirmedIsKept` |
| `publisher` | `LeavesKeepOrder`: leaves stay distinct, keep their order and get new ones at the end only; `UsableRootHasManifest`: every root a proof may use is served; under fairness `AckedIsVerifiable`: an acknowledged leaf becomes verifiable while its attestation holds; `EndedStopsVerifying`: a revoked or expired one stops being verifiable for good; `RootIsRenewed` |
| `scanner` | `CursorIsCovered`: what the cursor passed is cached or no longer served; `GapsAreReported`: what it passed and is not cached is recorded as a gap, and the recorded ranges are sorted, disjoint and true; `NoPageIsOrphaned`: every page a worker waits for has a request that will answer; `UpToDateIsTrue` |

Three runs end in a counterexample. Each states what a comment of the code says:

- `registry_report`: `report_slash` pays the reporter `slash_amount` although it
  deducts at most the bonded and free stake
  (`contracts/relayer-registry/src/lib.rs:678`, comment at line 645).
- `asp_deferred`: a deferred deposit is lost once a deposit of a later ledger moved
  the cursor (`asp/src/engine.ts:128`; `asp/src/policy.ts:35` promises re-evaluation).
- `engine_store`: `writeJsonFile` (`relayer/src/store.ts:150`) calls two functions
  the module does not import, so every save throws; the resume timer then bonds a job
  that only memory knows, against `relayer/src/job-queue.ts:10`. All other runs and
  the proofs about bonds assume a store that saves (`SaveWorks`).

Every property of a passing run has a mutant: a variant of one definition
(`Name_Suffix`, commented `Mutant:`) that makes TLC refute it.

### Bounds

Bounds are constants marked `bound:` where they are declared. Deadlock checking is
off in every run, because a bounded behaviour ends when its last ledger closes.

- Pool: one account, two nullifiers and two roots let notes compete for one balance,
  replay a nullifier and evict a root (a history of one). A capacity of 5 is the least at
  which one deposit carries the fill from normal over the warning level to critical. Two
  ledgers pass an expiry and a timelock of one ledger.
- Registry: two accounts are each creator and relayer; three ledgers pass a deadline, the
  ledger after it and a cooldown; reports take nothing or more than a stake. Two jobs
  bonded by one relayer occur in `relayed`.
- Composition: two payloads, and both jobs may ask for the same one.
- ASP: three events give a deposit, a withdrawal and a later deposit in different
  ledgers; two stored manifests are the least that retention can prune from. `MaxTxs`
  is larger than any behaviour needs.
- Relayer node: one job, delivered twice, races the resume pass. One fault, one failing
  read, one crash and two submit attempts can be combined freely. The deadline leaves
  one ledger with headroom, one without, and one after it. The safety properties are
  proved for any number of deliveries; with two at once the run takes too long to repeat
  (1.46 million states, no error).
- Wallet: two accounts; two notes and three transactions let a retried deposit meet its
  late first attempt, a sweep have two chunks, and a job be resubmitted; three leaves leave
  room for a stranger's deposit. One click at a time (`Handlers`): three of the five
  properties are proved for any number, the other two need it.
- Publisher: two holders, one with an attestation that expires; an inbox of two; one
  failure and one null read. Roots last one ledger. With two failures, or with three
  submissions, TLC found no error either (630 thousand and 1.01 million states).
- Scanner: four ledgers in pages of one, the third without announcement, of which the node
  drops the first; two scans with two workers each, one failing request, one reload.

### Fairness

- `registry`: ledgers close, and creators ask for their money back when they may.
  Nothing is assumed of relayers.
- `asp_appeal`: the indexer loop keeps ticking after failures
  (`asp/scripts/indexer.ts` catches and repeats), ledgers close, and the network
  includes some pending transaction. Failures and crashes are bounded, not fair.
- `engine`: the event loop runs each process that can go on, the resume timer
  keeps firing (`startAcceptedJobWatch`), and transactions of each process are
  included. Ledgers need not close: the property says what happens while there is time.
- `publisher`: `runPublisherLoop` catches a failing tick and goes on, the network includes
  one of the transactions under way, and ledgers close for ever. Nothing is assumed of the
  order of the three.

Wallet and scanner have safety properties only: what happens next is the user's choice.

## 4. What is proved

TLAPS checks every theorem for all values of the constants, under the named
assumptions of the modules (the contract's address is no account, bounds and sizes
are natural numbers, divisors and limits are positive; for sums, that the accounts and
job numbers of a behaviour are finite sets).

The types of the pool and of the relayer node are proved here and not among the runs.

**`PrivacyPoolProofs`.** `TypeCorrect` is inductive by itself. `FundsInv`
(types, custody, leaf indices, nullifiers) is inductive: custody needs that `withdraw`
checks `tot_wd + value <= tot_dep` and pays `value - fee` and `fee`, which together
are `value` even when the recipient or relayer is the pool (`PayOutBalance`). It gives
`CustodyHolds`, `LeafIndicesHold`, `NullifiersHold`. `RootsInv` adds that no stored
ledger number lies in the future, without which a publication need not be the freshest;
it gives `LatestRootHolds` and the action properties `PublishedRootsHold` and
`PauseHolds`. `AlertHolds` needs that the fill in basis points never falls as leaves are
added (`DivMonotone`), so that the stored level, which is only ever replaced by a higher one,
is the level of the fill.

**`RelayerRegistryProofs`.** `RegistryInv` is types, `PendingIsLocked` and
`JobNamesItsRelayer`; the three are proved together because a slash reads the record of
the relayer a job names. It gives `RegistryTypeCorrect`, `RecordsHold`
and `JobsFinalHolds`.

`Solvent` and `BondedIsAcceptedFees` are about sums over relayers and jobs, which the model
takes from the library's folds. The same module proves what is needed of them: a sum over a
finite set is a number, any element may be taken out of it first, and one changed element
changes it by as much. The provers cannot use induction rules that have an operator as a
parameter; `SubsetInduction` is proved instead from the well-foundedness of the natural
numbers, by a smallest counterexample, with the claim given as a set. Both properties are
written as books (`Balanced`, `BondsMatch`) of the balance, the records and the jobs, and for
each entry point it is shown how it carries an amount from one book to another: a fee from its
creator to escrow, from free to bonded stake at `accept_job`, out of both at a submission.
`BooksInv` is `RegistryInv` and the two properties; it gives `SolventHolds` and `BondsHold`.

**`RelayedPoolProofs`.** The composition inherits what was proved of its parts. Every step of
`RelayedPool` is seen by each contract: the registry's own calls are, to the pool, a change
of other accounts' balances at most (`RegistryOnly`), and `submit_pool_withdraw` is
`withdraw` of the pool and, to the registry, its own action with the balances the pool left
(`Relays`). With that the invariants of `PrivacyPoolProofs` and `RelayerRegistryProofs` hold
of the composition (`BothSolventHolds`). `SubmittedIsSpent` adds that the note of a submitted
job is spent, so a second submission fails in the pool: `OneFeeHolds`. `SubmittedHolds` is the
action property.

**`RelayerEngineProofs`.** `TInv` adds to the types which job and transaction a process has at
each place; it gives `EngineTypes`. `BInv` adds what makes a bond safe:

- `queue = disk`: with a store that saves, memory and file agree after each step;
- `Covered`: a job that an `accept_job` under way may still bond has its entry on disk,
  until somebody has taken the job;
- `MarksAreTrue`: an entry is marked accepted only when the job is no longer open, so
  the resume pass may go straight to the submission, or give the entry up for lack of
  headroom, without an `accept_job` still to come;
- `PassHolds`: the pass knows the phase of each entry it has yet to look at, and entries
  it holds are covered;
- `Knows`: what a process has established at a place, e.g. that the job is submitted
  before its entry is resolved.

Together they give `BondsAreOnDisk`, `CompletedJobsAreSubmitted` and, step by step,
`EngineKeepsPromise`: the engine implements `BondedJobs`. These three assume
`SaveWorks`; `EngineTypes` does not.

**`AspIndexerProofs`.** `Types` (with `Known`: a PoolState speaks of leaves the pool has) is
inductive by itself. On top of it:

- `DecidedOnceHolds`: the lists of the store and of the tick have no deposit twice (`Once`),
  for every policy and with appeals at any moment.
- `StateRootsHold`: `RootsInv` says that the leaves a tick has merged are an initial part of
  the log once the check for holes has passed, and that every state root under way is one.
- `RootServedHolds`: `Places` says how far down the newest manifests the root on chain and the
  roots that may still land can be: each failed tick and the publication under way push them
  down by one, and a state transaction that competes for the sequence number leaves a place
  over. The property is this with `failures + 2 <= MaxSets`.
- `NoDepositForgottenHolds`, for policies that never defer (`NoDefers`): `CoverInv` says that
  ledgers in the log ascend, that deposits behind a cursor are decided, and that a batch has,
  with a deposit, all from the cursor to its ledger. With deferrals the property is false in
  general, which run `asp_deferred` shows; run `asp_appeal` has deferrals of the last deposit.
- `AspRootGrowsHolds`, for a policy that always gives the same answer and without appeals
  (`Steady`, `Appeals = {}`): `GrowsInv` says that every association set on chain or under way
  lists all approvable deposits up to its last one, in order, and that a tick under way
  approves again what a lost tick had sent; so whatever lands contains what is there. An
  appeal inserts an index in the middle, and a policy that changes its mind after a crash
  takes one away: the hypotheses are needed.

**`ScannerProofs`.** Four theorems for any number of scans and workers, any page size, chain
and retention: `NoPageIsOrphanedHolds`, `CursorIsCoveredHolds`, `GapsAreReportedHolds`,
`UpToDateHolds`. `ScannerInv` has three parts:

- `Shape`: the pages of a scan follow each other without a hole (`Paging`); a page once
  dispatched is flushed, awaited, buffered or being flushed, unless the scan has failed
  (`Accounted`); pages wait for requests in flight and every request has a page that waits
  (`Awaited`, `Wanted`); the recorded ranges are sorted, do not meet and are no longer served.
- `CursorInv` and `GapsInv`: one predicate, `Cov(E)`, says of the cursor, of what every scan
  has read, buffered or flushed, and of every request that the announcements behind it are in
  the cache or in the excuse `E`. With `E` the ledgers the node no longer serves it gives
  `CursorIsCovered` and `UpToDateIsTrue`; with `E` the recorded ranges, `GapsAreReported`. The
  steps are gone through once for both: they need only that the excuse never shrinks while
  somebody relies on it.

The merge of the recorded ranges is a fold over the set of them, the last one first.
That the fold is defined by its equation, and that the merged list holds just the ledgers of
the ranges, is shown by `SubsetInduction`.

**`PublisherProofs`.** `ManifestTheorem`: `UsableRootHasManifest` is not inductive, since a
transaction under way makes a root usable when it lands, perhaps after a crash; the
invariant `ManifestInv` adds `SentHasManifest`, that the root of each of them has its
manifest. `Publish` keeps it because it writes the manifest before it sends, and no step
deletes a manifest.

`LeavesKeepOrderHolds`: leaves are saved many steps after they were looked up. `OrderInv`
follows the tick (`Kept`): the leaves kept so far are in the order of the file; a leaf that
was looked up and not kept was read as null or has ended; and an inbox entry found valid that
is a leaf already is one that was kept, or was read as null, because an attestation that has
ended never comes back. `MergeFacts`, again by `SubsetInduction`, says that `mergeLeaves`
keeps the existing leaves in their places, appends entries of the inbox and has no id or leaf
twice.

**`PoolWalletProofs`.** `WalletInv` gives three theorems for any number of accounts,
clicks, notes, transactions and reloads: `NotesAreRealTheorem`, `BackedUpTheorem` and
`ConfirmedTheorem`. Its parts:

- `Shape`: the types, and that a handler that waits has a transaction;
- `Stored`: what is true of the notes in memory is true of the copy on disk and of every
  write still encrypting, so that hydrating or finishing a write keeps it;
- `Landed`: a deposit that was included is at the leaf it was made for;
- `Waits`: the transaction a handler waits for is its own, with its secrets and leaf;
- `Backed`: secrets of a verified session, of a running deposit and of every deposit sent
  are backed up;
- `Plain`: without encryption the disk is in step with memory and holds no ciphertext.

`PageInv` gives two more, `SpentTheorem` and `SecretKeptTheorem`, which assume one click on
"Confirm & Sign" at a time (`OneClick`) and speak of users who cancel no deposit:

- `Settled`: a job that was submitted and a withdrawal that was included have spent their
  secrets;
- `Alone`: a deposit runs for the session of the dialog, and none beside a withdrawal;
- `Kept`: the secrets of every deposit that was sent are in the verified session or in a note;
- `Copies`: no copy of the store marks a note whose secrets are not spent;
- `Links`: the selected note, the job kept as a draft, the running withdrawal and its
  transaction are about the same secrets. This is what edits of the form could break: the
  effect that forgets the draft, and the page that is locked while a withdrawal runs, keep it.

Without `OneClick`, `DepositSecretKept` is false: see section 5.

**Only model-checked.** The liveness properties (`JobsSettle`, `ApprovedReachesChain`,
`AcceptedFinishes`, `AckedIsVerifiable`, `EndedStopsVerifying`, `RootIsRenewed`): the provers
have no support for fairness and `ENABLED`. Every safety property of a passing run is proved,
under the hypotheses named above.

## 5. What is not modelled

- Cryptography: proofs, hashes, signatures, payload encryption, key derivation.
- Storage TTLs and archival of ledger entries; integer overflow of i128 amounts and u32
  ledger numbers (the release profile traps, and a trap reverts the call).
- ASP: an RPC node that has dropped old events, the publication monitor and metrics, the
  read-only manifest service.
- Relayer node: adverts and bids, the idempotency cache, failed outcomes and statistics,
  scheduled reconciliation, heartbeats.
- Relayer hub: an in-memory board of adverts, bids, assignments and scores. Neither the
  chain nor the node acts on what it says, and a restart empties it.
- Publisher: quarantine of malformed files, signatures, authentication, rate limits,
  snapshots, metrics. `minLeavesToPublish` is 1, its default.
- Wallet: export, import and wipe of notes, the list of optimistic deposits (display), the
  choice among bids. At most one withdrawal flow runs at a time.
- Scanner: matching announcements with keys, the watchlist, progress; a window is taken to
  be answered by one `getEvents` call.
- Sequential contracts that no modelled part reads: the multisig admin, the schema and
  stealth registries, and the issuing and governance calls of the attestation engine. Each
  call is a guarded assignment to one contract's storage and the unit tests reach its cases.
- Most lines of the repository are user interface, conversions, cryptography, deployment
  and tests' tooling. They have no control a model checker would say more about than the
  code does, which is why the models cover a small share of the lines.

Observations made while reading, which no run states:

- `withdraw` inserts a leaf that the capacity guard does not count
  (`contracts/privacy-pool/src/lib.rs:649`).
- `withdrawal_admin` is set once and does not follow `transfer_admin`
  (`contracts/privacy-pool/src/withdrawal.rs:58`, `lib.rs:422`).
- `slash_job` can take the fee from the bond and also lower `pending_unstake`
  (`contracts/relayer-registry/src/lib.rs:491`; `docs/relayer-operator-economics.md:53`).
- The reorg guard also halts after a tick that failed before its save
  (`asp/src/engine.ts:139`, `asp/src/reorg-guard.ts:3`); a restart clears it.
- An unchanged set is never published again, so the root of a quiet pool expires
  (`asp/src/engine.ts:162`).
- The resume pass accepts an open job before it looks at the deadline, and may then
  abandon it bonded (`relayer/src/engine.ts:472`, `486`).
- The resume pass drops an intent when the job cannot be read (`relayer/src/engine.ts:479`).
  `BondIsOnDisk`, `KeepsPromise` and `AcceptedFinishes` except such jobs (`unseen`).
- The resume pass reports a job as completed that another operator submitted
  (`relayer/src/engine.ts:454`).
- A crash between `resolve` and the ledger record loses the record
  (`relayer/src/engine.ts:341`).


Pool wallet (`frontend/src/`):

- Notes are shown and spent across accounts, but `markSpent` marks those of the active
  account only (`components/PoolView.tsx:267`, `store/poolNoteStore.ts:73`).
- A retry after a deposit that was reported as failed uses the same secrets, so a first
  attempt that lands late leaves two leaves with one nullifier, of which one can be
  withdrawn. `components/PoolView.tsx:1180` says "Failed deposits are automatically rolled
  back. Your funds remain in your wallet."
- Closing the dialog while the transaction is signed drops the session; the deposit may
  still land, and when the handler ends it clears `busy` under a running withdrawal.
  `SpentIsSpent` and `DepositSecretKept` except canceled deposits.
- The page is busy only once the leaf index was read (`components/PoolView.tsx:471`). Of two
  clicks on "Confirm & Sign" before that, the handler that ends last clears the session: with
  two `Handlers`, TLC finds a deposit on chain whose secrets are neither in the store nor in
  the dialog. The two properties are about one click at a time.
- After a reload with encryption on, the store hydrates as empty and the first
  `setActiveAccount` writes that over the encrypted notes (`lib/encryptedStorage.ts:184`,
  `hooks/useAccountScope.ts:16`); `components/StorageEncryptionSettings.tsx:55` says "Enter
  your passphrase on each visit to decrypt."
- A sweep whose chunk lands after polling gave up has no note
  (`lib/poolSweep.ts:229`); the comment at line 202 says "an interrupted sweep never loses a
  note".
- The draft of a relayer job lives in the page only; after a reload or an edit of the form
  its escrow can no longer be recovered from there.

Publisher:

- A submission with the id of one the tick has read is archived with it, although it was
  acknowledged (`publisher/src/store.ts:126`).
- An attestation that cannot be read counts as ended: the leaf is pruned, or the inbox
  entry archived (`publisher/src/engine.ts:112`). `AckedIsVerifiable` excepts it.
- Pruning moves the leaves behind a pruned one, although `publisher/src/engine.ts:76` calls
  the order append-only. A leaf that once read as null and was submitted again in the same
  tick moves to the end; `LeavesKeepOrder` excepts such leaves (`blinded`).
- When the last leaf is gone after a failed publication, only its expiry ends the old root
  (`publisher/src/engine.ts:150`).

Announcement sync:

- A cursor past the last cached announcement is taken for a gap, also when the last ledger
  merely has none; the reset drops the recorded unscanned ranges
  (`frontend/src/hooks/useScanner.ts:557`), although `lib/opaqueCache.ts:35` says they are
  "Persisted so incremental syncs keep reporting it."
- `clearClusterCache` is two transactions; a reload between them, or a full rescan beside
  another scan, leaves a cursor past announcements that were deleted. `CursorIsCovered`
  excepts those (`lost`).
- The mount effect clears the sync state of a cache that is merely up to date
  (`useScanner.ts:714`).

Multisig admin: approvals stored before a rotation count after it
(`contracts/multisig-admin/src/lib.rs:370`), and a proposal that every remaining signer has
already approved has no call left that would execute it after the threshold is lowered.
