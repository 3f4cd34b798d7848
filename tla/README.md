# Veil Protocol: TLA+ verification project

This directory models the Veil Protocol, a private reputation protocol on Midnight
(`packages/`), in TLA+. TLC checks the models on small instances and TLAPS proves the
properties that matter most for every value of the constants. `PROJECT.json` lists the runs,
the source lines each definition models, the hazards of the code and the theorems.

Paths below are relative to the repository root.

## The system

| Component | State | Operations | Interacts with |
|---|---|---|---|
| Identity circuits, `packages/contract/src/modules/Identity.compact` | identity map, identity tree, replay set | `register`, `assertActive` | called by the SDK; `prove` and `check` read the map |
| Reputation circuits, `Reputation.compact`, with the witnesses of `witness.ts` | reputation tree, replay set; each client's private reputation records | `prove`, `check` | read the live score config; witnesses read the client's ledger snapshot and private state |
| Governance circuits, `Governance.compact` | score config, pending config, supported namespaces and policies, replay set | `proposeScoreConfig`, `applyScoreConfig`, `cancelScoreConfig`, `addSupportedChainNamespace`, `addSupportedReaderPolicy` | change what `register` and `prove` accept |
| Helpers, `Utils.compact` | none | validation, score, band, weight, hashes | every circuit |
| DUST sponsorship, `packages/backend/src/services/contract-service.ts`, `wallet-service.ts` | lease records and rate limits in MongoDB, the sponsor wallet's UTXOs, an in-memory lock | `sponsorDust`, reclaim loop, pool maintenance | HTTP requests, an interval timer, the chain |
| Backend start-up, `packages/backend/src/index.ts`, `contract-service.ts` | the saved deployment, the active contract address | configure, find, deploy, serve, exit | chain, operator's configuration |
| Transaction queue, `tx-queue.ts` | job documents in MongoDB, tasks in memory | enqueue, drain, run | (exported; no route uses it at this commit) |
| SDK derived provider, `packages/sdk/src/providers/derived.ts` | one wallet, the active circuit and the last transaction id of all calls | join, `callTx`, DUST gate | contract, sponsor, browser |
| SDK identity, readers, check, sponsor client | none or per call | register flow, signal collection, batch checks, sponsor requests | provider, third-party APIs |
| Saved wallet state, `idb-wallet-cache.ts` of the SDK, `midnight-wallet-provider.ts` of the CLI, `wallet-service.ts` | one entry per key: IndexedDB, a file | restore, save by timer, save at stop | every wallet provider of the machine |
| React hooks, `packages/react/src` | component state | load, register, prove, check | SDK |
| CLI, `packages/cli/src/index.ts` | LevelDB private state | deploy, join, menu of calls | contract; other processes on the same database |
| CKB lock script, `veil-ckb-contracts/contracts/veil_sbt_lock` | none | one predicate | CKB chain |
| Dashboard, `packages/apps/veil-ui/pages/dashboard.tsx` | page state, a cache per account in localStorage, backups | connect, sign, register, prove, export, import | wallet, chain |
| Other applications, `packages/apps` | presentation | | SDK, React |

Hard behaviours: a circuit runs on the client against a snapshot and lands later, so witnesses
are stale when its effects apply; a client stores its private state after the call, all of it;
clients crash and lose their store; clocks are skewed; governance changes the config in
between; the backend interleaves an interval loop with requests over documents it re-reads,
and submits chain transactions between two database writes. Around these, everything a page
does is asynchronous: answers arrive after the account, the Veil ID or the page they were asked
for has changed, submissions time out and land all the same, and processes exit between any two
awaits.

What makes each component correct:

* identity: one record per Veil ID, each registration accounted for in the replay set;
* reputation: no update is applied twice; bands are earned under the config in force; an update
  supersedes exactly the identity's previous leaf; a decision comes from a committed record, a
  live one unless an update was racing it; clients hold only what landed;
* governance: no invalid config is ever in force, every operation consumes a fresh id and
  nonce, the timelock delays;
* sponsorship: at most one live lease per address, every UTXO registered for a user covered by a
  lease, leases reclaimed after they expire and never before, the pool recovered in the end;
* queue: each job is executed at most once, one at a time, no success is reported of a task that
  did not return, and without a fault every accepted job is finished;
* start-up: the contract served is saved and on the chain, and exits never make the backend pay
  for a second one it keeps;
* rate limit: an address passes no more often than its maximum allows;
* provider: a caller gets the answer to its own call, and the DUST the gate promised it;
* hooks and gate: what is shown is of the account or Veil ID that is shown;
* dashboard: the same, of the page and of what it caches; no button stays disabled for good;
* CLI store: the operations of a process never lock one another out, and every one settles;
* reader: the contract accepts what it collects, and derives the band that is answered;
* saved wallet state: a wallet is restored from its own account's state.

## Modules

| Module | Models | Notes |
|---|---|---|
| `ScoreUtils` | the pure circuits: `assertScoreConfigValid`, `assertSignalBounds`, the weighted score, `deriveBand`, `deriveCommunityWeightBps` | no state |
| `VeilLedger` | the ledger declarations, structs, replay keys, the witness clock, block time | variables shared by the contract modules |
| `Identity` | `register`, `assertActive` | one landing step |
| `Governance` | the five governance circuits | one landing step each |
| `Reputation` | `prove` and `check`, their witnesses, and the client's side of a call | several steps per call |
| `VeilContract` | constructor, `Next`, `Spec`, all properties | composes the above |
| `ReputationRegistry` | what a client that is alone may think of the contract: one reputation per identity | abstract; `Registry == INSTANCE ReputationRegistry WITH ...` in `VeilContract` |
| `MCVeilContract` | values for TLC, the default score config of the SDK | |
| `VeilContractProofs` | theorems and their proofs | |
| `SponsorWallet` | the sponsor wallet's UTXOs, its pending transactions, what it sees of them | `wallet-service.ts` and the chain |
| `SponsorService` | `sponsorDust`, the reclaim sweep, maintenance, pool splitting; all properties | extends `SponsorWallet` |
| `MCSponsor` | values for TLC | |
| `RateLimiter` | `assertSponsorScope`, `assertSponsorRateLimit` | what a request passes before it queues for the lock |
| `DeployService` | `main` of the backend, `initContractAddress`, `deployContract`, `saveDeployment` | exits at every await |
| `JobQueue` | what a queue promises | abstract; implemented by `TxQueue` |
| `TxQueue` | `enqueue`, `drain`, `runTask` of `tx-queue.ts` | `Promise == INSTANCE JobQueue WITH status <- jobs, execution <- execution` |
| `DerivedProvider` | `callTx`, the DUST gate, the sponsor's client, `withTimeout` | the provider of one page |
| `VeilHooks` | `useIdentity`, `useReputation`, `VeilRegister`, `useReputationCheck`, `VeilGate`, and the SDK flows they call | extends `DerivedProvider` |
| `WalletCache` | the saved wallet state of the SDK, the CLI and the backend | one module for the three, which differ in the key |
| `Dashboard` | the dashboard page | |
| `PrivateStateStore` | `serializePrivateStateProvider`, `withLevelDbLockRetry` of the CLI | |
| `SignalReader` | the default reader, `proveReputation`'s estimate | extends `ScoreUtils` |
| `MCComponents` | values for TLC; `part` chooses the component that steps | they share no state |
| `SponsorProofs`, `BackendProofs`, `TxQueueProofs`, `DerivedProviderProofs`, `DashboardProofs`, `PrivateStateStoreProofs`, `SignalReaderProofs` | theorems and their proofs | `BackendProofs` is about `RateLimiter` and `DeployService`; `DerivedProviderProofs` also about `WalletCache` |

State and code correspond as follows. Ledger fields keep their names. A `HistoricMerkleTree`
is the sequence of everything inserted plus the set of erased indices, which determines its
present leaves, its `firstFree` and every earlier leaf. Hashes and commitments are the record
or tuple they bind, so they are equal exactly when their inputs are (collision freedom is
assumed). `kernel.self()` is the same in every key of one contract. `privateState[c]` is the
client's `reputationScores`. `proposalBlock` and the field `firstFree` of a check call are
history: no action reads them.

A Reputation call is several actions:

1. `ProveCall` / `CheckCall`: local execution against the ledger the client sees. Every
   assertion is evaluated, witnesses answer from the private state and the snapshot.
2. `LandProve` / `LandCheck`: the transaction is applied to the ledger of that moment. Assertions
   over ledger values hold again (a transaction whose recorded reads disagree is rejected);
   witness values are those of step 1. `findPathForLeaf` gave a path of an earlier tree, and
   `checkRoot` of a historic tree accepts it. `insert` uses the tree's real next index, while
   `mtIndex` in the record is what `firstFree()` had answered in step 1.
   `Discard` is a transaction that never lands.
3. `StorePrivateState`: `callTx` returns and the private state the execution produced replaces
   the stored one. `Close` drops this step for calls in flight, `JoinFresh` is a client that
   joins again without its store (`createVeilPrivateState`, `derived.ts:583-618`).

`register` and the governance circuits only depend on ledger values their assertions mention
and on the prover's clock, so executing and landing them is one step with a clock reading `t`
constrained by the proof window.

DUST sponsorship is two workers over the lease collection and the wallet: the request that
holds the allocation lock, and the maintenance the interval starts (single flight). Each action
is the code between two awaits; `pc[w]` names what worker `w` awaits.

* request: `FindExisting` (reuse, prolong or allocate) → `Extend`, or sweep → `Select` →
  `Submit` → `Recognise` → `Insert`; `NotSponsored` is a null result, after which the request
  sweeps and tries once more;
* sweep, the same for both: `Find` → for each lease `Mark` → `Look` → (`Generate`) →
  `Deregister` → `Settle`, then `Pool` and `Split` when splitting is on;
* `SettleFails` is a database error at the update that settles a reclaim, which the `try` catches:
  the failure is about to be recorded. `Abort` is a database error outside any `try`, that of the
  `catch` block among them. `Restart` is a stopped process: the leases and the chain remain,
  everything in memory is lost.

A UTXO id is a coin and a version, since registering, deregistering and splitting all spend the
UTXO and make another. A submitted transaction lands later, or never (`MayDrop`); its inputs are
booked in the wallet until then. Amounts are abstracted: `Select` takes any set of free UTXOs,
and whether there is DUST enough for a fee is a choice. Time is relative, so no clock is bounded:
`left` counts down to `expiresAt`, `idle` up from `updatedAt`, `age` up from the request's `now`.
`selected` and `extended` of a lease are history. A dedicated sponsor wallet is assumed, as
`packages/backend/README.md:42` asks for; with a shared one the operating wallet would register
UTXOs as well.

In the other components, too, an action is the code between two awaits. What its closure has
captured is in a record (`requests`, `drains`, `calls`, `ops`), what it shares with others in a
variable of the source's name (`processing`, `activeCircuit`, `lastSubmittedTxId`).

* `RateLimiter`: a request charges the counter of its DUST address and then that of its IP, each
  with a `Read` and a `Write`. Reading, deciding and writing take at most `MaxDelay` in all, which
  `RateAssumption` puts at a third of the window at most (the default window is ten minutes). The
  TTL index removes a document some time after its window ended. `windows`, `charges`, `passes` and
  `raced` are history.
* `DeployService`: `phase` is what the process awaits; `ExitProcess` is an exit at any of them, by
  an error or otherwise, and `StartProcess` the next start, with whatever address is configured
  then. A submitted deployment may land later, and after the process is gone. `served` and
  `abandoned` are history.
* `TxQueue`: jobs are documents, tasks are in memory, and `drains[job]` is the drain that the
  enqueue of `job` started. Every update may fail. A drain that is rejected is nobody's to catch:
  the process exits, Node's default, or goes on.
* `DerivedProvider`: a call is proved, asks for DUST when it sees too little, balances, submits and
  waits; the sponsor may refuse or not answer, waiting and submitting time out, and a submission
  that timed out may still land. `overlapping` is history.
* `VeilHooks`: an effect or a click starts a flow (`preparing`), whose call goes through
  `DerivedProvider`; `continuations` is what follows the call's answer. The account and the Veil
  ID shown may change at any time. An error is told from the others by its message, as the code
  does it. `strayed` is history.
* `WalletCache`: a provider is at its read, its join, running or stopping, with the seed of its
  keys and the seed whose state its wallet has. Reading may fail, writing may fail, pages are left
  with their last save made or not. How far a wallet has synchronised is not modelled.
* `Dashboard`: `ops` are the operations in flight with what they captured. A wallet is connected
  when none is, or in place of the one that is. An import takes any file of this version and
  network: the page's own export, or one of `OtherBackups`, which may be of another contract, since
  `contractAddress` is not compared; a file that does not parse makes the operation fail. A
  transaction or a proof is represented by the account it is of. Two marks are history. `own` is
  false of the other backups and of what follows from them: of an entry exported by a page that
  is `mixed`, and of progress made with a transaction such a page showed. The page is `mixed` when
  what it shows was set, since the account was activated, by an operation of another account or from
  what is not own. A failed registration whose message contains "already" and "register" is taken
  for one made before; of the messages in the repository that is the contract's "Identity already
  registered" alone, and a library's are taken not to contain both.
* `PrivateStateStore`: each process's promise chain is `queue`; the database admits one operation
  of one process. A process may be killed while it holds it. `blockers` is history.
* `SignalReader`: EVM chains answer in any order, with transactions or without, or fail; of time,
  only the change of week matters.

The behaviour of the platform (re-evaluation of ledger reads when a transaction is applied,
historic roots, the private state being stored after finalization) is external to the
repository; it is modelled from how `packages/contract` and `packages/sdk` use it and marked
`external` in the map. So are MongoDB, LevelDB, the wallet SDK and the clock.

## Runs

All contract runs use `CHECK_DEADLOCK FALSE`: a contract whose nonces and operation ids are used up, at
the last block time, has nothing left to do. So do the runs of `MCComponents`: calls, jobs, exits,
events and saves are used up.

| Run | Instance | Properties |
|---|---|---|
| `contract_race` | 2 identities, 2 clients that may close or lose their store, 2 call slots, 2 nonces, requested bands 3 to 5; `CONSTRAINT ChecksAlone`: checks are made while at most one identity is registered | `TypeOK`, `NoReplay`, `PrivateStateLanded`, `IndexNotAhead`, `ErasedIsSuperseded`, `DecisionBacked`, `CheckFresh` |
| `contract_solo` | 1 client with 1 call slot, 3 signal records (two exactly at thresholds, one over the maximum), zero hashes among the arguments; 2 operation ids and governance nonces, a valid and an invalid config, timelock 2, clocks skewed by 1, block times 0 to 2; checks for band 2; `CONSTRAINT ChecksEarly`: checks are made before time 2 and before the council acts | `ReplayAccounting`, `BandEarned`, `OwnRecordLive`, `OneLiveLeaf`, `ConfigsValid`, `DelayLessWindow`, `RegistryKept` |
| `contract_timelock` | governance only | `FullDelay`, violated |
| `contract_overlap` | 2 clients, 3 updates | `ErasesVerifiedLeaf`, violated |
| `sponsor_safety` | 1 address, 2 coins, 2 leases, 1 attempt, 1 fault | `TypeOK`, `OneActiveLease`, `ActiveLeaseIntact`, `FirstTermRespected` |
| `sponsor_pool` | the same with 1 coin to begin with and splitting on | `AttemptsBounded`, `LeasedUtxosDisjoint` |
| `sponsor_liveness` | 1 address, 1 coin, 2 leases, 2 attempts, 1 fault, sweeps that take one lease; `FairSpec` | `ExpiredLeaseSwept`, `ReclaimConcluded` |
| `sponsor_term` | 1 address, 1 coin, 1 lease, no fault | `TermRespected`, violated |
| `sponsor_record` | same | `RecordedForReclaim`, violated |
| `components` | each component of the table below by itself | see below |
| `gate_decision` | the gated page: 2 Veil IDs, 3 calls | `GateIsForShown`, violated |
| `wallet_seed` | the saved wallet state: 3 seeds, 2 keys | `WalletOfSeed`, violated |

The run `components` starts in one state per `part` (several for the pages and the reader), and
only that part steps:

| `part` | Instance | Properties |
|---|---|---|
| `queue` | 3 jobs, 2 faults | `TasksAttended`, `QueuePromise`, `QueuedFinishes` |
| `rate` | 3 requests, 1 address and 1 IP, maxima 1 and 2, window 3, delay 1, times 0 to 3 | `WindowKept` |
| `deploy` | 3 addresses to deploy at, 1 configured, 2 exits | `OneContractKept` |
| `register` | a page with `VeilRegister`: 3 calls, 2 Veil IDs, 1 account change, no DUST to begin with, fee 2 | `AnswersOwnTxId`, `GateSuffices`, `RegisteredIsReal`, `DerivingEnds` |
| `gate` | a page with `VeilGate`: 3 calls, 2 Veil IDs, DUST for one call at a time | `DecisionIsForShown` and the first two of the above |
| `dashboard` | 2 accounts, 2 operations in flight, 2 events: changes of a connected account, exports, imports, reloads | `BusyAttended`, `PageShowsOwn`, `CacheTruthful` |
| `store` | 2 processes, 3 operations, 2 retries | `LockedOutByOther`, `OperationsSettle` |
| `reader` | up to 21 chains | `WitnessAccepted` |
| `wallet` | 3 seeds, two of which share a key, 2 providers, 2 saves in flight | `WalletOfKey` |

Why these bounds: the races of Reputation need two calls in flight and one more update after
them, so two slots and two or three nonces reach all of them (each nonce allows one landed
update per identity); two identities are needed for one to disturb the other. `contract_solo`
has a window of one tick, so a proof may expire or be caught by a config change, and its time
reaches the timelock, so that a proposal made with a clock one behind comes into force early and
one made on time in time; its two operation ids allow a proposal and its cancellation or a second
proposal. `ChecksAlone` cuts executions where checks meet two identities: a check reads the record
and the tree path of one identity, and updates of two clients of that identity still overlap it;
without checks both identities race. `ChecksEarly` cuts executions where a check meets a later time
or a governance operation: `check` reads neither the clock nor the config, so of those it only
repeats what it did before; without checks governance and updates run to the end. Symmetry sets
contain only model values that no constant singles out, and under symmetry only invariants,
`DelayLessWindow` and `RegistryKept` are checked; the last two have no liveness part, so TLC checks
them on every transition.

The sponsorship runs need two leases so that one can be reclaimed while another is handed out
(an older lease of the same address, since at most one is active), two coins so that requests and
sweeps compete for them, and two attempts only where a retry matters. Terms and staleness of one
tick suffice because only "over" and "not over" are compared. Requests that wait behind the lock
holder change nothing until they hold it, so one at a time is in the service. Deadlock is
checked in these runs.

The liveness run has two leases: a third one takes it out of TLC's reach, so that no more than one
other lease is in the way of an expired one is a bound of that run.

Of the components: three jobs are one that is executed, one that waits and one that is being
inserted, and a second fault may hit what the first one left. Two requests race a counter, the
third comes after them; the window ends within the times given, and the delay is as long as
it may be. Two exits leave one deployment
abandoned before it landed and one after. Three calls are two that overlap and one whose
submission may be given the late answer of an earlier one; one account change lets every
flow answer to the wrong account. Two events of the dashboard are a change of account while an
operation is in flight and one back, or an import and a change. 21 is the largest number of chains for which `WitnessAccepted`
holds. Two seeds with a common key and one with its own tell the keys from the seeds.

What they show of the contract:

* whatever is interleaved, closed, lost or discarded, no update is replayed, clients only
  store landed records under their own identity, and only allocated leaves are erased;
* a check that no update races answers from a live leaf, and any check from a committed one;
* a client that makes one call at a time keeps exactly one live leaf per identity and can
  always prove the membership of the record it stores. `OwnRecordLive` and `OneLiveLeaf` need
  that assumption: they fail with two updates in flight, which `contract_overlap` shows in
  the form of the erased leaf;
* to such a client the contract is a `ReputationRegistry` (`RegistryKept`): whatever governance
  does meanwhile, an update that lands replaces the reputation its identity has at that moment, a
  check answers from the reputation of that moment, and nothing else changes either. The tree, the
  erased indices, the client's store and the calls in flight are details: the reputation is
  the live leaf, and `OneLiveLeaf` is why there is only one;
* `FullDelay`: `executableAtEpoch` counts from the proposer's clock, so the documented delay can
  be short by the proof window (900 s); `DelayLessWindow` is what does hold;
* `ErasesVerifiedLeaf`: the leaf `prove` erases need not be the commitment it has verified,
  because `mtIndex` is the snapshot's `firstFree()`.

And of the sponsorship:

* an address never has two active leases, and what an active lease has registered stays
  registered, with two exceptions the configurations exclude: a pool split between its check and
  its transfer may spend a registered UTXO (splitting is off by default), and a deregistration
  that was dropped makes its UTXO look newly registered to a request in progress (`MayDrop`);
* attempts exceed the maximum by at most one, when both sweeps hold the lease;
* `TermRespected`: a prolonged lease may be reclaimed within its new term;
  `FirstTermRespected` is what does hold;
* `RecordedForReclaim`: a registration that shows late is on no lease and stays for good;
* as long as maintenance returns, an expired lease is always swept in the end, and a begun reclaim
  concluded, with two leases and sweeps that take one. The fairness is of the interval, whose query
  is answered (`setInterval` runs as long as the process does), and of time. Nothing is assumed of the
  chain or of requests, and a reclaim may fail each time. That maintenance returns, again and again,
  is a hypothesis of the two properties (`MaintenanceReturns`) because the code does not
  guarantee it: a sweep waits for the wallet to synchronise (`waitForSyncedState`) and to submit
  without a timeout, and `runSponsorMaintenance` starts no other one meanwhile, so a wait that never
  ends stops all sweeping of the interval.

No liveness is claimed of the contract: nothing in it is scheduled, every step is somebody's
decision, so no fairness is assumed.

And of the other components:

* `TxQueue` implements `JobQueue` whatever fails. The converse of its last promise is not one: a
  job whose task returned may be reported failed, when the update that records success fails
  (`tx-queue.ts:109-122`). Tasks are left without a drain only after a fault, until the next
  `enqueue`; after a restart queued jobs are never run;
* requests of one key that overlap lose counts, so the maximum may be passed by any number of
  them. The others pass less than three times the maximum in any window's length: the end of one
  window, a second, and the beginning of a third, because a request that was delayed beyond the end
  of its window begins the next one in the past. Twice the maximum would be what a fixed window
  promises;
* exits leave deployments on the chain that nobody serves, but what is served is saved and stays;
* a call that overlaps no other answers with its own transaction id even when earlier ones timed
  out; overlapping calls may answer with each other's and spend each other's DUST
  (`batchCheckReputation` makes such calls);
* an identity shown as registered is registered, unless the account changed while a registration
  was concluded; a page does not stay at "deriving" as long as the waits that have no timeout end;
* `GateIsForShown`: when the check of the Veil ID shown fails, `useReputationCheck` keeps the
  decision about the previous one, and `VeilGate`, which does not look at the error, opens by it.
  `DecisionIsForShown` is what does hold;
* the dashboard is never busy without an operation that is going to end that, whatever account is
  connected over another. Progress is cached for the account whose operation made it, whatever
  account is shown by then, and what is cached has happened on the chain unless it follows from a
  backup or page that was not own. What the page shows is of its account and has happened while
  operations of other accounts are in flight; when one of them answers, the page does show what is
  not its account's, until the next activation of an account. A backup of another contract is
  taken for a registration with this one: the page then goes on to a proof that cannot land;
* an operation on the CLI's store is only ever locked out by another process, and settles;
* the witness of the default reader is accepted for up to 21 chains; with 22 and a change of week
  the score exceeds the maximum and the proof is rejected;
* `WalletOfSeed`: the key of the saved state is the network and the first 40 characters of the CKB
  address, which are the address's prefix and a part of the code hash of its lock script, so
  accounts of one kind share it, and one is given the other's wallet state. The same happens with
  another seed on the same network (CLI) or role (backend). `WalletOfKey` is what does hold.

The fairness assumed of them: the steps of a drain (`QueueFairness`: the event loop settles what
is awaited, and a task that never settles is the task's own doing); the timers of a call and the
code that awaits it (`HooksFairness`: `withTimeout` and the wait for sponsored DUST end, and what
follows a settled call runs); the steps of a store operation (`StoreFairness`: timers fire and
LevelDB answers). The other waits of `derived.ts` have no timeout: for the proof and the fee
estimate, the sponsor's answer, balancing and finalizing, and the confirmation. That these end, in
an answer or an error, is the hypothesis `WaitsAnswered` of `DerivingEnds`, with the wallet's
signature. Nothing else is assumed to happen: not that the user clicks, not that the relay or the
chain takes a transaction, not that a process is started again.

## Proofs

`VeilContractProofs` proves, for all values of the constants that satisfy the assumptions
`MaxUint32Assumption`, `LedgerAssumption` (typing of the constants, and that clock readings fit
in `Uint<64>`) and `ConstructorAssumption` (what the constructor asserts of its arguments):

| Theorem | States | Argument |
|---|---|---|
| `TypeCorrect` | `TypeOK` | inductive as it stands, one lemma per action |
| `ReplayProtected` | `NoReplay` | with `NoncesProcessed`: the nonce key of every leaf is in the replay set, and landing requires a fresh one |
| `StoredStateLanded`, `IndexNeverAhead`, `DecisionsBacked` | `PrivateStateLanded`, `IndexNotAhead`, `DecisionBacked` | one inductive invariant `RecordInv` |
| `ErasureSupersedes` | `ErasedIsSuperseded` | inductive relative to `RecordInv` |
| `ChecksFresh` | `CheckFresh` | `FreshInv`: a check call never knows a larger tree than the ledger's |
| `ConfigsAlwaysValid` | `ConfigsValid` | part of `ConfigInv` |
| `TimelockLessWindow` | `DelayLessWindow` | `DelayInv` relates the pending config's epoch to the block it was proposed in |
| `BandsEarned` | `BandEarned` | `EarnedInv` also covers calls in flight; lemma `BandCountsThresholds` relates the band to a cardinality |
| `ReplayAccounted` | `ReplayAccounting` | `AccountInv` adds that what is counted is finite; lemma `OneMoreTagged` |
| `OwnRecordsLive`, `LiveLeafUnique` | `OwnRecordLive`, `OneLiveLeaf` | `SoloInv`, for one client with one call slot that is never closed |
| `ContractIsRegistry` | `RegistryKept`, a refinement | under `SoloInv`, for the same client |

`PrivateStateLanded` and `IndexNotAhead` are not inductive: a stored record comes from a call in
flight, and an erased index from the record such a call carries. `RecordInv` therefore says of
each call which of its records are committed (its existing record, the state it will store),
which one may still have to land (its own), and that the index of that one does not exceed the
tree. Lemmas state once what every proof needs: only `LandProve` changes the tree
(`OnlyLandProveCommits`), what it does to it (`LandProveAppends`), and that committed records
stay committed (`CommittedGrows`).

`ReplayAccounting` compares sizes of sets, so its proof goes by what one step adds: a fresh key
is one more of its tag and leaves the other tags alone (`OneMoreTagged`), and every circuit
asserts that its keys are fresh before it inserts them.

The last three theorems name their restriction as hypotheses: `Clients = {c}`, `CallIds = {k}`,
`VolatileClients = {}`, with all other constants arbitrary. They say of a client that makes one call
at a time what `contract_overlap` shows to fail otherwise. Neither invariant is inductive, because
between the landing of an update and the end of `callTx` the client's store is behind the
chain. `SoloInv` is therefore about the record an identity has *currently* (`Current`): the one that
has landed and is not stored yet, or else the stored one. That record is a live leaf
(`CurrentLive`), no other leaf is live (`LiveCurrent`), every record names the leaf it landed at
(`NoOverlap`), and a call that has not landed still agrees with the tree and the store it was
executed on (`SoloCall`), which is where the one call at a time comes in.

`ContractIsRegistry` maps the contract to `ReputationRegistry`: `reputation[v]` is the live leaf of
`v` (`LiveReputation`), `spentNonces` the nonce keys of the replay set, `registered` the identities
with a record, `answer` the decision without its history. `LandProve` is an `Update` (it appends
the new leaf and erases the one `SoloInv` says was the identity's), `LandCheck` a `Check` (what it was
executed on is still the live leaf, `LiveLeafIsCurrent`), `register` a `Register`; every other action,
calls, storing and governance included, is a stutter.

`SponsorProofs` proves, from `WalletAssumption` (the coins are finitely many, the owners that
are not users are told apart) and `SponsorAssumption` (typing of the settings):

| Theorem | States | Argument |
|---|---|---|
| `SponsorTypeCorrect` | `TypeOK` | part of `LeaseInv` |
| `SponsorOneActiveLease` | `OneActiveLease` | `LeaseInv`, one lemma per action |
| `SponsorAttemptsBounded` | `AttemptsBounded` | `AttemptsInv`, relative to the types |
| `SponsorLeasedUtxosDisjoint` | `LeasedUtxosDisjoint` | `DisjointInv`, if no submitted transaction is dropped |
| `SponsorActiveLeaseIntact`, `SponsorFirstTermRespected` | `ActiveLeaseIntact`, `FirstTermRespected` | `PoolInv`, if in addition no pool is split |

`OneActiveLease` is not inductive: `Insert` adds an active lease without looking again.
`LeaseInv` adds that a worker past `FindExisting` holds the lock (`LockHeld`) and that its
address has no active lease until it inserts one (`NoneWhileAllocating`); no other action makes
a lease active (`NoNewActive`), a prolonged one included, since `Extend` leaves the status
alone. The type invariant depends on it in turn: `FindExisting` takes the newest of the active
leases, which is well defined because there is one. `AttemptsBounded` is not inductive either,
since a sweep counts a lease it read long before: `AttemptsInv` lowers the bound by one for each
sweep that still has the lease to do.

The three properties of UTXOs have hypotheses because they fail without them, as the section on
the runs says: `~MayDrop` (what is submitted lands in the end) and, for the last two,
`TargetFreeUtxos = 0` (splitting is off, the default). Addresses, coins, attempts, faults and
restarts are arbitrary.

* `DisjointInv`: what a request finds registered after it submitted is new: what is registered on
  some lease was visible before it submitted or is booked by a transaction that spends it
  (`BeforeKnown`), so what it is about to put on its lease is on no other that is still
  registered (`SeenIsNew`). A booking that a dropped transaction gives back is how it fails.
* `PoolInv`: a sweep only holds leases that were prolonged or whose term is over, and of the UTXOs
  it will deregister those unspent are registered (`SweepInv`); a submitted transaction spends
  unspent UTXOs, no two the same, and registered ones only of leases that have ended
  (`PendingInv`); what an active lease was seen to register is registered (`HeldInv`). Together with
  `DisjointInv` a deregistration then spends nothing of an active lease, since its UTXO is on
  no other lease.

The other proof modules, from the assumptions of the modules they extend (typing of the
constants; `DeployAssumption`, `ReaderAssumption` and `WalletCacheAssumption` also tell the null
value apart, and `ReaderAssumption` bounds the chains by 21):

| Theorem | States | Argument |
|---|---|---|
| `QueueAttended` | `TasksAttended` | conjunct of `QueueInv` |
| `QueueKeepsPromise` | `QueuePromise` | the refinement, under `QueueInv` |
| `RateCounterHonest` | `CounterHonest` | `RateInv` |
| `RateWindowKept` | `WindowKept` | `WindowInv` with `RateInv`; lemma `PassedBounded` counts |
| `DeployOneContractKept`, `DeployAddressStable` | `OneContractKept`, `AddressStable` | `DeployInv` |
| `ProviderAnswersOwnTxId`, `ProviderGateSuffices` | `AnswersOwnTxId`, `GateSuffices` | `ProviderInv` |
| `HooksRegisteredIsReal`, `HooksDecisionIsForShown` | `RegisteredIsReal`, `DecisionIsForShown` | `PageInv`, over `ProviderInv` |
| `WalletsOfKey` | `WalletOfKey` | `WalletInv` and `SavesRunning` |
| `ReaderWitnessAccepted` | `WitnessAccepted` | `ReaderInv`, and lemmas that evaluate the score of what it allows |
| `StoreLockedOutByOther` | `LockedOutByOther` | `StoreInv` |
| `DashboardBusyAttended`, `DashboardShowsOwn`, `DashboardCacheTruthful` | `BusyAttended`, `PageShowsOwn`, `CacheTruthful` | `DashboardInv` |

* `QueueInv`: there is one drain (`OneDrain`); the tasks that wait are distinct, queued and
  unexecuted (`TasksFresh`), and not the one the drain deals with, of which its step says how far
  it is (`DrainKnows`); what is started is what the drain awaits (`StartedAwaited`), so nothing is
  started twice or beside another one.
* `RateInv`: a request about to write has a count that is one more than the charges, or begins
  again (`WritesHonest`), and it is the only one to write that counter unless it was raced
  (`OneWriter`).
* `WindowInv`: the charges of a counter that was not raced are told apart by the number of their
  window and their number in it, at most the maximum (`Numbered`); a charge is earlier than the
  end of its window and, but for the delay, later than the end of every earlier one (`InWindow`); earlier
  windows are over, and the document, while there is one, tells the end of the last
  (`WindowsOver`); a request about to write begins a window after the others are over or goes on with
  the last (`WriteInWindow`). So the charges in a window's length are of three consecutive
  windows and are not all of them (`PassedBounded`). `RateAssumption`'s bound on the delay is
  what keeps a fourth out.
* `DeployInv`: what each phase knows of the addresses, that every deployment but the present one
  was abandoned, and that what was served is still saved.
* `ProviderInv`: a call in flight that overlapped no other is alone, and the last transaction id is
  null or its own (`Alone`). That it is not an older one needs the reset at the start of `callTx`
  and that a late answer is dropped.
* `PageInv`: a call that returned was applied, and an applied `assertActive` was of a registered
  identity (`CallsBacked`); a call whose answer a hook awaits is that hook's, and of what the page
  shows if the answer will be shown (`AwaitedIsShown`): a change of account or of Veil ID cancels
  what an effect awaited. A registration is not cancelled; one that was concluded for another
  account is what `strayed` records. The steps of the provider keep both
  because none changes what a call is about (`CallsKept`).
* `WalletInv`: the entry of a key is of a seed saved under it (`EntriesKeyed`), as is the state of a
  wallet from its first step on (`WalletsKeyed`). Entries are only written by wallets that run or
  stop (`SavesRunning`), which therefore still have the seed they were opened with.
* `StoreInv`: an operation that has started is the oldest of its process (`ActiveIsHead`), so no
  two of one process are at the database.
* `DashboardInv`: own entries of the cache, of a backup and of a file being imported say what has
  happened (`EntriesTruthful`, `OpsTruthful`); the transaction an own operation captured is of its
  account, which is registered; and a page that is not mixed shows what has happened
  (`ShownTruthful`). The three support one another, as pages are filled from entries, entries written
  by operations, and operations begun on pages.

`CounterHonest` and `AddressStable` are only proved; no run checks them.

Every safety property that a passing run checks is stated by a theorem. Only model-checked are
the liveness properties (`ExpiredLeaseSwept`, `ReclaimConcluded`, `QueuedFinishes`, `DerivingEnds`,
`OperationsSettle`), which need fairness and are out of the prover's reach. What a run shows to be
violated is a counterexample and needs no proof.

## Not modelled

* Most of the repository's lines: user interface markup and components, documentation pages,
  configuration, encoders, logging and tests. They have no state, or none that an interleaving
  could make wrong.
* How far a wallet has synchronised, and amounts of NIGHT and DUST beyond "enough or not".
* The backend's routes and its private-state provider over MongoDB, the IndexedDB private-state
  provider: request parsing and key-value adapters without control flow of their own.
* The SDK's contract API: it builds arguments and dispatches; the calls themselves are in
  `DerivedProvider` and, on the contract's side, in the contract's modules.
* The CKB lock script: a pure predicate over the bytes of one transaction. A model would restate
  its comparisons.
* The CLI's menu and prompts: interactive input and output.
* The cryptography behind commitments and proofs, guardian signatures (verified off chain by
  design, `packages/contract/SECURITY.md`), the unexercised `purposeHash` and `accessTier` fields
  (the second equals the band).

Three things a comment promises and the code does not are in the models, but have no run of their
own. `register.ts:29` calls `registerIdentity` idempotent; a registered identity fails an assertion
of the contract, and `Dashboard` and `VeilHooks` model how callers tell that failure by its message.
`resolve.ts:12` promises null for what is unknown; any failure whose message contains "identity" is
answered so (`resolve.ts:27`). The band `proveReputation` answers with is the estimate of
`prove.ts:24-40`, which `prove.ts:22` says may be stale for one call after governance changed the
config; it is by the default config, so it stays what it was.

## Plan

1. Properties of `SponsorService`: that `reclaimed` is final where it is (it is not when both
   sweeps hold the lease).
2. An abstract specification of a lease (active, over, being reclaimed, done) that `SponsorService`
   implements, its refinement checked and proved from `LeaseInv`.
3. The weakest conditions under which several clients keep `OneLiveLeaf`: that their updates of one
   identity do not overlap.
