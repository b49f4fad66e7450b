# Formal models of Stellar-Basic-DAO

TLA+ specifications of the parts of this repository where a mistake would be hard to test: the
Soroban contracts, the backend services that work on shared tables from several processes, the
login sessions of BackendAcademy and the payment notifications of the mobile application; the TLC
models that check them on small instances, and TLAPS proofs of what matters most for every
instance. The specifications are written from the Rust, TypeScript and SQL code; a document, a
comment or a test is quoted only where a property says what it promises.

## The system

| Part | State it keeps | Operations | Module |
|---|---|---|---|
| Escrow contract (`app/contract/escrow`) | escrow records by commitment, id index and its reverse, votes, dispute expiries, settings; pooled balances at the token contracts | four deposits, partial payment, withdraw, refund, dispute, two resolutions, vote, cleanup | `Escrow`, `EscrowClient` |
| Fee router and oracle (`escrow/src/fee*.rs`, `oracle.rs`) | fee configuration, platform wallet, collector rotation | split and pay out one settled amount; setters | `FeeMath`, `FeeRouter`, `OperationLimits` |
| Stealth contract (`app/contract/stealth`) | entries by one-time address, pooled balances | register, withdraw, expiry | `Stealth` |
| Governance contract, administration (`governance/src/admin.rs`) | admin, pending transfer, roles, pause flags, upgrade window, pending upgrade, recorded hash | initialize, roles, transfers, five upgrade calls, migrate | `AdminRoles`, `UpgradeGate` |
| Governance contract, multisig (`governance/src/governance.rs`, `shared/src/nonce.rs`) | proposals, approvals, nonces, signer set, threshold | create, approve, execute, cancel; execution writes the administration's storage | `Governance`, `Council` |
| Job queue (`app/backend/src/job-queue`) | `jobs` table, cancellation tokens in memory | enqueue, poll, lock, run, fail, retry, cancel, recover | `JobQueue`, `JobDelivery` |
| Recurring payments (`backend/src/links`) | links, executions | create, pause, resume, cancel; cron; job handler | `RecurringPayments` |
| Refunds (`backend/src/refunds`) | refund attempts | request, approve, reject; job handler | `Refunds` |
| Auto-match (`backend/src/reconciliation/auto-match*`) | links, review queue, cursors in memory | polling cycle, on-demand match, review | `AutoMatch` |
| Ingestion (`backend/src/ingestion`) | event tables, cursors, checkpoints | stream, backfill, reindex | `Ingestion` |
| Reconciliation worker (`backend/src/reconciliation`) | escrow and payment rows | runs over batches | `Reconciliation` |
| Notifications (`backend/src/notifications`) | delivery log, webhook jobs | dispatch, crons, jobs, redelivery | `Notifications` |
| Feature flags (`backend/src/feature-flags`) | flag table, a copy per process | gates, load, update | `FeatureFlags` |
| Contract registry (`backend/src/contracts`) | registry rows, fallback version | publish, rollback | `Registry` |
| Usernames and marketplace (`backend/src/usernames`, `marketplace`) | names, listings, bids | register, list, cancel, bid, accept | `Marketplace` |
| API keys (`backend/src/api-keys`) | key rows with two hashes | create, rotate, emergency rotate, revoke, validate | `ApiKeys` |
| Cursor pagination (`backend/src/common/pagination`, `supabase`) | the client's cursor | page after page | `CursorPages` |
| Study rooms (`backend/src/chat`) | a room and its members | create, join, leave, update, archive, delete | `StudyRooms` |
| Login sessions (`BackendAcademy/src/auth`) | sessions in memory | login, refresh, logout, logout-all | `AuthSessions` |
| Mobile notifications (`mobile/services/background-sync.ts`) | one snapshot in the phone's storage | sync, listener, mark as read | `MobileSync` |

How they interact. A settlement of the escrow contract calls the fee router, which calls the token
contract and the oracle. An executed ballot writes the storage of the administration. The backend
never calls a contract on its own behalf: it builds transactions, ingests the contracts' events and
reconciles its rows with the ledger. Recurring payments, refunds and webhooks are jobs of the one
queue. All backend processes share the database and nothing else.

Which behaviours are hard. A Soroban call is one atomic transaction, so the concurrency of the
contracts is the order of calls and of ledger timestamps: long sequences of legal calls by
different accounts, the second of a deadline, records that outlive what they describe, several
escrows in one pooled balance. The backend is the opposite: a request is a sequence of statements,
each its own transaction, and between any two of them other requests, crons and processes write;
processes crash, answers are lost, jobs are run again.

What makes each part correct is stated by the properties below. `PROJECT.json` lists every component,
the hazards of the code at their lines with the properties about them, and, for each definition of
the models, the source lines it stands for.

## Modules

```
KeyValue          put and remove on a function: key-value storage
FeeMath           the arithmetic of a payout, as functions of the fee configuration
OperationLimits   the resource envelope of deposits and withdrawals
FeeRouter         setters, oracle, clock, route_payout (EXTENDS both)      MCContracts
Escrow            the exported entry points of the escrow (EXTENDS FeeMath)
EscrowVault       abstract: pots of money
EscrowRefinement  Escrow implements EscrowVault                            MCEscrow
EscrowClient      Escrow with the answers that retried deposits get        MCEscrowClient
Stealth           the stealth contract                                     MCContracts

AdminRoles        the administrators: actions of admin.rs on roles, settings
UpgradeGate       AdminRoles with window, upgrade, migration               MCContracts
Governance        UpgradeGate with the multisig
Council           abstract: ballots and a quorum
GovernanceRefinement  Governance implements Council                        MCGovernance

JobQueue          the jobs table, executors, operators                     MCJobQueue
JobDelivery       abstract: at-least-once delivery of one job after another
RecurringPayments, Refunds  (INSTANCE JobDelivery), AutoMatch,
Marketplace, MobileSync                                                    MCPayments
Ingestion, Notifications, FeatureFlags, Registry, Reconciliation,
ApiKeys, CursorPages, AuthSessions, StudyRooms                             MCPlatform

SumProofs         what a sum over a finite set is: lemmas
EscrowProofs, ContractsProofs, UpgradeProofs, GovernanceProofs,
JobQueueProofs, PaymentsProofs, PlatformProofs                             theorems
```

`MCContracts`, `MCPayments` and `MCPlatform` check several modules in one run: the initial state
chooses the one that works (`called`, `working`) and the others stay in their initial states. Modules
joined in this way share no state in the code either, so no interleaving is lost, and the states
to visit are the sum of theirs and not the product.

### Escrow

| Variable | Code |
|---|---|
| `escrows` | `DataKey::Escrow`: commitment -> `EscrowEntry` |
| `escrowIdMap`, `commitmentEscrowId` | `DataKey::EscrowIdMap`, `CommitmentEscrowId` |
| `disputeVotes`, `disputeExpiry` | `DataKey::DisputeVote`, `DisputeExpiry` |
| `config` | pause flags, emergency mode, roles, fee configuration, dispute timeout |
| `balance` | what the token contracts keep |
| `now` | ledger timestamp |

One action per entry point that `escrow/src/lib.rs` exports and that changes one of these, and `Tick` for
the clock. A call that returns an error is rolled back and is no step. A deposit whose `escrow_id` is
already recorded returns the old commitment and changes nothing; it is no step of `Escrow`, and a
step of `EscrowClient`, which records the answer.

* Commitments and escrow ids are hashes; they are records of what is hashed (injective), with the
  scheme (Keccak-256 or the legacy SHA-256) as a field.
* Salts are model values: salts over 512 bytes are refused by every call that takes one, and `NothingStranded`
  shows that the resource envelope refuses no shorter one.
* `config` never changes: none of its setters is exported (`admin.rs`, `#[allow(dead_code)]`). The
  guards still read it.
* Timestamps that nothing reads, TTL extension, events and the privacy flag are left out; so
  are hooks, since no exported call registers one.
* `PlaceholderDecodes`: `dispute` on a council escrow decodes a placeholder address for its event (escrow.rs:1089). A host that
  verifies the checksum aborts the call. TRUE has every behaviour that FALSE has, so runs and theorems take in both.
* `Recipients` are the accounts a resolution may name. Nothing in the code restricts them, so the runs take every account and the
  contract itself: `resolve_dispute_multi_sig`, which anybody calls, may name it, and the token contract then transfers from it to itself. The escrow is spent and
  the money stays in the pool, owed to nobody (`Forfeit` of `EscrowVault`, the exception of `OneEscrowPays`, and why `Solvent` says that the pool covers what is owed).
* `U64Max` is a small number standing for `u64::MAX`. `i128` is not reached by balances of real tokens.

`EscrowVault` knows pots of money only: `Open`, `TopUp`, `Claim` (before the deadline, a full pot),
`Reclaim` (the depositor, after it), `Lock` and `Award`. The refinement mapping sends every open
record to a pot and forgets settled records, indices, votes and expiries: no combination
of records ever gives a pot to someone twice, in part, outside its window or without a lock. `Forfeit` is the one way a pot ends without paying a wallet, and takes a lock.

### FeeRouter, Stealth

`FeeRouter` has the setters with the validation they do (`set_fee_config` and `set_oracle_fee_config` do
none, so that the global basis points may exceed 10000 and the oracle fee be negative), the rotation of the collector, the oracle's quote, the clock, and `RoutePayout`, whose recipient may be the contract. The setters are not
exported by the deployed contract; the module says what the code does once they are.
`Stealth` has registration, withdrawal with the keys that hash to the address, and the clock.
Its cleanup asks for a status that no stored entry ever has, so it changes nothing and has no action.

### AdminRoles, UpgradeGate, Governance

| Variable | Code |
|---|---|
| `admin`, `pendingAdmin`, `roles` | `DataKey::Admin`, `PendingAdminTransfer`, `UserRole` |
| `initialized`, `version`, `settings` | `DataKey::Initialized`, `ContractVersion`; pause flags, fee and wallet records |
| `window`, `gate` | `UpgradeWindowStart`/`End`; `UpgradeInProgress` and the three `PendingUpgrade*` records |
| `wasmHash`, `running` | `DataKey::WasmHash`; the executable the host runs |
| `signers`, `threshold`, `proposals` | `DataKey::GovernanceSigners`, `GovernanceThreshold`, `GovernanceProposal` |
| `approvals`, `nonces` | `DataKey::GovernanceApproval`; `NonceKey::Used` |

One action per exported call of `governance/src/lib.rs` that changes state; `ApplyAction` has a disjunct
per variant of `ProposalAction`.

* The initial states are a contract just deployed, and a legacy deployment that has an admin but
  neither roles nor a version, which is what `migrate` is written for.
* New code is taken to be another build of the same contract.
* `initialize_governance` is dead code in the deployed contract, so its signer set is empty. The model takes it as
  called once, as its comment says: what is shown of ballots holds from that call on.
* The id of a proposal is the hash of the action's tag, the nonce and the deadline, taken as injective.

`Council` knows members, a quorum and ballots with their approvers and outcome. `GovernanceRefinement` maps the
approval records to approvers and both `Pending` and `Executable` to open: the cached counter and status
disappear, so the refinement says that they never mislead. That approvers count even after they
left the council is what the code does, and `Council` says so too.

### JobQueue and its users

`row` is the `jobs` table, `pc`, `batch` and `current` the executor of each process between two
statements, `tokens` its `CancellationStore`, `request` the operators' requests that have read a row and will
write it. The poll, the lock, the end of the handler, the write of the result, each failure branch (with the write that throws),
start-up recovery and crashes are actions. Times are kept as what the queries ask of them: whether `scheduled_at`
has come and in which order (rows move to the end when they are rescheduled), whether `visibility_timeout` is null, ahead or past. A poll takes the
`PollLimit` earliest of the rows that are due, 100 in the code and 1 in the runs.

`JobDelivery` is what the queue promises to those who enqueue: a job is run one attempt at a time, again
after a crash, never after its success was recorded. `RecurringPayments` and `Refunds` are written
against it (`Queue`, `RefundQueue`), so what is shown of them needs only that promise, which `job_queue` checks of the
queue with one process.

* `RecurringPayments`: `link`, `exn` (execution rows), `sched` (overlapping runs of the cron with their stale copies), `handler`,
  `ledger` (payments per period). Dates are period numbers. `ListingWorks` says whether the database answers the query for due links. As the code stands it does not
  (see below), which makes `NeverEarly` vacuous; `payments` checks it with TRUE, and the theorem takes either.
* `Refunds`: `refund` (rows), `asking` (requests between read and write), `run` (handlers), `tx` (transactions whose answer may be lost),
  `escrow` (refunded at most once by the ledger), `sequence` of the account that signs. A transaction is what its hash is of: the entity, the sequence number and the fee.
  Two jobs, or two refunds of one entity, that build alike send one transaction and share its hash.
* `AutoMatch`: `cycle` of each process with the links it read, `demand` for on-demand scoring, `review`, `announced`. Amounts are
  integers in units of which the code's 1e-7 is one; `ReadAlike` lists the pairs whose doubles are less than 1e-7 apart (any pairs within `Precision`), the others are compared
  with the tolerance.

### Services on shared tables

Each request is a record of what it has read and which statement it executes next.

* `Ingestion`: `stored` tables, the stream's `cursor`, `task` (records handled concurrently), `backfill`, `checkpoint` and
  `reindexing`. Events are numbered as their paging tokens order them. `Kind` says which writer has a table for an event, the reindexer ("other"), the stream as well ("escrow") or none ("unstored"):
  a checkpoint passes events that the reindexer reads and does not store. Ranges may begin or end up to `Ahead` ledgers in the future, as the controller allows;
  `early` remembers such ledgers for the property.
* `Notifications`: `log` (one row per event and channel), five kinds of callers that read and write
  `attempts` without a lock.
* `FeatureFlags`: `flagRows`, the `cache` and the `loading` answer of each process, `updating` (a whole record to be
  written back: write the row, ask for all flags, put the record over the answer; three steps that other processes interleave). `asOf` is the date of a record in a copy: when the table was read,
  or when the process wrote it itself. Rollout and allow lists only narrow an enabled flag and are left out.
* `Registry`: publish and rollback cut at the statements of their database functions, which run under READ
  COMMITTED; the unique index; retries after a lost connection, committed or not.
* `Reconciliation`: the two halves of each run (`lane`), the rows by age, the ledger (`chain`).
* `Marketplace`: all services cut at their statements; `accept_username_bid` is one transaction with locks and is one action.
* `ApiKeys`: rows found by the prefix of the key that is presented, rotations cut between read and write, the overlap in hours.
* `CursorPages`: one list is walked while rows come and go; `endpoint` chooses the filter of `cursor.util.ts`
  or the one that `supabase.service.ts` and `api-keys.repository.ts` write themselves.
* `AuthSessions`: cut at the `await`s for verifying and signing tokens; sessions die in between.
* `StudyRooms`: rooms with and without a limit; read the room, count, look up, insert; the creator's membership; deletion cascades.
* `MobileSync`: read the snapshot, ask the server, write the snapshot; the listener and mark-all-read write the
  list on show; the application is killed in between; a read that fails is taken for an empty snapshot.

## What the runs check

| Run | Shows |
|---|---|
| `escrow_one` | One escrow, amounts 0 to 2: `Lifecycle` (INV-05), `TimeLocked` (INV-06), `OneEscrowPays` (INV-01, step by step), `ImplementsVault`, and the liveness property `DeadlineReleases`. |
| `escrow_two` | Two escrows of one token at a time and the answers to clients: `Solvent` (INV-01, INV-04), `IndexExact`, `DisputeRecordsExact`, `ReceiptHonoured`. Resolutions name the contract too. Two are needed: one escrow could not be paid from another's money, nor leave its vote to another. |
| `contracts` | `FeeCeiling` (INV-10; the exception is a negative oracle fee), `NothingStranded` (the exceptions are ratios above one together and global basis points above 10000), `PayoutIsWhole` (INV-01, INV-03): every order of configuration changes and payouts, with shares that round, ratios that overlap and oracle fees of either sign. `AdminHoldsRole`, `GateWhole`, `CodeChangesAreGated`, `CompletedUpgradeRuns`: two accounts that both call and may both be admin, windows set, missed and cleared, wrong versions. `StealthSolvent`: addresses used again. |
| `governance` | `ApprovalsExact`, `NonceOpensOne`, and `ImplementsCouncil`, which also says that a council is only replaced by one that can reach its threshold: every kind of action, accepted and refused; councils replaced, shrunk and refused while other ballots are open. `AdminMovesByBallot`: ballots that write the admin and its role past the checks of the direct calls. |
| `job_queue` | `FinishedIsOver`, `ImplementsDelivery`, and the liveness property `EveryJobIsTaken` (the exception is a poll filled by earlier rows that timed out). |
| `payments` | `NeverEarly` (recurring), `ConfirmedIsOnLedger` (refunds), `AnnouncedIsSettled` (auto-match), `SoldToOneBid` and `OwnerSells` (marketplace), `ReadWasSeen` (mobile). |
| `platform` | `CheckpointCovers` (ingestion), `DlqIsExhausted` (notifications), `OpenWasOpened` (flags), `AlwaysOneBuild` (registry), `SettledFirstIsTold` (reconciliation), `BurnedStaysDead` (API keys), `WalkIsWhole` (pages), `LoginHasOneSession` (sessions), `OverfullByRacesOnly` (rooms). |
| `claim_*` | One documented promise each that the code does not keep; see below. |

Bounds. Every bound is a constant of the module and named in its comment. Escrow: `MaxEscrows` 1 or
2, `MaxAmount` 2 or 1, two accounts, one token, one salt; the commitments of two accounts under two schemes
are already several, an overpayment needs the amounts 1 and 2, a council with a tie needs two members. `U64Max` 3 or 2 gives the
instants before, at and after every deadline and lets one saturate. The fee router pays up to 2 from a pool of
2 with ratios 1/3, 1/2, 1/6, so that rounding leaves dust. `UpgradeGate` has a clock of 0 to 3 with the window 1 to 2,
versions 0 (any), 1 (right), 2 (wrong), and two builds beside the deployed one, so that a second upgrade finds the snapshot
of the first. The oracle fees are 2 and -1 millionths, the basis points 5000 and 15000, and the per-asset entries take every branch of the validation and of the split. `Governance` has three accounts, a first council of two with threshold two, one nonce, two
deadlines, and no direct calls after `initialize` (`Callers = {}`): `contracts` covers those, and the theorems take both together, `AdminMovesWithBallots` among them.
The queue has a job with one attempt and one with two, one crash and two operators' requests, which is what it takes for a
request that read a row before its lock, its success or the restart to be applied afterwards. A poll takes one of the two jobs, so that one can keep the other waiting. The services have two callers
at once (three statements of two callers give every crossing of a read and a write), one to three rows, and as many
versions, attempts or hours as the decisive comparison needs plus one. Ingestion has two ledgers with an event that only the reindexer stores, one that nobody stores
and one that both store, and at most two starts (connections, reindex runs and backfills together, `MaxStarts`), which is what it takes to fail and resume, or to cross. In `MCPayments`
requests for refunds overlap while there is one refund, and two refunds take turns (`FewRequests`); their jobs overlap in either case. The amounts of auto-match are one and two units off.

`CHECK_DEADLOCK FALSE` is set in every passing run but `escrow_one`: clocks and counters are bounded, and a system where everything
is settled, decided or read may stop.

Symmetry is used in `payments` (`a1`/`a2`, `j1`/`j2`, the two refunds) and `platform` (`a1`/`a2`): the sets are interchangeable in every module that
takes them, and these runs check no liveness.

Fairness.

* `FairSpec` of `Escrow`, for `DeadlineReleases`: time passes, as ledgers do, and the owner of an expired pending
  escrow eventually asks for the refund that only the owner may ask for. Nothing is assumed of arbiters, recipients or cleanup.
* `JobFairness`, for `EveryJobIsTaken`, `ImplementsDelivery` and `RunningIsRun`: processes are restarted, the cron polls every ten seconds (weak fairness of
  the executor), handlers end, time passes, and the database does not refuse the lock of one job for ever (strong fairness of `LockAndRun`:
  the row is offered at every poll and the poll's other rows come in between). Requests are not fair.
* `FairRecSpec`, for `FirstPeriodIsEnqueued`: the process stops crashing at some time (`<>[][~RecCrash]`) and the crons then run;
  the violation therefore needs no failure at all.

Every property of a passing run has a mutant: a plausible bug in a mapped definition under which TLC
finds the property violated (`PROJECT.json`, `mutants`).

### Promises the code does not keep

| Run | Promise | What happens |
|---|---|---|
| `claim_job_retry` | a failed job is scheduled again or dead-lettered (job-executor.service.ts:230) | the update that reschedules throws on `visibilityTimeout: null`: the row stays `running` until a restart |
| `claim_recurring_due` | the scheduler pays automatically (RECURRING-PAYMENTS.md:12) | the query for due links errors at every run: the function is called without the id it takes, and the fallback compares `executed_count` with the literal `total_periods`. Behind it, the execution row of period 1 exists since creation, so that the scheduler's own insert would be refused: with `ListingWorks = TRUE` TLC finds the property violated as well |
| `claim_stream_loses` | at worst events are processed again (stellar-ingestion.service.ts:419) | the cursor of one record passes another whose insert failed |
| `claim_pages_skip` | no row is skipped (cursor.util.ts:6) | two filters that should alternate must both hold: older rows with larger ids are on no page |
| `claim_key_overlap` | the old key works for 24 h (api-keys.service.unit.spec.ts:305) | its row is looked up by the prefix of the new key |

Further differences met while modelling. They follow from a guard or two each and have no run of their own; where
a property has an exception for one, the exception is named with it.

Escrow and stealth:

* After cleanup a retried deposit is charged again: the tombstone that storage.rs:984 speaks of is never written (storage.rs:211). `deposit_with_arbiters`
  may be answered with an escrow without a council: the council is not hashed into the id (escrow.rs:413, :357). `ReceiptHonoured` claims neither.
* A dispute that nobody decides never ends: `refund` takes pending escrows only (escrow.rs:913) and `resolve_expired_dispute` is not
  exported, against docs/MVP-CONTRACT-SCOPE.md:18.
* An expired pending escrow can be disputed and then paid to the recipient (docs/INVARIANTS.md:48), and the recipient of a resolution need not be a party (:21):
  it may be the contract itself, and the money is then nobody's.
* `deposit_partial` never compares the initial payment with the amount due (escrow.rs:568).
* Three ratios that add up to more than one pass the validation, and every payout of the asset then fails; so do global basis points above 10000, for every other asset.
* A negative oracle fee passes the validation (admin.rs:735). The fee of a payout is then negative, and the recipient gets more than the gross amount, out of the pool.
* A stealth deposit that expires is locked for ever: it can be neither withdrawn, refunded nor cleaned up. The contract's own
  balance invariant (storage.rs:783) is a stub.

Governance:

* Approvals of accounts that an executed `UpdateSignerSet` removed still count (governance.rs:461; GOVERNANCE.md:9).
* `SetAdmin` by ballot writes the admin record only, `RevokeRole` may take the role from the admin: `current_admin()` then fails for everybody
  (governance.rs:555; GOVERNANCE.md:64).
  `AdminMovesByBallot` claims that nothing else does it, and no ballot without its approvals.
* Cancelling the first upgrade of a deployment leaves its code running, since nothing recorded the earlier hash (storage.rs:179, admin.rs:457).
* `UpgradeContract` by ballot changes the code outside the gate and leaves the recorded hash stale.
* A proposal that is `Executable` when another ballot raises the threshold can be neither approved, executed nor cancelled; it expires.
* The upgrade window includes its end (storage.rs:316); the comment at admin.rs:357 writes `[start, end)`.

Payments:

* With two executor processes a job runs twice at a time, and a restart resets what the other still runs. The theorem about finished jobs is about one process.
* An operator's retry leaves the timeout column, so the retried job only counts an attempt; `bulkRetry` likewise.
* A recurring period is paid again when its job is run again after the payment went out. `NeverEarly` is about dates, not about the number of payments.
* As many rows that timed out, all scheduled earlier, as a poll takes are selected by every poll, never written, and keep later jobs waiting for ever.
* A rejected refund may still be paid when the rejection races an approval. Two refunds of one escrow may both be confirmed, with the hash of the one transaction that paid.
* The auto-match cursor is a transaction hash where Horizon wants a paging token: payments after the first poll are not seen until a restart.
* A listing inserted after its name was sold can itself be sold, and takes the name from its new owner (`overtaken` in `OwnerSells`).
  A cancellation that was checked before a sale overwrites the status `sold`. Two registrations at once may exceed the limit per wallet, and a buyer always may.
* Mobile: an update that read the snapshot before the first sync undoes its mark, so the next sync counts as a first one; an update replaces
  the stored list by the one shown, so payments may be missing until the next sync; `touchSession` may write a session back after a logout.

Platform:

* A reindex of a range that ends in the future leaves a checkpoint that the tables do not cover, and a checkpoint passes events of types without a table
  (both are exceptions of `CheckpointCovers`). A backfill reads at most 200
  events of a batch and writes the stream's cursor. The parser's schemas lack three of the contract's events.
* A sent notification can be set failed again by a slower call, and is then delivered again.
* Reconciliation marks a payment failed when Horizon does not know it yet, and for ever. A batch is the rows with the oldest `updated_at`, so rows that stay undecided keep
  their place at its head.
* A kill switch that another process set is cleared by an update from a stale copy, an update renews the age of the whole copy, and in an outage
  what is built on is open. A kill between an update's write and its reload is hidden from the updating process until its copy expires, since its own record wins.
  `OpenWasOpened` is about flags that are built off, from the date of the record on.
* Two publishes may both succeed at one expected version, and a publish that committed and lost its answer conflicts with itself.
* A rotation that had read a key before an emergency replaced it writes it back as the old one when prefixes coincide (the exception of `BurnedStaysDead`).
* A session that is being signed survives a logout-all (the exception of `LoginHasOneSession`), and a reused refresh token is refused
  without revoking its successor: `TOKEN_REUSE_DETECTED` is unreachable.
* A failed count of a study room counts as zero members (`miscounts`), and the creator's own membership may fail silently.

## What is proved

Each theorem holds for every value of the constants that satisfies the module's named assumption, which says that absent
values differ from present ones, that bounds are numbers, that configurations have the types of the contract, and that accounts, calls and
events are finitely many. Each follows one argument: an inductive invariant, a lemma per action or kind of step that it keeps it,
and a last step in temporal logic. Every safety property of a run that is expected to pass has a theorem, and none of these theorems has a hypothesis beyond the named assumption
but those about the job queue, which are about one process.

* `SumProofs`: what the library's sum over a finite set computes. It is a recursive function that takes an arbitrary element out at each step; the lemmas
  say that the function exists, that the order does not matter, and how the sum moves when one weight changes. The induction theorems of the library take an operator
  as a parameter, which no installed prover can instantiate, so the lemmas use its well-founded order instead: a set of counterexamples has a least one.
* `EscrowProofs`. The invariant of `TypeCorrect`, `IndicesStayExact` and `DisputeRecordsStayExact` is their conjunction. The three need each other: a deposit keeps the
  indices exact because a free commitment has no index record left; cleanup keeps the dispute records exact because a settled escrow has none; the
  pool argument needs the types of the amounts. `DepositsKinds`, `SettlementsKinds` and `DisputesKinds` reduce twelve actions to five kinds of step; `DefaultPayout` and
  `PayoutIsTransfer` reduce the fee router under the default configuration to one transfer.
    * `OnlyOneEscrowPays` is the step of conservation, `PoolIsSolvent` its sum: the records are finitely many, and the pool covers what all of them are owed.
    * `LifecycleHolds` and `TimeLockHolds` go through the kinds of step; only the settlements are opened to their guards.
    * `ReceiptsAreHonoured` adds to the invariant that an id and its record agree on whether there is a deadline (`DeadlinesExact`), which is what survives a cleanup and a second deposit.
    * `EscrowIsVault`: the initial state maps to that of `EscrowVault`, and each kind of step to opening, filling, emptying or dropping one pot, or to a stutter.
    * Recipients are any accounts and the contract: `SelfTransfer` says that a transfer of the contract to itself moves nothing, `KeptForfeits` that such a resolution is a `Forfeit` of a locked pot.
* `ContractsProofs`.
    * `PayoutsAreWhole`, `FeesStayInside`, `NothingIsStranded`: the typed configuration is the invariant. The shares are integers that add up to the fee (`SharesFormed`), also when they round, when the arbiter or
      the wallet is missing and when the fee is negative; what the contract pays out and gets back adds up to the amount (`PayoutAddsUp`). Three shares of ratios that do not exceed one together
      fit into the fee whatever it is (`FittingRatios`, by the fractions and not by cases), and the resource estimates are bounded for three recipients and every salt length.
    * `StealthIsSolvent`: what the contract holds of a coin is the sum over all its entries; a withdrawal removes the entry that it pays out.
* `UpgradeProofs`: `GateTypeCorrect`, `AdminAlwaysHoldsRole`, `GateAlwaysWhole`, `RecordTellsTheTruth`, `CodeOnlyChangesGated`, `CompletedUpgradesRun`, of
  `GateSpec` (a ballot breaks `AdminHoldsRole`, see above; what is left under ballots is `AdminMovesWithBallots`). Invariant: `GateTypeOK /\ AdminHoldsRole /\ GateWhole /\ RecordedIsRunning`; types need `GateWhole` (an open
  gate has a hash to install), the recorded hash needs it too (a shut gate has nothing to roll back to).
* `GovernanceProofs`, with every direct call interleaved: `GovTypeCorrect`, `ApprovalsStayExact`, `NonceNeverReused`, `CouncilCanDecide` (`QuorumReachable`, which `governance` checks as a part of `ImplementsCouncil`), `AdminMovesWithBallots`,
  and `GovernanceImplementsCouncil`, the refinement proved step by step. An execution is the only step that moves the admin's validity: the direct calls keep a valid admin, and without one they fail (`LostIsLost`). The invariant adds to the properties that approvers are finitely many (`Counted`) and that a proposal's nonce is spent (`NonceSpent`).
* `JobQueueProofs`, with one process.
    * `FinishedNeverRunsAgain`: the invariant adds that a job being executed has its timeout set, which is why recording its success leaves a row that no poll selects for a run
      (`ExecutedIsLocked`), and that selected rows exist. Most writes are `Harmless`: they neither remove a row, nor clear its timeout, nor start it.
    * `QueueDelivers`, the refinement of `JobDelivery`: a step moves at most one job, and by a move the promise knows (`OneJobMoves`), or it is a start, a poll or a crash, by
      which jobs only fall back (`JobsFall`). It adds to the invariant that requests in flight name rows that exist, and that rows stay.
* `PaymentsProofs`.
    * `PeriodsArePaidInTime`: the count and the date of a link move together, and what a cron run, a job or a handler carries names a period that has begun.
    * `ConfirmedRefundsAreOnLedger`: wherever a hash is kept, in the row or in a handler, it is that of a transaction on the entity of its refund (`RowsHoldTheirs`, `HandlersHoldTheirs`), which is all that a hash of the content says; a transaction
      that succeeded has closed the escrow of its entity, so it is the only one (`OneSuccess`).
    * `AnnouncedLinksAreSettled`: links that a cycle or a replay read existed then, none becomes absent and no settled one opens again, and a
      score that passes without review fixes memo, asset and, up to the precision of doubles, the amount.
    * `ListingsSellOnce`, `OwnersSell`: an active listing is alone for its name, has no buyer, and its seller owns the name or it was inserted too late; a listing with a buyer has exactly
      the bid that bought it. What a request has read is not part of the invariant: only the types of it are.
    * `ReadAlwaysSeen`: every copy of a list, stored, shown or held by a sync or an update, shows as read only what was seen or came first; seen only grows.
* `PlatformProofs`.
    * `CheckpointsCover`: a run has stored whatever its range holds before the ledger it began in or up to its token, of the types that have a table, and what is left of its page comes before all else
      it has to read. Only a ledger that was asked for early can gain events behind the run, and its run remembers it.
    * `SettledRowsAreTold`: a row that settled while no run held an answer for it is asked about only afterwards, so every answer held for it is the one it will have.
    * `DeadEntriesAreExhausted`: the attempts in the row, and those any call has read, plus one for every call that is about to write, stay within the failures there were.
    * `RegistryNamesOneBuild`: a transaction that is not refused has deactivated every row active when it commits. `LoginsHaveOneSession`: of one login at most one session is
      live or being signed, and an id is drawn once. `RoomsOverfillByRacesOnly`: members and admitted requests together exceed the
      highest limit of a room that always had one by no more than the other requests and the failed counts.
    * `WalksAreWhole`: the newest-first order is total, a page is an initial segment of the rows after the cursor, so the cursor divides the list into what was read and what was not.
    * `GatesOpenHonestly`: all copies, cached, on their way and held by an update, are honest towards `lastOn` at the date of each record, and what the table has open is counted as open now.
    * `BurnedNeverAccepted`: no raw key is ever held by two rows, or by a row and a rotation of another, so an emergency leaves no copy behind.

What proving found in the models: the guards of two CASE expressions overlapped (`memoPoints` of `AutoMatch`, `RowsAfter` of `CursorPages`), which TLC resolves by order and
a proof cannot; they are exclusive now, as the code's `else` is. `fetchPending` of `Reconciliation` is stated as the set of the rows with fewer older ones than the batch
has places. Several assumptions now say what the models took for granted: that senders, calls, events and rows are finite, and how fee configurations are typed.

Only model-checked: `DeadlineReleases` and `EveryJobIsTaken` (liveness: fairness and ENABLED are beyond the prover), and the violated claims of the runs
that are expected to fail, for which a counterexample is the proof.

## Not modelled

* The web front end and the screens of the mobile application (about half of the TypeScript lines): user interface, without state another
  component relies on. The contracts, which are modelled most fully, are Rust.
* Backend and BackendAcademy services whose handlers are one database statement, or one synchronous change of a map: exports, metrics, health, analytics, assets,
  preferences, the inbox, courses, progress, submissions, rewards, referrals. A model of one would restate it.
* The fee contract: a copy of the fee arithmetic behind setters that need an admin which no exported call can install.
* The administrative functions of the escrow contract beyond the fee setters (pause flags, roles, batches, hooks, `resolve_expired_dispute`): `lib.rs` does not export them.
* The X-Ray privacy flag, deployment metadata, event schemas and TTL extension: written and read by nobody else, or without effect on values.
* Parts of modelled components: edits of a recurring link's amount, the dual read of two contracts, scopes and usage counters of API keys, searches of the marketplace,
  messages of study rooms, badges and settings of the mobile application. `PROJECT.json` names them with each component.
* The cryptography of commitments, stealth addresses and tokens.
