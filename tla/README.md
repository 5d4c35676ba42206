# PropTech AI Copilot: a TLA+ verification of its stateful services

The repository is a consumer decision copilot for property in Taiwan: a
Next.js frontend, a FastAPI backend with its services, PostgreSQL behind
them, workers that query Earth Engine, and batch tools that prepare public
transaction data (PLVR). Most of its code reads, converts and computes. What
can go wrong in a way a unit test would hardly reach sits in a handful of
services that keep state while several requests, threads, processes or
connections work on it. This directory models those, most important first.

Contents: [inventory](#1-inventory), [modules](#2-modules-and-the-code),
[runs](#3-what-the-runs-show), [proofs](#4-what-is-proved),
[findings](#5-findings), [limits](#6-what-is-not-modelled),
[plan](#7-plan).

To check a run: `tlc -config MCParcelSet.cfg MCParcelSet`. To check the
proofs of a module: `tlapm ParcelSetProofs.tla`. `PROJECT.json` lists the
components, the runs, the lines of source each definition stands for, the
hazards, the findings and the theorems. Paths below are relative to `src/`.

## 1. Inventory

### Components with state of their own

| Component | State | Operations | What is hard | What makes it correct |
|---|---|---|---|---|
| Case parcel-review set (`services/vnext/case_parcel_set*.py`, migration 018) | one row per case: version, status, active member; one row per member: position, review status | initialize, add_member, review_member, set_active_member, reorder, mark_case_reviewed | commands race on one version; a set is reviewed, then changed | no lost update; "reviewed" means every member is disposed of; positions dense and under the cap; focus on a member |
| Idempotency records (`services/vnext/persistence.py`, migration 013) | one record per workspace, actor, method and key: request hash, status, result | reserve, complete (inside the command), mark_failed | retries, lost acknowledgements of COMMIT, crashes between the three transactions of a request | one key takes effect at most once, its outcome never changes, and "ok" is only answered for what was applied |
| Earth Engine worker pool (`services/earth_engine_worker_pool.py`) | slots, idle queue, generations, replacement queue and attempts, state, executor; the worker processes and their pipes | start, fetch, cancel, retire, replace, shutdown | an event loop, executor threads, controller threads and processes; every one may stop answering | a worker has one owner; an answer belongs to its request; capacity is returned; shutdown leaves no process |
| Provider request cache (`services/provider_request_cache.py`) | LRU entries with sizes and times, byte count, flights, epoch | run, async_run, clear | single flight against eviction, expiry, clear, failure and cancelled callers | one operation per key in flight; no stale answer after clear; nobody waits for a flight that ended |
| Usage telemetry (`services/api_usage.py`, `services/usage_ledger.py`, migration 021) | pending aggregates, the batch being retried, hourly rows, markers of batches | observe, take_pending, flush_once, write_batch, stop | exactly-once over a lossy COMMIT, with a retention and two clocks | nothing is counted twice; losses are counted; stop drains |
| Durable quota (`services/usage_guard.py`, migration 021) | per subject: hourly requests, hourly and daily operations, bucket times; reservation markers; hourly statistics | consume, prune | callers straddle an hour or a day; one marker sent twice; a policy that changes while they wait; tables at 2,048 and 100,000 rows; a store that is down | the counters agree with the ledger; never more than the policy in a window; failing closed |
| Identity resolution and decisions (`services/vnext/identity_*.py`, migrations 015, 016) | resolutions, candidates, append-only decisions with dense versions, links of cases to properties | create, confirm, reject, attach_resolution | decisions lock no row: the guard trigger cannot see what a concurrent transaction has not committed, and a unique index decides | at most one terminal decision per resolution and none after it; versions dense; a case is linked to what was confirmed |
| Parcel evidence, hypothesis, relation and building-claim commands | append-only claims and decisions | create, decide, supersede | the protocol of the parcel-set commands with other payloads | as for parcel-set commands |
| Durable cases (`services/vnext/durable_cases.py`, `services/professor_userdb.py`, userdb migration 001) | a user's saved cases with revisions, deleted ones kept; revoked sessions; receipts of commands, kept 24 hours and 2,048 at most | create (import), metadata, monitoring, delete, logout | several devices; a logout between admission and write; a COMMIT whose handler is gone; a retry while receipts expire and are pruned | every commit legal when it happens; a live receipt answers its own command and no other; one case per import key, and deleted cases stay so |
| Legacy case import (`services/vnext/legacy_case_import*.py`, migration 017) | one import record per browser case, with the case and the evidence it made | import_case, over reserve and mark_failed | two tabs import the same case under different keys | a browser case is imported at most once per actor and workspace |
| Admin control plane (`services/admin/store.py`, migration 022) | account status and roles, quota policies; claims, commands and audit | mutate_account, accept_quota then mutate_quota | a policy change spans two databases: the claim is durable before the remote change; two administrators demote each other | an active administrator always remains; a command id acts once; every change has its audit row |
| Pilot evidence (`services/pilot_evidence*.py`) | campaigns, sessions, consent, events, feedback, publication approvals | start_session, save_consent, record_event, save_feedback, complete, delete, approve, revoke | events sent twice; consent withdrawn after an approval | nothing is published without consent; an event counts once |
| Rate limits, anti-abuse, admission (`services/rate_limit.py`, `anti_abuse.py`, `usage_quota.py`) | windows per caller in bounded tables, semaphores per capability | admit, operation, check, prune | tables at their limit, window boundaries, a failure between two of the counters | the limit per window; bounded memory; permits returned |
| PLVR pipeline (`services/plvr_*.py`, `scripts/compact_green_production_loader.py`, migrations 008-011) | artifacts and their manifest, a shadow database, the compact schema of production: one generation, its dictionaries, facts, evidence and aggregates | acquire, build, reconcile, load in batches, verify | a load that is killed is run again and judges by counts what an earlier run has done | a load that reports completion has every row once; a load that is run again completes |
| Browser case storage (`frontend_next/lib/case-storage.ts`, `cloud-case-client.ts`) | at most so many cases in local storage, with versions, shared by the tabs | save, confirm identity, resave, update evidence, delete, clear | tabs write one storage item; evidence arrives after the case has changed | no tab's case is lost; evidence goes to the version it was made for |

### Components without

Authentication and row-level security, property graph and reads, valuation,
calculators for tax, loan and holding costs, terrain, flood and geological
lookups, market, demographics and location reads, satellite reference (the
caller of the worker pool), the user interface, deployment and release
scripts. They convert data or compute; their interest is in values, not in
orders of events.

### How they interact

A browser calls the API. Middleware observes each request (usage telemetry)
and consumes quota before the handler runs. Workspace commands go through an
application service that reserves the idempotency key in one transaction,
executes the command in a second and, when that fails, marks the record
failed in a third; all share PostgreSQL and its row locks. Read endpoints call
providers through the request cache; the satellite endpoint calls the worker
pool. The lifespan of the application (`api_main.py:100-150`) starts the
worker pool and the usage flusher once and stops both when it ends.

## 2. Modules and the code

Operators whose comment begins with "(slip)" are plausible errors: each stands
before the definition it would replace and nothing uses it. Replacing the
definition by the slip must violate the property named for it in
`PROJECT.json` ("mutants"), which shows that the property depends on that code.

How the modules are composed: `ParcelSetCommands` = parcel set + idempotency
records, refining `ParcelSet`; `IdentityDecisions` = decisions + cases +
idempotency records, refining `IdentityLog`; `SavedCases` refines `CaseLog`; `QuotaControl` = `AdminPlane`
(refining `AdminLog`) + `QuotaGuard` over one usage database.

### Parcel review

`ParcelSetData` holds the value of a set and what each of the six commands does
to it, as operators, and the types of both (`SetTypeOK`): `Refusal(c, s)` is why the repository refuses a command,
in the order of its checks, and `Applied(c, s)` the set it writes. A member is a
reference with `position[x] > 0`. `Changed` is `_finish`: the version advances
and a reviewed set is reopened unless the command is the one that marks it.

`ParcelSet` is the abstract specification: each idempotency key is open, then
applied or refused for good; `Apply` changes the set atomically.

`ParcelSetCommands` is the service. A request (`pc`, `req`, `answer`) goes
through `Send`, `Reserve`, `Replay`, `Open`, `Execute`, then `Commit` or
`Abort` of its transaction `tx`, and `MarkFailed` after a failure. The
transaction holds the row lock of the set from the first statement to its
end, so at most one is open past `Execute`; its snapshot is older than the row
it may get, which is why the version is compared under the lock.
`LoseConnection` is an acknowledgement that never comes: the request fails
with its transaction still open, and that transaction may still commit.
`MarkLost` is a mark_failed whose own connection is lost. `Crash` ends the
process at any point. `Archive` archives the case, which the `FOR SHARE` of
initialize holds back.

A key is scoped by workspace, actor and method over all the parcel-set routes,
so one key sent with another command is an idempotency conflict, which
`Reserve` decides by comparing the recorded command. Two conflations are
deliberate: hashes of request bodies are equality of commands, and identity references
that do not exist are simply outside `Refs`.

`ParcelSetProofs` proves the invariants of `ParcelSet`, those of the service, and
that the service implements the abstract set.

### Identity decisions

`IdentityLog` is the abstract specification: each resolution has a log, to which
one decision at a time is appended until a confirmation, or the rejection of the
whole resolution, closes it; a rejected candidate is not decided on again.

`IdentityDecisions` is the service, its repository and the triggers of
migration 016. Nobody locks the resolution. A request goes through
`Send`, `Reserve`, `Check` (the repository's reads), `Guard` (the trigger's reads, in a
snapshot of its own), `Insert` (the unique indexes: `MustWait` for an
uncommitted row that collides, `Duplicate` for a committed one), `Complete`
(the case's row for an attachment, the record, the audit event) and
`Commit`; every failure goes through `MarkFailed`. `tx[r]` is the row a
transaction has written. COMMIT may be lost on the way (`LoseConnection`) and
take effect later, also after the slot has gone on, or its answer may be
lost. `UpdateCase` is another client. The pair of rows of the decision's version
in `DecisionsCollide` is what makes racing decisions serial; the trigger alone
does not.

A candidate's own reasons for and against a confirmation (its type, status,
source, evidence, conflicts) do not change and are the constant `Confirmable`.

`IdentityProofs` proves the refinement and the four invariants.

### Personal saved cases

`CaseLog` is the abstract specification: the cases of one user change by one legal
act at a time, of a session that is not logged out, made to the revision its
author had seen; `last` records the act.

`SavedCases` is `CaseService` and `PrivateCaseService` over the `CaseTransaction`
of `professor_userdb.py`. A request is admitted by a transaction of its
own (`Send`) and then runs one more: `Refuse` if that ends in an error
(`Refusal`, in the order of the checks) or a replay, `Write` and `Commit` if it
changes something. A delete and a logout have no key and no receipt. `tx[r]` is
what an open transaction has written: the receipts it has pruned and the one
it adds. The user's advisory lock is the guard `LockFree`: PostgreSQL keeps it until the
transaction ends, which may be after its handler has given up or died
(`GiveUp`, after which `pc` is "orphaned"). `made` and `last` are histories.

Simplifications: one clock stands for those of the processes and of the
database, whose policy on `case_commands` lets a process prune only what has
expired for the database too; a process whose clock is ahead prunes less
than modelled. The expiry of a request's token is one more reason to refuse.
What a case contains is its revision: each edit makes one.

`SavedCasesProofs` proves the refinement and the replay.

### Administration and quota

`AdminPlane` is `AdminStore.command` over migration 022. Accounts, commands and
claims are in the account database; the policy and its own commands in the
usage database, which is named by the id in its `admin_plane.instance` and may
be replaced. A slot is a command in flight: `Begin`, then either `Mutate` and
`CommitMutation`, or `Accept`, `CommitAccept`, `Dispatch`, `CommitApply`.
`Mutate`, `Accept` and `Dispatch` take their database's advisory lock, make
all the checks, and keep the lock until the commit. `Abort` is a crash, a
timeout or a broken connection in any state, and `CommitAccept` may commit
without the process learning of it.

`AdminLog` is what that promises: administrators act one at a time, each while an
administrator; a change of the policy is accepted for one usage database, and made in it at
most once, even if its actor has been demoted meanwhile; a key stands for
one command.

`QuotaGuard` is `api_usage.consume` and `prune` for one subject, with the calls
of `PostgresQuotaGuard`. A call `Arrive`s (reads the policy and the clock),
waits for the subject's lock, and on `Lock` reads the row and the clock
again; what it decides appears on `Commit`. The row's counters and buckets
(`subject`) are kept apart from the ledger (`hourly`), which never rolls
over: that they agree is the property. A time is a tick no shorter than the statement
timeout, so a call sees one boundary at most (`Tick`).

`QuotaControl` composes the two over the shared `policy`. Replacing the usage
database empties the subject, the markers and the ledger, and fails the calls
in flight.

`AdminProofs` proves the refinement, that an administrator remains, and the two
properties of the quota, all of the composition.

### Production loader

`CompactLoad` is `scripts/compact_green_production_loader.py` over the unique
indexes of migration 011. `pc` is the loader's place; each table is a set of
row numbers in the order of the source. `Insert` is one transaction: a
row that is there is an error, a row of an orphaned transaction is waited for,
and the loader may be killed between COMMIT and its answer, which leaves the
transaction in `orphan` for `Settle`. `Dictionary` stands for the four tables loaded in
one transaction unless they have rows; `Roads` asks the same question
although `RoadBatch` commits batch by batch. `CountFacts`, `CountEvidence` and `FactBatch`
are the resumption of the facts; `Verify` looks at counts only.

`CompactLoadProofs` proves what a completed load means.

### Earth Engine worker pool

`EarthEngineWorkerPool` models every thread that touches the pool: the
controller (`Ctl*`, both the start-up and the replacement controller, in one
thread variable because they never overlap), each fetch's coroutine
(`Admit`, `Acquire`, `Receive`, `Expire`, `Cancel`, `Contain`), its executor job
(`Dispatch` to `Schedule`), each worker process (`Worker*`) and the
caller of shutdown (`Shut*`). A worker is `<<slot, generation>>`. `mail` is
what the parent has not read of its pipe: an answer tagged with the request it
is for, garbage, or the end of the pipe. `clock` is a fetch's deadline in three
values, because the code distinguishes only three: time left, inside the cleanup
reserve, past.

An action ends wherever another thread may run: at a lock's release, an await,
a blocking call. Stopping a worker's process is two actions (kill, close),
because shutdown may meet a `Process` that a retiring job has closed and not
yet removed from the slots. The `ValueError` that this raises goes where the code
sends it (`AfterValueError`): out of the cleanup into the controller's handler, which stops
a replacement it has just spawned and marks the pool again, and if it is raised in the handler
itself (the controller then holds `Nobody`), out of the thread.

`EarthEngineWorkerPoolProofs` proves the seven safety properties: five for any
number of slots, requests and calls of shutdown, `FailedPoolIsEmpty` and
`StoppedMeansNoWorker` for at most two slots (section 4).

### Provider request cache

`RequestCache` models `run` and `async_run` together; any caller may be
cancelled, which is all that `async_run` adds. A call is a
`Hit`, a `Join` of the registered flight, or an `Own`, in which case it
flies: the operation ends in `Retain` or `Fail`, then `Settle` delivers, then
`Release` (the `finally`) unregisters. A flight is named by the call that
owns it. When the flights fill the table, a call operates unregistered
(`shared = FALSE`). The end of an operation and `_retain` are one step, for
nothing shared happens between them; so are a failure and its delivery.

`RequestCacheProofs` proves its four invariants.

### Usage telemetry

`UsageLedger` follows each observation instead of adding numbers up: `hourly[o]`
says how often observation `o` was added, which makes "counted twice" visible.
`Observe` and `Flush` are the two sides of the aggregator; a write ends as
`WriteSucceeds`, `WriteFails` (nothing written) or `WriteIsLost` (the
client saw an error, and the transaction is now an orphan that `OrphanEnds`
commits or aborts). `Prune` deletes markers by the database's clock; the age
of a batch is measured by the process's, which `SetClock` puts wrong by up to
`MaxSkew` either way, backwards too. `Stop`, `LeaveLoop` and `Return` are the
end of the flusher's thread. `Crash` loses what is in memory.

Simplifications: `LIMIT 5000` on pruning becomes "any one marker" for
other processes' writes and "all the expired" for its own; a transaction ends
within seconds, so the clock ticks (half an hour) only between writes; the
list of recent requests matters only as one more reason to drop.

`UsageLedgerProofs` proves its three invariants.

## 3. What the runs show

| Run | Instance | States | Checks |
|---|---|---|---|
| `parcel_set` | 6 keys, 4 references of which one is not a parcel, cap 2 | 817 | `SetTypeOK`, `ReviewedIsComplete`, `PositionsAreDense`, `ActiveIsMember` |
| `parcel_commands` | 2 requests in flight, 3 keys | 243,000 | `SucceededIffApplied`, `NoLostUpdate`, `TransactionIsFresh`, `OkMeansApplied`, `OutcomeIsFinal`, `ArchivedCaseGetsNoSet`, `KeepsPromise` (refines `ParcelSet`), `EveryRequestEnds` |
| `ee_pool` | 2 slots, 2 fetches, one shutdown | 1,547,219 | `OneOwner`, `IdleIsClean`, `AnswerIsOwn`, `NoCapacityLost`, `FailedPoolIsEmpty`, `StoppedMeansNoWorker` |
| `ee_live` | 1 slot, 2 fetches, one shutdown, a first worker that may outlive kill | 389,948 | `OneProcessPerSlot`, `EveryFetchEnds`, `ShutdownEnds`, `CapacityReturns` |
| `request_cache` | 3 calls, 2 keys, room for one entry of one byte and one flight, 1 clear, 1 tick, TTL 1 | 268,640 | `BytesAreExact`, `SingleFlight`, `FreshAfterClear`, `NobodyIsLeftBehind` |
| `usage_ledger` | 2 observations, 2 rows, one row of room, 5 ticks, one kill | 1,023,135 | `CountedOnce`, `LossIsReported`, `DrainedOnStop` |
| `identity_decisions` | 2 requests, 7 keys, 2 resolutions with 2 and 1 candidates, 2 cases | 294,069 | `VersionsAreDense`, `ClosedForGood`, `SucceededIffRecorded`, `LinksFormAChain`, `DecisionsAreSerial` (refines `IdentityLog`) |
| `saved_cases` | 2 sessions, 2 requests at a time, 9 different submissions, 2 receipts, 4 instants | 1,324,398 | `CasesAreSerial` (refines `CaseLog`), `RetryIsReplayed` |
| `quota_control` | 3 users, 7 commands, 2 slots, 2 usage databases; 1 request, 2 operations, 4 hours in 2 days | 322,000 | `AnAdminRemains`, `ActsAreSerial` (refines `AdminLog`), `CountersMatchTheLedger`, `AdmittedWithinPolicy` |
| `parcel_orphan`, `ee_again`, `compact_load` | see section 5 | | violated: `RetriedKeySettles`, `StoppedMeansNoWorker`, `LoadCompletes` |

Each module has a `TypeOK`, or has its types proved by its proof module; the run
of the parcel set checks its own, and the others can be given it.

The question behind each property:

- `ReviewedIsComplete`: can a set stay "reviewed" after a member is added or
  reopened? `PositionsAreDense`: can reordering leave a gap, so that an addition
  under the cap breaks the schema's bound? `ActiveIsMember`: can the focus be
  anything but a parcel in the set?
- `SucceededIffApplied`: the record, the change and the audit event appear
  together, once per key, whatever was lost or crashed. `NoLostUpdate`: the
  version counts exactly the applied commands, so none overwrote another.
  `TransactionIsFresh`: what is about to be committed was computed from the
  set as it is now, and its record is still pending. `OkMeansApplied`: a client
  told "ok" had *its* command applied, under that key. `OutcomeIsFinal`: succeeded and
  failed never change. `ArchivedCaseGetsNoSet`: a set never appears on an
  archived case. `KeepsPromise`: all of it at once, as refinement.
  `EveryRequestEnds`: nothing waits for ever on a row lock of a client that is
  gone.
- `OneOwner`, `IdleIsClean`, `AnswerIsOwn`: no worker is given to two jobs; an
  idle worker has no late answer in its pipe; nobody receives another's
  answer. `NoCapacityLost`: in an available pool every slot that is missing is
  on somebody's list, which the race of a scheduling job with an ending
  controller could break. `OneProcessPerSlot`: a worker that survives kill
  blocks its slot. `FailedPoolIsEmpty`, `StoppedMeansNoWorker`: a pool that
  calls itself failed or stopped has no processes. `EveryFetchEnds`,
  `ShutdownEnds`, `CapacityReturns`: bounded waiting everywhere.
- `BytesAreExact`: the byte count is the sum of the sizes after any mix of
  replacement, eviction, expiry and clear. `SingleFlight`: at most one joinable
  flight of a key in an epoch, never more than max_entries. `FreshAfterClear`: a
  call made after a clear is not answered by an operation started before it.
  `NobodyIsLeftBehind`: a waiting call has its answer or its flight is still
  going on. Given operations that end (providers have timeouts), this is "every
  call ends", stated as safety.
- `CountedOnce`, `LossIsReported`, `DrainedOnStop`: exactly-once unless
  lost, lost only with a count of it (but for a kill, which the documentation
  accepts), and nothing accepted before the stop is left behind by a clean end.

- `VersionsAreDense`, `ClosedForGood`: can two decisions that see none of each
  other's rows take the same number, or one follow a confirmation? `DecisionsAreSerial`:
  all of it at once, as refinement. `SucceededIffRecorded`: a key says
  succeeded if and only if one decision, link or case carries it, whatever
  was lost. `LinksFormAChain`: the links of a case supersede each other one
  by one, in the order of the case's versions, although attachments choose
  what to supersede before they have the case's row.
- `CasesAreSerial`: is every commit legal when it happens, not only when it
  was checked: of a session still logged in, to the current revision, of a
  case that is not deleted, under a new import key, whatever devices, retries and
  orphaned commits do? That deleted cases never come back is
  `docs/contracts/auth-user-api-v1.md:107`. `RetryIsReplayed`: until its receipt
  expires, is a command that was committed replayed when sent again, and no other
  carried out under its key, while receipts are pruned and their table is full?
- `AnAdminRemains`: can administrators who demote or suspend each other at the
  same time leave the platform without one? `ActsAreSerial`: is exactly what was
  accepted done, once, and in the usage database it was accepted for, across
  crashes, retries, demotions and a replaced database?
- `CountersMatchTheLedger`: is what the row says the current hour and day have
  spent what was admitted in them, after calls that waited across a boundary,
  after pruning, and when calls overlap? `AdmittedWithinPolicy`: does an
  admission, with any number of calls in flight, stay within the policy that it read?

### Bounds, and why they are enough

- Parcel set: a cap of two with three parcels reaches the cap, both orders and every
  review status; six applied commands fill, review, mark, reopen and reorder a
  set. The version is bounded by the number of keys.
- Parcel commands: the races are between two transactions on one row; a third
  key lets a retry, a conflict and a fresh command coexist. A request slot is
  reused after its answer, so the number of *attempts* is not bounded, only the
  number at one time.
- Worker pool: the code has two workers (`MAX_LIVE_WORKERS = 2`), and so has the
  run. Two fetches per run hold both, retire both, and one can find the other's
  replacement under way. Each request is made once, so a slot has at most three
  generations. Liveness uses one slot, where the wait for a replacement is
  unavoidable, and its first worker may outlive kill, which blocks the slot
  for good: even so everything ends. `FailedPoolIsEmpty` depends on there being two slots: the
  handling of a `ValueError` rescues one worker, not several.
- Cache: one entry and one flight make every call meet its limit; two keys force
  eviction and overflow; three calls are an owner, a follower and one that
  comes after a clear. The bounds on clears and ticks are named constants.
- Ledger: a tick is half an hour. Retention 2 and marker lifetime 4 are the
  code's one and two hours; five ticks go past both; a skew of one makes the
  inequality below tight.

- Identity: two requests make every race of two transactions; x can be closed
  two ways under one key, has a decision before the closing one and one after
  it; two resolutions are attached to one case one after the other, which is the
  shortest chain. A second case and a version bound of 2 on other clients' updates
  are enough to make an attachment stale.
- Saved cases: a window of two instants and a clock of four let a receipt live, be
  about to expire, expire and be pruned; two receipts at most and batches of
  one leave an expired receipt behind, which fills the table or holds its
  key. Three edits and a delete at revisions 1 and 2 of the first case make each of them
  stale in turn; an import under three keys is new, repeated and different.
- Administration and quota: two administrators, the third user promoted and then
  turning on his promoter; one key used for an account and a quota command; the same
  quota under two keys. The quota has hours of one tick and days of two, so
  three ticks cross both boundaries; two markers at most for three calls, and a
  batch of one, make the capacity and the partial deletion happen. The product
  of the two is cut by a state constraint, `OneIsQuiet`: administrators act
  freely while no call has been made, and calls run freely while one accepted change
  of the policy is ready to commit, has committed, or the database is
  replaced. Nothing else couples them: the quota reads only `policy`, and
  `AdminPlane` reads nothing of the quota (`AdminProofs` proves that each step of the
  composition is one of the control plane or leaves it alone).
- Loader: five facts on three roads in batches of two; two kills.

`CHECK_DEADLOCK FALSE` is set where the system really rests: a set whose keys are
used up, a pool that was shut down, calls that have all been answered, a
process that has ended.

### Fairness

- Parcel commands: weak fairness of each request's own steps (a handler runs
  on, statements return or time out) and of the end of an open transaction (the server
  commits or rolls back, also for a client that is gone). Nothing is assumed to send,
  crash, lose a connection or archive.
- Worker pool: weak fairness of the controller, the coroutines, the jobs,
  shutdown, and of the deadlines that time brings. Workers owe nothing: they may
  never initialize, answer or die.
- Loader: the loader makes progress, the operator runs it again, and the database
  ends what a killed loader has left. Nothing is assumed to kill.
- The others: safety only, no fairness.

## 4. What is proved

TLAPS checks the following for every value of the constants. TLC evaluates the
assumptions on each instance.

| Theorem | States | Along which argument |
|---|---|---|
| `ParcelSetProofs!TypeCorrect`, `ReviewStaysComplete`, `PositionsStayDense`, `ActiveStaysMember` | the four invariants of `ParcelSet` | One inductive invariant, their conjunction. They need one another: an addition takes position max + 1, which is within the cap and leaves no gap only because density makes the maximum equal the member count. Additions, reorderings and the commands that leave positions alone have a lemma each. Assumed: parcels are references, the null focus is not one, the cap is a natural number, and commands are as the service's validation lets them through (`RefsAssumption`, `CommandsAssumption`). `Refs` may be infinite. |
| `ParcelSetProofs!AppliedExactlyOnce`, `NoUpdateIsLost`, `TransactionStaysFresh`, `SuccessIsTrue` | `SucceededIffApplied`, `NoLostUpdate`, `TransactionIsFresh`, `OkMeansApplied` | One inductive invariant of the service (`CInv`), with one lemma per action. To the four invariants of the set it adds, for each slot (`SlotOK`), that a request past `Reserve` works under a record that holds its own command for good, that one waiting for its COMMIT has the open transaction, and that a client told of a success can point to the record. The open transaction's record is pending and its set computed from the current one, since `Execute` needs the row it holds; an initialize of an archived case is not open, orphaned ones included (`NobodyInitializes`). The audit has one event for each succeeded key (`AuditedOnce`), which, with versions 1, 2, 3, ... in it, makes the counting of `SucceededIffApplied` follow. |
| `ParcelSetProofs!OutcomesAreFinal`, `ArchivedStaysEmpty` | `OutcomeIsFinal`, `ArchivedCaseGetsNoSet` | Step properties from the same invariant: the only records written are a request's own, and only while it is absent or pending, and the open transaction's, which is pending. |
| `ParcelSetProofs!KeepsThePromise`, `CommittedSetIsCorrect` | `KeepsPromise`; the committed set satisfies the four invariants of `ParcelSet` | The fate of a key is its record, open while it is pending. A commit is an `Apply` of the command the record holds, because the transaction is fresh; a failure marked on a pending record is a refusal; every other step stutters. |
| `RequestCacheProofs!FlightsAreSingle` | `SingleFlight` | The strengthening says that a joinable flight *of the current epoch* is registered, that registered flights are of the current epoch, and that flights settle before they release. A flight from before a clear is then not registered and may not unregister its successor. |
| `RequestCacheProofs!ClearSeparates` | `FreshAfterClear` | Entries in the cache are of the current epoch; the epoch a call saw when it asked equals the epoch of the flight or entry that serves it. |
| `RequestCacheProofs!EveryCallIsServed` | `NobodyIsLeftBehind` | From the same invariant: a flight ends only after its future is settled, whether it succeeds or fails. |
| `RequestCacheProofs!BooksAreExact` | `BytesAreExact` and the types | The count is the sum over the stored keys, so it loses the expired, the replaced and the evicted sizes and gains the new one. Sums of a function over a finite set are split by lemmas that rest on the fold's definition; what `Without` leaves of the order is found by taking the smallest index at which it would be wrong. |
| `UsageLedgerProofs!NeverCountedTwice` | `CountedOnce` | For every batch that may still be written: if its rows were counted, its marker is still stored or the batch is already too old to be retried. Its key is time: a retry happens at most `Retention` after creation by a clock off by `MaxSkew` either way, hence within `Retention + 2 MaxSkew` of real time, and `LedgerAssumption` says that this is at most `MarkerTTL`. With the code's one and two hours, the wall clock may be wrong by half an hour either way. |
| `UsageLedgerProofs!StopDrains` | `DrainedOnStop` | What was accepted before the stop is pending or in the batch until a flush that succeeds with nothing retained; the loop flushes again after a drain of the retained batch. |
| `UsageLedgerProofs!NoLossIsSilent` | `LossIsReported` | A token stands for one set of rows in every copy of the batch, and a batch whose marker is stored has been counted (`TokenOK`): dropping it as already written loses nothing, and dropping it as too old adds its rows to `expired`. |
| `IdentityProofs!NumbersStayDense`, `ClosingIsFinal`, `DecisionsRefineTheLog` | `VersionsAreDense`, `ClosedForGood`, `DecisionsAreSerial` | A transaction that has passed the indexes holds a row whose number nobody else has taken: if its number is the next one, nobody has decided since it looked, so the resolution is still open and the candidate still not rejected. If it is not, the row of that number is there, and the insert has failed. Hence each commit appends. |
| `IdentityProofs!RecordedExactlyOnce`, `RowsKeepTheirTypes` | `SucceededIffRecorded`; `TypeOK` | A key with a record has at most one slot that works under it or has a commit under way for it (`OneOwner`, `Placed`), and the record stays pending until that commit, which writes record and row together. |
| `IdentityProofs!LinksStayAChain` | `LinksFormAChain` | A link is guarded at the version of its case and committed at that version, and each link raises it: so what it supersedes, the current link when it was guarded, is the last one still (`Passed`, `Final`, `OneCurrent`). |
| `AdminProofs!TheLastAdminStays` | `AnAdminRemains` | Between a mutation's checks and its commit nobody else has the lock of its database, so what was checked still holds: its actor is an administrator and is not its target, and remains. Assumed: there is an administrator at first. |
| `AdminProofs!AdministrationIsSerial` | `ActsAreSerial` | The same invariant, with: a command that is dispatched has its claim; one that is being applied has the usage database it was accepted for and none under its key in it. Steps of the quota leave the control plane alone. |
| `AdminProofs!TheLedgerIsKept` | `CountersMatchTheLedger` | The row agrees with the ledger as of some time not after its last use, and the ledger is empty later. So if the clock has entered another hour or day since, both are empty there. Of a pruned row the same is known for the time it was last used, more than a day ago (`Forgotten`), which is why `QuotaAssumption` has `Day =< SubjectTTL`. A call that decides has the row as it still is (`CallOK`), although its clock may be one tick old. |
| `AdminProofs!AdmissionsKeepToThePolicy` | `AdmittedWithinPolicy` | From the same invariant: what a call compares with its policy is what the ledger has in its hour and day, and nobody else decides meanwhile. |
| `SavedCasesProofs!CasesRefineTheLog` | `CasesAreSerial` | At most one transaction of the user is open past its checks, and while it is nothing it has read changes but the clock. So its command is still legal when it commits, and the commit is one act of `CaseLog`; every other step leaves the log alone. Assumed: submissions are as the API's validation lets them through. |
| `SavedCasesProofs!RetriesReplay` | `RetryIsReplayed` | From the same invariant: a receipt is in the table as long as it lives, for only expired ones are pruned and the clock does not go back; there is one of each scope; and its case is there at a revision no lower than its own. |
| `EarthEngineWorkerPoolProofs!PoolTypes`, `WorkersHaveOneOwner`, `IdleWorkersAreClean`, `SlotsHaveOneProcess`, `NoSlotIsLost`, `AnswersAreOwn` | `TypeOK` of the pool, `OneOwner`, `IdleIsClean`, `OneProcessPerSlot`, `NoCapacityLost`, `AnswerIsOwn` | See below. Assumed: `MaxLive` is at least one, shutdown is called finitely often, requests are finitely many. Which workers resist is arbitrary. |
| `EarthEngineWorkerPoolProofs!FailedPoolsAreEmpty` | `FailedPoolIsEmpty` | `Careful`, below. Assumed besides: at most two slots, and a killed process ends. |
| `EarthEngineWorkerPoolProofs!StoppedPoolsAreEmpty` | `StoppedMeansNoWorker` | `Careful`, below. Assumed besides: at most two slots, and shutdown is called once. Which workers resist is arbitrary. |
| `CompactLoadProofs!LoadedWhenDone` | the loader reports completion only over the whole source | No table ever has a row that is not the source's, so a table of the right count is complete; dictionaries of one transaction are there entirely or not at all; and of the roads, which nothing counts, every one is there because every fact is and has found its road. Assumed (`SourceAssumption`): every road is that of some transaction. |

The worker pool's inductive invariant (`Inv` of `EarthEngineWorkerPoolProofs`) has eight parts,
none of which is inductive without most of the others:

- `Types` and `Phases`: what the controller and shutdown are working on exists where they
  are; before the start nothing is, while starting nothing is idle or asked for, and once
  shutdown has begun the pool is no longer available.
- `Seats`: a slot is in one place at most: the idle queue, a job's hands, the replacement
  events, or the controller's. This gives `OneOwner`.
- `Births`: a generation is born when all before it are closed, and what is idle, held or
  being brought is the newest. This gives `OneProcessPerSlot`.
- `Numbered`: a slot's generation is at most one more than the jobs that have ended. It
  is why the model's bound on generations never stops a replacement.
- `Pipes`: what may be unread in a worker's pipe at each point of its life. An idle
  worker's pipe is empty (`IdleIsClean`), a polled worker's holds its request's answer or
  garbage (`AnswerIsOwn`).
- `Known`: while the pool is available, what is idle, held or being brought is registered and
  not closed, so releasing it puts it back and retiring it is not skipped. A failed
  replacement is in `attempts` only when its worker is closed and nobody's.
- `Covered`: while the pool is available every index has a seat, and where there are
  events there is a controller. This gives `NoCapacityLost`. While it is starting, the
  indexes below the one being spawned have their workers.

TLC checked this invariant before it was proved, on one slot with three requests, a worker that
resists and two calls of shutdown (4.3 million states) and on two slots with two requests and a
worker that resists (2.75 million).

That a pool leaves no process behind needs a second invariant, `Careful`, which follows every
worker that kill can still end (`Firm`) through the lists of the sweep and of shutdown:

- `Ended`: a worker whose kill has been done is not `Firm` any more.
- `Fresh`: the registered workers of an available pool are born, and a closed one is about to
  be popped by the job that closed it.
- `Sparing`: what the sweep goes through has nothing left to stop, or nothing closed (at
  startup), or one of its indexes has no worker but the controller's own. So the
  `ValueError` of a closed `Process` at its head loses at most the one worker that the
  handler rescues (lemma `DropsNothing`).
- `Accounted`: while shutdown is called at most once, every `Firm` worker is registered, in
  the controller's hand or on shutdown's list, unless shutdown has raised and never says
  stopped.
- `Emptied`: once shutdown has joined the controllers none works and nothing that can be stopped
  is registered; a stopped pool has no slots.
- `Spare`: if no worker resists, a pool that is unavailable has no slots left and shutdown has
  not been called.

The hypotheses are needed. A pool that is given up because a worker outlived kill keeps the others
until shutdown, so `FailedPoolIsEmpty` assumes there is none; `StoppedMeansNoWorker` does not.
`MaxLive =< 2` (the code's `MAX_LIVE_WORKERS`)
is used in `DropsNothing` alone; with `MaxLive = 3` TLC finds a failed pool with a live
worker, because the sweep's list loses all that come after the closed head and the
handler rescues one. With a second call of shutdown `StoppedMeansNoWorker` fails, which is
finding 2. TLC checked `Inv` with `Careful` before the proof on two slots and two requests: without
a worker that resists and one call of shutdown (1.55 million states), with one that resists and
two calls (2.99 million), and with two that resist and one call (3.35 million).

Only model-checked:

- Liveness (`EveryRequestEnds`, `EveryFetchEnds`, `ShutdownEnds`, `CapacityReturns`), which
  needs fairness and ENABLED, out of the prover's reach.
- `LoadCompletes`, which the code violates (finding 3); what holds instead is `LoadedWhenDone`.

Induction over data is out of the prover's reach in general, since the library's
induction theorems take an operator. Where a proof needs it for a function on an
interval (the sums, `Without`) it takes the smallest counterexample of a set instead.

## 5. Findings

1. `parcel_orphan` (a contract the code does not keep). A process that dies
   between reserve and its command leaves a pending record that nothing
   completes, expires or takes over. Every retry is answered with MAINTENANCE, which
   `services/vnext/errors.py:47` declares retryable; `docs/vnext/api-contract-v1.md:244`
   promises the original operation's reference.
2. `ee_again` (a bug). `_retire_slot` closes a worker's `Process` before it removes
   the slot. A shutdown in between meets a closed `Process`; the `ValueError`
   leaves `shutdown` with the rest of its list not stopped. A second
   shutdown then finds no slots and reports "stopped" while a worker lives,
   against the docstring at `services/earth_engine_worker_pool.py:470`.
3. `compact_load` (a contract the code does not keep). `load_roads` commits in batches,
   and returns if it finds any road. A run killed between two batches leaves
   some; every later run takes them for all, and `load_transactions` ends in a
   KeyError on the first transaction of a missing road, for ever.
   `docs/plvr/compact-green-production-runbook.md:199` says "The loader is idempotent and
   resumable." It is, if the roads fit one batch or the kills spare them; and it never
   reports completion wrongly (section 4).

Seen as well, without a run: a failed flight of the request cache answers its
followers before its owner unregisters it (`services/provider_request_cache.py:182-185`); a
follower that asks again in between joins the failed flight and is given the
same error without an attempt. The next retry succeeds.

## 6. What is not modelled

- Within the modelled components: wording of audit metadata and read paths;
  the database's clock behind `updated_at` triggers; the cache's metrics and deep
  copies; usage summaries, the 30-day deletion of hourly rows, the start-up
  probe and the writer's status string; a second start of the worker pool
  after a shutdown (the application starts it once); the provider call inside
  a worker.
- Of `persistence.py`, the membership and audit operations. Of identity, how a
  resolution and its candidates come about, and the property, reference and relation
  rows a confirmation writes beside its decision.
- Of the saved cases: memberships (the private service refuses them), lists, reads and activity,
  reports, and the profile and preferences, which are one
  compare-and-set statement each under the same lock; suspension of an account.
- Of the quota: several subjects and their limit of 100,000, the capabilities, the
  count of rejections, and the in-process quotas and semaphores in front of it
  (an operation they have charged and the durable guard then refuses stays charged: they
  only refuse more). Of administration: the audit rows, dashboards and routes.
- Of the loader's source, its validation and checksums; the tools of the pipeline before it.
- A change to the set of a case archived after the transaction's snapshot: the
  code protects initialize only, and no document promises more.
- Hazards no property covers, beside those in `PROJECT.json`: a kill of the process loses
  the usage that is pending, which `docs/operations/api-usage-quota-abuse-v1.md:75` accepts; a
  database clock that steps back turns a legal parcel command into
  validation_failed (migration 018, line 126); calls within the policy are refused with
  'capacity' when 2,048 markers are live (migration 021, line 215), which fails closed by
  intent; the shared overflow bucket of the rate limiter (`services/rate_limit.py:74`), two
  tabs importing one browser case under different keys
  (`legacy_case_import_repository.py:205`), evidence computed for a case read
  before the storage lock is taken (`case-storage.ts:155`), and the checkpoint of
  `services/plvr_cutover_rehearsal.py:482`, complete before its generation is marked loaded.
- Components marked `not_modelled` in `PROJECT.json`, with the reason there:
  either in the plan below, or without state and order to check
  (floating-point statistics, verified artifacts, rendering, scripts).

## 7. Plan

Written so far, in this order: `ParcelSetData`, `ParcelSet`, `ParcelSetCommands`
(which composes the set with the idempotency records and refines `ParcelSet`),
`ParcelSetProofs`, `EarthEngineWorkerPool` and its proofs, `RequestCache` and its proofs, `UsageLedger` and its
proofs; then `IdentityLog`, `IdentityDecisions` and `IdentityProofs`; `AdminLog`, `AdminPlane`,
`QuotaGuard`, their composition `QuotaControl` and `AdminProofs`; `CompactLoad` and
`CompactLoadProofs`; `CaseLog`, `SavedCases` and `SavedCasesProofs`. Left, the most important first:

1. `LegacyImport`: one import per browser case under racing keys.
2. `CaseStorage`: tabs that share one storage item.
3. The in-process limiters and the semaphore of `operation`, in front of `QuotaGuard`.
4. Bounded checks of the pure tax and loan functions against reference
   definitions.

Proofs to add: the step properties behind the liveness of the pool (that a deadline only comes
nearer, that a job's places come in order). Every safety invariant and every action property of
the passing runs but those of section 4's last list is stated by a theorem.
