# Verification of the Smart Commissioning application

TLA+ modules that model the core of this repository, TLC configurations that
check them on small instances, and theorems about them that TLAPS checks for
every value of the constants. Source paths below are relative to the
repository; `RL` stands for
`core/smart_commissioning_core/db/run_lifecycle.py`.

## 1. The system

An operator asks the API for a *run*: a discovery scan of a building network, a
validation, a comparison, a publication. A run is accepted with a frozen
context, waits, is executed by exactly one executor (a thread of the API process
or a Dramatiq worker), and is sealed once with a result that other documents rely
on as evidence. Everything interesting happens because the API, the workers,
the maintenance loops and the operators act on the same rows at the same time,
and each of them may stop between two steps.

### Components, their state and their operations

| Component | State | Operations | Talks to |
|---|---|---|---|
| Run lifecycle repository (`RL`, `db/models.py`) | run rows, contexts, results, seals, conflicts, outbox rows, protocol slots, idempotency keys, links, approvals | create, claim, heartbeat, progress, cancel, finalize, recover, quarantine, approve, revoke | the database; called by all that follow |
| Discovery observations (`RL`, `discovery_observations.py`) | observation rows, the stream's state row (count, newest row, commitment) | append, capture cutoff, fold, commit or start over, recover, quarantine | same transactions as the lifecycle |
| Owned store and heartbeat (`owned_run_store.py`, `owned_run_heartbeat.py`, `engines/base.py`) | lifecycle lock, ownership lost, closing, active mutations, terminal outcome; stop and lost events | append, update, finalize, beat, abandon | the repository; provider threads, executor and heartbeat share it |
| Dispatch (`run_dispatch.py`, `job_queue.py`, `worker/app/tasks.py`, `main.py`) | outbox state, messages in Redis, the maintenance page | publish, mark, execute inline, list pending, deliver, claim | repository, Redis, workers |
| Users, roles, grants (`db/repositories.py`, `rbac.py`, `core/scopes.py`) | user rows, grants | activate, change role, grant, revoke | read by the control fence at finalization |
| Hub synchronization (`sync_v2*.py`, `scripts/sync.py`, `sync.py`) | the hub's runs, imports, credentials, scopes and receipts; the edge's acknowledgements and watermark | bundle, push, verify, classify, store, receipt, apply receipts | an edge command and the hub's request threads, over HTTP or a carried file |
| Retention (`retention_service.py`) | observation jobs with frozen candidates and a cursor, audit, holds | preview, prove and commit a batch, hold, release, purge runs | sealed evidence, reports that cite it |
| MQTT live session (`mqtt_live_session.py`, `scanners_mqtt_live.py`) | one lease, two locks, attached streams | connect, take over, save, stop, reap, relay | one sidecar process, shared with the capture lane |
| Report artifacts (`report_artifacts.py`, `run_service.py`, `reports.py`) | report rows, manifests, files | create, store, complete, discard, delete | the database and the file system, which share no transaction |
| Backup and restore (`backup_service.py`) | snapshot, files read, bundle | back up, restore | database and files of the above |
| Raw evidence, integrity checks, engines, validation, comparison, transport, supervisor, configuration, imports, routes, front end | | input, output and pure computation | the run store |

What makes them correct, in a sentence each:

- *lifecycle*: one run, one executor, one seal, and the seal is final; a stop decides the
  outcome; a resource or an approval never serves two runs; a retry key names one run;
- *observations*: a seal covers everything that was accepted, or says that the
  evidence is damaged and covers nothing, and it says so only when it is;
- *owned store*: nothing is written behind a captured cutoff, a success reached is
  a success sealed, and threads agree on who owns the run and how it ended;
- *dispatch*: an accepted run is executed at most once and is sealed in the end;
- *synchronization*: a run is taken for delivered only when the hub holds it with its
  evidence, what the hub holds is never replaced, and resending is always safe;
- *retention*: nothing under a hold goes, every deletion is audited once, a job ends;
- *live session*: the shared sidecar shows, and a save stores, what belongs to the
  session that holds the lease; a session is reclaimed, but not while it is watched;
- *reports, backup*: a published report has its bytes, and nothing is left of a report
  that failed or was deleted.

### Hard behaviours

Concurrent transactions with and without row locks (SQLite serializes writers from
BEGIN IMMEDIATE; PostgreSQL runs at READ COMMITTED with `FOR UPDATE`), values
read before a lock and used after it, leases on a wall clock, folds that run
outside any transaction, threads that cannot be cancelled, two systems updated without a
common transaction (database and Redis, database and files, edge and hub), a shared
process driven under two locks, batches that resume after other requests have
changed what they work on, lost acknowledgements, crashes and
redelivery. `PROJECT.json` lists each hazard at its line with the properties that
would catch it.

## 2. Modules

| Module | Models | Checked by | Proved in |
|---|---|---|---|
| `RunLifecycle` | the lifecycle tables and every transaction on them | `MCRunLifecycle` | `RunLifecycleProofs` |
| `RunPromise` | abstract: a run is opened, started, stopped, closed | refinement in `RunSlots.cfg` | `RunLifecycleProofs`, `DiscoveryEvidenceProofs` |
| `DiscoveryEvidence` | the observation stream of one run and the three ways it is sealed | `MCDiscoveryEvidence` | `DiscoveryEvidenceProofs` |
| `EvidencePromise` | abstract: observations are accepted until a seal covers all or nothing | refinement in `Evidence.cfg` | `DiscoveryEvidenceProofs` |
| `OwnedExecutor` | one executor's threads around an `OwnedRunStore` | `MCOwnedExecutor` | `OwnedExecutorProofs` |
| `RunDispatch` | outbox, queue, workers, inline execution, maintenance | `MCRunDispatch` | `RunDispatchProofs` |
| `HubSync` | edges, the hub's ingest of bundles, receipts, the older protocol | `MCHubSync` | `HubSyncProofs` |
| `Retention` | observation jobs, holds, the purge of runs, reports as their guards | `MCRetention` | `RetentionProofs` |
| `LiveSession` | lease, ceremonies, relays and captures around one sidecar | `MCLiveSession` | `LiveSessionProofs` |
| `ReportArtifacts` | report rows and files, deletion, backup and restore | `MCReportArtifacts` | `ReportArtifactsProofs` |

The first six modules are layers of one system: `RunLifecycle` has the
transactions of all runs, and the others open up a part that it takes as one step:
`DiscoveryEvidence` opens the finalization of a discovery (`FinalizeRun`,
`RecoverExpired`, `QuarantineExpired`), `OwnedExecutor` what happens inside the
process between `ClaimRun` and `FinalizeRun`, `RunDispatch` what happens between
`CreateRun` and `ClaimRun`. Steps of a deeper module that change the run's row
are the same transactions (`_apply_finalization`, `claim_run`, `heartbeat`,
`recover_expired_leases`). The last four take a sealed run as given and follow what
becomes of it: delivered, aged, reported, backed up, or, for captures, what it
shares with a live session.

In each module a transaction or a critical section is one action, because a
writer holds the database's write lock, the row lock or the store's lifecycle
lock. Where the code reads without that lock, the read and the write are two
actions. The conversions left out (identifiers, digests, summaries, wording) are model
values or stages.

### RunLifecycle

`status`, `stage`, `owner`, `attempt`, `lease` and `cancelRequested` are columns
of `runs`; `request` is the frozen context; `sealed` is the result and seal;
`dispatch`, `slot`, `idem`, `links` and `auth` are the other tables; `user` is
what the control fence reads of the initiator. `now` is the database
transactions' clock; operations that sample the time before they wait for the
lock take it from `SampledTimes`, up to `LockWait` ago. `request_cancel` is
`CancelRead` followed by `CancelQueued`, `CancelRunning` or `CancelTooLate`
(`cancelView` is the row it read). Deviations from the code, all deliberate:

- runs with a historical context, whose finalization skips the control fence, and runs whose
  stored context is corrupt are left out;
- `state_version` is left out: the writers it guards are already ordered by the locks;
- administrators who change users are not themselves users of the model, so the
  last-administrator guard is not part of it;
- the fallback of the owned store to `finalize_run` on
  `run_scope_authority_invalid`, and `acquire_protocol_slot`, which no
  production code calls, are left out.

### DiscoveryEvidence

An observation is its cursor, so the stream is the number `accepted`. An append
is two steps: the fence and insertion under the row lock (`AppendObservation`) and
the COMMIT (`AppendCommits`); every writer waits for it, an unlocked read does not.
The owner captures a cutoff, reads `PageSize` rows at a time outside any
transaction, and commits; the commit starts over when the stream has grown.
A sweep captures in two statements (`SweepCapture`, `SweepCountRows`) that see
one snapshot on SQLite and two on PostgreSQL (`SnapshotReads`), folds and then
locks, re-checks and commits, or quarantines. `DamageRow` is something outside
the program that alters or removes a stored row.

### OwnedExecutor

The store's fields under their own names; program counters for the executor
(engine, draining, finalization with its retries by wrapper and guard), the
heartbeat and `abandon_and_join`; writers are provider threads. A scalar job
keeps the lifecycle lock over its database call. Timing
is abstracted to the nondeterministic `Lapse`. `AppliedIsNotLost` says nothing
once a shutdown fences the store; `ScalarAppliedIsNotLost` is the part of it that
the lock guarantees.

What a finalization seals is decided in its transaction (`Terminal`): an accepted stop
(`Stop`) overrides every result but a cancellation, and the success of a discovery whose
approval or initiator no longer stands (`ControlLost`) becomes a failure. Whether a
repeated finalization is a replay is decided by the result's digest, so a result is
named by who writes it: a second failure with another stage is a conflict.

`Interrupt` is the exception that the time limit of a worker's actor raises once,
anywhere in the executor thread; a run executed inline meets none. It may unwind the
engine first, strike a finalization before or after its COMMIT, or cut the wrapper's
own answers short; the handler of the discovery and UDMI actors then finalizes as failed
and looks at no outcome (`_fail_interrupted_run`). A discovery whose finalization it
strikes keeps `closing` set, since only an `Exception` reopens the sink. Left out: an interrupt
inside `_begin_mutation` that leaks its count, and a frozen context that is corrupt.
`DatabaseRaises` is a driver error or evidence that does not fold.

### RunDispatch

`request[r]` is where `dispatch_run` stands for the request that created `r`;
`maint` is a pass of `publish_pending_dispatches` with the rest of its page;
`queue` holds the messages in Redis, which keeps one until it is acknowledged; a
claim is granted, refused (the run moved on, or its approval lapsed) or fails,
perhaps after its COMMIT. `ActorlessRuns` are those of routes that pass
`enqueue = None`; they execute inline in every mode. `limit` is the length of a page,
100 in the code, fixed in `Init`. An execution seals its run in one step; when that step
does not come is for `OwnedExecutor` to say.

`LiveRunsAreAttended` and `AcceptedRunEnds` name two exceptions, which are
what the code does. A claim that raises in a worker ends the delivery (actors have
`max_retries=0`) while the row says published, and nothing publishes it again. An
inline run whose process dies before the claim is in nobody's queue. In both cases the run stays queued:
`sweep_interrupted_runs`, which would fail it, is called by the tests only. `AcceptedRunEnds`
has a third one, `Starved`: a pass lists the oldest pending rows whatever became of
their runs, and a row it skips (its run was stopped before it was published, or executed although
its row could not be marked) stays pending and in its place. Once such rows fill the page,
no later row is ever published.

### HubSync

`hub` is the hub's row of each run: whose content it is, the credential that
stored it (none for the older protocol), and which parts of its evidence it has.
`sender[e]` is the command `app.scripts.sync` of an edge between building its bundle
and applying receipts; `delivery[d]` a hub thread between two items, each of which is
checked for scope, verified, and classified and stored in one transaction (`Store`).
Requests and answers are lost (`SenderGivesUp`, `online`), files are carried by hand, a
transaction fails and its receipt says `partial_bundle` (`StoreFails`), the hub dies, and
a key or a scope is withdrawn while an item is between two steps. Digests,
signatures and the archive are their verdicts. A bundle is built whole or not at all
(`Buildable`): a run that lost its evidence (`EvidenceLost`), or more runs than `limit` (500
in the code, fixed in `Init`), end the command with nothing sent, every time; only
`--run-id` (`PushChosen`) sends the others. Left out: pruning at the hub, which keeps
the acknowledged rows, and the bound on a bundle's bytes, which acts like the one on its runs.

### Retention

`rows` and `present` are what is left of each run's observations and the run itself;
`job` is the active job with its frozen candidates and cursor; `applier[a]` is a
request of `apply` between its read transaction (`Prepare`, `Prove`), whose proofs it
carries, and its write transaction (`Commit`), which repeats the plan's checks
(`PlanHolds`). The purge of whole runs reads its evidence links and deletes later;
it spares runs that are held, cited by a report, or frozen by the active job, and looks
at no status or slot, unlike `Blocked`, which stops a batch. `ReportReadsSources` and `ReportCommits`
are two transactions, so a purge may take a source in between: the report
then cites a run that is gone and keeps its own snapshot of it. Left out: retention of raw files,
ages and statistics; every run is old enough.

### LiveSession

`ceremony` is both the ceremony lock and the place its holder has reached in the calls
to the sidecar; the lease lock makes a critical section one action, except for the
admission, which reads running and queued captures in two transactions
(`ReadRunning`, `Acquire`). `client`, `tree` and `register` are the sidecar, `newest` the
imports a save adds. The capture lane takes the lease lock to be admitted and
no lock to drive. `beside` is a history variable: a session admitted beside a
driving capture is excepted from the view properties, and finding 3 shows how that
happens. Left out: publishing (`scanners_mqtt_live.py:768` checks the session and
sends later), which concerns the broker and not the sidecar's state; search, focus and
subscription calls; a register uploaded during a session; and a second capture
driving at once, whose outcome is no one's.

### ReportArtifacts

A request's place (`create`), its row, its temporary and final file; every step may
fail or crash, and `Complete` may fail after its COMMIT. `excused` is a history of what a
swallowed error, a crash or a restore left behind, `deleted` of what a deletion
named. A backup copies the rows, then lists and reads the files one by one. A restore writes over
the runtime root: a log left by a crash replaces any of the restored rows (`wal`). Left out: the checks of signature and
digest before bytes are served, two backups at once (they share one scratch file), and a
restore that is itself interrupted, which is repeated.

## 3. Runs

| Run (cfg) | What it asks | Instance | States |
|---|---|---|---|
| slots (`RunSlots`) | slots, leases, retry keys, and the refinement of `RunPromise` (one opening, one start, a stop that decides, one seal) | 2 runs, 2 tokens, 2 resources, 1 key used for two bodies, lease of 2 on a clock of 3, a lock wait of 1 | 209 000 |
| lineage (`RunLineage`) | success only under control, revocation, approvals and their links, parents | 2 runs, an approval, two plans, a named engineer who loses role, account or grant, a retry and a property expansion | 1 440 000, by symmetry of the tokens |
| evidence (`Evidence`) | seals cover the evidence; quarantine needs damage; refinement of `EvidencePromise`; finalizations return and expired runs are sealed | SQLite, budget of 2 rows, pages of 1, a sweep that may be killed once | 414 000 |
| evidence_read_committed | *violated*: finding 1 | PostgreSQL | |
| owned (`Owned`) | the sink is drained, success is kept, a scalar job's applied outcome is never called lost, one outcome, no executor leaves a run of its own, the run is sealed, the heartbeat ends | a discovery or a scalar job, 2 provider threads, shutdown, a stop, lost control, a time limit, a database error | 616 000 |
| dispatch (`Dispatch`) | one execution; every live run has somebody who will go on with it; accepted runs sealed | a published and an inline run, 2 workers, pages of 1 and of 2 rows, one of each fault | 136 000 |
| hub (`Hub`) | what is acknowledged is stored, acceptance, no replacement, authority, resending, delivery in the end | 2 edges that share two identifiers and an import, a spare key, the older protocol on one edge, 2 threads, bundles of at most 1 and 2 runs, any 2 faults | 540 000 |
| retention (`Retention`) | holds, audit, a batch's plan outlives what happens between its transactions, end of a job | runs of 3 and 1 rows interleaved, batches of 2, 2 requests, a hold, a report, 2 jobs, a purge or crash | 258 000 |
| retention_stuck (`RetentionStuck`) | *violated*: finding 2 | the same without report or purge | |
| live (`Live`) | the view and the saved register are the holder's, watchers are counted, sessions are reclaimed | 2 sessions of two workspaces, a capture, 2 viewers | 375 000 |
| live_overlap (`LiveOverlap`) | *violated*: finding 3 | the same | |
| reports (`Reports`) | published reports have bytes, rows and bytes agree | 2 interchangeable reports, unbounded crashes, backups and restores | 2 750 000, by symmetry |

**Bounds.** Two runs are enough for every conflict over a slot, a key, a
token or a queued message; a second use of an approval, and a second competing sweep,
are beyond the bounds of these runs and covered by the proofs, which hold for
any number. A clock of lease + 1 has moments before, at and after the deadline; a lock
wait of one tick lets a sampled time fall on the other side of it. A budget of two rows
with pages of one has a first, a last and a refused observation and a fold that stops
in the middle. Two provider threads have one inside a call while another begins. Two
edges with the same run and import identifiers have every conflict of content; two
faults are one in each direction, or a loss and a revocation. Three rows in batches of two
with a foreign row between them make a batch end inside a run, which is where holds
bite. Two sessions are a holder and the one that takes over; the two viewers
are the late detachment of one session against the next. Every bound is a constant in
a guard (`MaxTime`, `MaxConflicts`, `MaxCrashes`, `MaxErrors`, `MaxFaults`,
`MaxClaimErrors`, `MaxHolds`, `MaxJobs`). A page and a bundle of one are filled by one row
and by one run, those of two by none of them: the limits of 100 and 500 bite and do not.
One database error, a time limit and a shutdown are three
failures in any order; longer chains of errors are the proofs', which bound none of them.

**Deadlock** is checked for `RunLifecycle` and `ReportArtifacts`. The other modules end: a sealed
run, finished threads, an empty queue, everything delivered, no session left; their runs
say `CHECK_DEADLOCK FALSE`.

**Fairness.** *Evidence*: transactions end (statement, lock and
idle-in-transaction timeouts in `db/engine.py`), a finalization that has begun runs
on, sweeps repeat every five seconds (`main.py:125-148`); the clock, clients and
executors owe nothing. *Owned executor*: threads are scheduled and database calls
answer, a discovery engine ends by its sealed deadline, a lease that nobody
renews lapses. Indefinite captures of other job types have no such deadline,
which is why `RunIsSealed` is checked for discoveries only. *Dispatch*: requests
go on while their process lives, the maintenance loop repeats,
a free worker takes a message, an actor has a time limit (15 minutes to 49 hours,
`worker/app/tasks.py:389-551`), recovery follows a lost executor. An inline execution has
no such limit, so an inline run is only said to be claimed. *Hub*: the sync
command is run again and again on every edge (it is re-runnable by design, see
`docs/sync-v2-operations.md`) and a request that
arrived is worked on; faults are bounded, so only finitely many runs of it fail.
*Retention*: the operator repeats the application, one bounded batch each
(`routes/evidence.py:344`), until the job's status is complete. *Live session*: the calls of a ceremony have timeouts, the cap
passes, and the reaper, which wakes every 15 seconds and waits for the ceremony lock
among others, gets it in the end; this one fairness is strong, the others are weak.

## 4. Findings

1. **evidence_read_committed**: on PostgreSQL a sweep's two unlocked reads fall on two
   sides of an append's COMMIT, the counts disagree, and intact evidence is
   quarantined.
2. **retention_stuck**: a batch skips the rows of a held run and moves its cursor past
   them. Released before the last batch, the run loses its terminal row and keeps
   earlier ones; the next job that freezes it cannot be verified, ever.
   `JobEndsUnlessStranded` says that this is the only way a job does not end.
3. **live_overlap**: the guard of a live connect reads running and then queued
   captures; one that is claimed in between is in neither answer, and
   session and capture drive the sidecar together.

Some observations about the code have no run of their own; each is an exception that a
property names, and without which TLC refutes it.

- *Starvation in the outbox.* `infra/README.md:61-62` says that "the durable outbox
  keeps the dispatch pending for automatic retry", and `run_dispatch.py:5-6` the same. Rows that
  maintenance skips stay the oldest pending ones; a hundred of them fill its page, and no later
  row is retried. Without `Starved` in `AcceptedRunEnds`, TLC finds it after a
  stopped run whose row fills a page of one and a refused publication behind it.
- *Bundles.* One run that cannot be exported, or more than 500 pending, ends the sync command
  on every repetition and keeps back every other pending run of the edge:
  `PendingIsAcknowledged` asks for `Buildable`.
- *Inline runs.* A process that dies before the claim leaves its run queued
  (`AcceptedRunEnds`).
- *Time limit.* `worker/app/tasks.py:382-386` says that the handler of the time limit records
  "a real 'failed' run promptly". An interrupt inside a discovery's finalization leaves the
  sink closed, the handler is refused, and the run is sealed only when its lease lapses
  (`NoOwnRunIsLeft` excepts it). After a scalar job's applied outcome the handler
  finalizes again and records a conflict (`OneOutcome` excepts it), which the inline
  executor takes care not to do (`run_dispatch.py:190-194`). In the clause that stops the heartbeat
  it leaves a thread that renews the lease for ever (`RunIsSealed` excepts it, `cut`).
- *Two critical sections.* The heartbeat (and `abandon_and_join`) reads the outcome and
  fences the store separately; a discovery's finalizer, which releases the lock, may record
  `applied` between them: `ScalarAppliedIsNotLost` claims the opposite for scalar jobs only.
- *Older protocol.* A report that reached the hub without its contract is a conflict when it
  comes again through v2: `Resent` in `ResendIsNeverConflict` asks for the contract.

## 5. Proofs

Every theorem holds for all values of the constants that satisfy the module's
assumptions: any sets of runs, tokens, resources, keys, approvals, users, workers,
sweepers, threads, edges, credentials, sessions, viewers and reports, any clock, budget and page, any number of faults. No other assumption is made, with
one exception, which is named. Some of the assumptions say only that a null value is
not a record (`RowsAssumption`, `LeaseAssumption`, `NoneAssumption`), which TLC's model
values satisfy. Where a run checks `FairSpec`, the theorem is about the weaker `Spec`.

**RunLifecycle.** `RunLifecycleProofs` proves every
property the runs of this module check, and the invariants below them:

| Theorem | Statement |
|---|---|
| `TypeCorrect` | `Spec => []TypeOK` |
| `SealsMatch` | `Spec => []SealMatchesRun` |
| `SlotsExclusive` | `Spec => []SlotsFollowLiveRuns` |
| `StopsDecide` | `Spec => []StopDecidesOutcome` |
| `UnstartedNeverOwned` | `Spec => []UnstartedSealsHadNoOwner` |
| `SealsAreFinal` | `Spec => SealedForever` |
| `LeaseSeparates` | `Spec => LeaseSeparatesOwnerFromRecovery` |
| `ExecutionIsUnique` | `Spec => ExecutedOnce` |
| `LapsesAreFinal` | `Spec => LapsedLeaseStaysLapsed` |
| `KeysAreUnique` | `Spec => []KeyNamesOneRun` |
| `ParentsStaySealed` | `Spec => []ParentsAreSealed` |
| `SuccessIsControlled` | `Spec => SuccessUnderControl` |
| `ApprovalsPayOnce` | `Spec => []ApprovalLineage` |
| `RevocationsStop` | `Spec => RevocationStopsSuccess` |
| `LifecyclePromiseKept` | `Spec => KeepsPromise` |

None of the invariants is inductive alone. `LifecycleInv` joins the first five with two
facts: a run has a request exactly when it exists (`ContextsComplete`), which
ties slots to resources, and a run that executes has an owner while a queued one has
none (`OwnersExecute`), which is what makes the guarded update of
`request_cancel` safe although its read took no lock. The argument has two
layers: `StepEffects` shows that every action of `Next` is, for the run's row,
one of five kinds (quiet, create, claim, touch, seal), and one lemma per kind
(`CreateKeepsInv`, `ClaimKeepsInv`, `TouchKeepsInv`, `SealKeepsInv`; a quiet
step is immediate) shows that it keeps the invariant. The action properties
follow from the invariant and the same classification (`SealedStep`, `OwnedStep`,
`LapsedStep`), and so does the refinement: the kinds are `Open`, `Start`, `Stop` and
`Close` of `RunPromise`. Keys need that a key leads back to its run (`KeysLead`);
approvals need that each was spent on a discovery (`SpentOnDiscovery`), because the
fence at finalization looks at discoveries only.

**DiscoveryEvidence.** `DiscoveryEvidenceProofs`:

| Theorem | Statement |
|---|---|
| `TypeCorrect` | `Spec => []TypeOK` |
| `SealsCover` | `Spec => []SealCoversEvidence` |
| `PromiseKept` | `Spec => KeepsPromise` |
| `OutcomesMatch` | `Spec => []OutcomeMatchesSeal` |
| `QuarantineJustified` | `SnapshotReads` and `Spec` imply `[]QuarantineNeedsDamage` |
| `RestartsArePaidFor` | `Spec => StartsOverOnlyForGrowth` |
| `ExpiredStreamsClose` | `Spec => []ExpiredStreamGrowsOnce` |
| `LifecycleStepsKept` | `Spec => StepsKeepLifecycle` |

`EvidenceInv` adds that an append in flight belongs to a running run with room
in its budget (`AppendIsFenced`) and that a run is open exactly while it runs
(`RunningIsOpen`). `StepEffects` shows that a step leaves stream and verdict
alone, adds one observation, or seals the run with all of them or as a
quarantine; both theorems on the seal follow. What the owner is told follows
from `OwnerIsTold`: an answer that claims the seal comes after one.
`QuarantineJustified` needs the assumption that the two statements of a sweep's capture see one snapshot,
which is true of SQLite; `DamageIsReal` then says that no fold and no sweep
suspects anything before a row was damaged. On PostgreSQL the
assumption fails, and finding 1 is the counterexample.

The next two are what safety has to say about the liveness of this module, on either
database: a finalization or a recovery starts over only when an observation was accepted
behind its cutoff, and a run that a sweep has found expired gains at most the one append
that was in flight, so its recovery starts over at most once. `CutoffInv` says that no
cutoff and no observed time is ahead of the stream and the clock; the step lemmas
`StepAdvances` (a run that is still expired at an earlier moment was expired before,
and the stream moved by what was in flight) and `StepKeepsCutoffs` (only a capture
chooses a cutoff) give both. `LifecycleStepsKept` joins this module to the one above it:
every step of owner, clients and sweeps is `Stop` or `Close` of `RunPromise` or
leaves its state alone, so that a stop accepted at any point of a fold decides the verdict
of all three ways to seal. The run begins here as claimed; `RunLifecycle` proves the rest
of the promise.

**OwnedExecutor.** `OwnedExecutorProofs`:

| Theorem | Statement |
|---|---|
| `SinkIsDrained` | `Spec => []SinkDrainedAtCutoff` |
| `OutcomeIsFinal` | `Spec => OneOutcome` |
| `ScalarOutcomeIsSafe` | `Spec => []ScalarAppliedIsNotLost` |
| `SuccessesAreKept` | `Spec => []SuccessIsKept` |
| `TypeCorrect` | `Spec => []TypeOK` |
| `StoreBeliefsAreTrue` | `Spec => []BeliefsAreTrue` |
| `NoRunIsLeft` | `Spec => []NoOwnRunIsLeft` |
| `SuccessesAreReal` | `Spec => []SuccessIsTheEngines` |
| `FencesHold` | `Spec => FencedNeverSeals` |

The first rests on `SinkInv`: the counter of active mutations is the number of
threads inside a call (by cardinality lemmas), and a closing sink has none. The second needs that an executor with
an outcome has nothing left to finalize but what the handler of the time limit asks for
(`OutcomeEndsWork`), which a discovery's store refuses. The third is an
argument about the lock (`LockInv`): a scalar job holds it from the check of its ownership
to the record of its outcome, a refused heartbeat means the run is gone or the store is fenced, so the
mark that follows comes too late to contradict an applied outcome. A discovery releases
the lock in between, and its heartbeat may then contradict it. The fourth,
`SuccessInv`, says that a finalization in progress cannot be fenced
(`FinalizerIsShielded`: the fence looks at `closing`, and a scalar job has the lock), and that the
writers of a success have finished before its finalization begins, so that only a fence,
a database error or the time limit makes the executor ask for a failure instead
(`SuccessIsPursued`); a stop and lost control replace the success in the transaction itself.

The last four are about what the threads believe and what the row says. `BeliefInv` is
inductive next to `SuccessInv`: the answer an executor carries between the call and the
record of its outcome is true of the row (`AnswersAreTrue`), a refused heartbeat and a fence
that no shutdown put up mean that the run is gone (`FencesAreTrue`), whoever asks for a success
has one (`SuccessIsAskedFor`), and an executor that returned without an error or a shutdown
leaves no run behind that it still owns (`LeavesNoOwnRun`). Ownership, once lost, is lost for ever, which is why an answer
stays true however late it is recorded. A fenced store seals nothing because the fence waits
for a finalizer that is at work. Of discoveries `NoOwnRunIsLeft` is about the successes that met no
interrupt: one that failed may be left to the lapse of its lease by a provider thread still
inside a call, one that was interrupted in its finalization by the sink it left closed.

**RunDispatch.** `RunDispatchProofs`:

| Theorem | Statement |
|---|---|
| `RunsExecuteOnce` | `Spec => []ExecutedOnce` |
| `PublicationsAreDeliverable` | `Spec => []PublishedIsDeliverable` |
| `WorkersOwnWhatTheyExecute` | `Spec => []WorkersExecuteTheirOwn` |
| `InlineRunsStay` | `Spec => []InlineRunsStayInline` |
| `NobodyIsForgotten` | `Spec => []LiveRunsAreAttended` |

`DispatchInv` says that a run is claimed at most once and not before it is
running, that a free worker holds no run, and that nobody is about to mark a
row as published in vain: wherever a request or the maintenance pass stands
between publication and mark, the message is already with the queue or a worker
(`NothingInVain`).

`LiveRunsAreAttended` is the safety half of `AcceptedRunEnds`: at any moment a run that is
not sealed has somebody who will go on with it (its request, a row the maintenance pass lists in its turn, a
message, a worker, its executor, or recovery), but for the two exceptions. `AttendInv` makes it
inductive: an owner is where the run says it is (`OwnersKnow`, `ExecutorsOwn`), a busy worker
holds a run (`BusyWorkersHoldARun`), runs that execute inline and runs with an actor never meet in the
queue (`Separate`), and a queued run is in a row or in a request (`QueuedIsKnown`). The
theorems assume that the names of the API and of nobody are not those of workers.

**Retention.** `RetentionProofs`:

| Theorem | Statement |
|---|---|
| `TypeCorrect` | `Spec => []TypeOK` |
| `AuditsConserve` | `Spec => []AuditConserved` |
| `CandidatesStay` | `Spec => []CandidatesExist` |
| `FreshPlansAlwaysHold` | `Spec => []FreshPlansHold` |
| `HeldRunsAreKept` | `Spec => HeldIsKept` |
| `JobsMoveForward` | `Spec => JobMovesForward` |
| `OnlyCandidatesLoseRows` | `Spec => OnlyCandidatesShrink` |

The audit is a sum per run, so that one transaction adds to it what it takes away: a
cardinality lemma on `rows[r] \ gone` is enough. What is hard is the plan. A request reads its
window and its proofs in one transaction and commits in another, and
`FreshPlansHold` says that holds, slots, purges and reports in between never make the
second one refuse: only another request's progress does. `RetentionInv` needs, for the job,
that its number is the newest, that its cursor is short of its high water and that
the terminal row of each frozen run is there or behind the cursor, unless no batch has
touched the run (`JobInv`); and, for each request, that a binding which still matches has
the window and proofs a new request would get (`PlanInv`). Both rest on the purge sparing
candidates (`CandidatesExist`). The window is the first rows ahead of the cursor and the high
water the largest of a finite set: that such elements exist (`Extremes`) is shown by
minimal counterexample over the strict subset order of finite sets (the library's
`FS_StrictSubsetOrderingWellFounded`), which needs none of the induction theorems.

**HubSync.** `HubSyncProofs`:

| Theorem | Statement |
|---|---|
| `TypeCorrect` | `Spec => []TypeOK` |
| `StoredStays` | `Spec => StoredNeverChanges` |
| `AcknowledgedRunsAreStored` | `Spec => []AcknowledgedIsStored` |
| `AcceptancesAreStores` | `Spec => []AcceptanceIsTheStore` |
| `StoresAreAuthorized` | `Spec => StoredUnderAuthority` |
| `ResendsAreSafe` | `Spec => ResendIsNeverConflict` |

Each step of hub or edge is one of a few kinds: it stores one row, adds to one, or leaves
them (`Grows`). What an edge believes follows from the receipts on their way: those
in a thread's hands and in the edge's answer are true (`ReceiptsAreTrue`), and
they stay true because rows only grow (`HoldsStays`). What an edge can bundle plays no part in
safety: no proof looks at `unbuildable` or `limit` but the one of their types. Acceptance is an equivalence
between a receipt and the row's `via`, which one transaction sets together.

**LiveSession.** `LiveSessionProofs`:

| Theorem | Statement |
|---|---|
| `TypeCorrect` | `Spec => []TypeOK` |
| `Invariant` | `Spec => []IInv` |
| `LiveViewBelongsToTheHolder` | `Spec => []LiveViewIsTheHolders` |
| `SavesAreOfTheHolder` | `Spec => SavedRegisterIsTheHolders` |
| `WatchersCount` | `Spec => []WatchersAreCounted` |

`IInv` has four parts: a ceremony past its guard belongs to the session that
holds the lease; while somebody holds it alone no capture drives or is about to; the
registers read before any lock are of the reader's workspace; and, for each step
of a ceremony, what of the sidecar is the holder's already (`ViewInv`). The count of
watchers needs that a request is over before its session is watched, so that a
late relay never names the next session.

**ReportArtifacts.** `ReportArtifactsProofs`:

| Theorem | Statement |
|---|---|
| `TypeCorrect` | `Spec => []TypeOK` |
| `Invariant` | `Spec => []IInv` |
| `PublishedReportsHaveBytes` | `Spec => []PublishedHasBytes` |
| `RowsAndBytesAgree` | `Spec => []RowAndBytesAgree` |
| `BundlesAreWhole` | `Spec => []BundleHasBytes` |

`IInv` says for each place of a request which of row and bytes may exist (`Staged`), that
a report nobody asked for is in no snapshot either (`Untouched`), and that what a
snapshot or a bundle publishes has its bytes among the files read or still to be
read, unless it was deleted (`Backed`): rows are copied first, so the bytes
they name can only have gone by a deletion.

Every safety invariant, action property and refinement that a passing run checks is proved
(`QuarantineNeedsDamage` for SQLite, which is what its run checks). Only model-checked: the liveness properties (`FinalizationEnds`,
`ExpiredRunsAreSealed`, `RunIsSealed`, `BeatEnds`, `AcceptedRunEnds`,
`PendingIsAcknowledged`, `JobEndsUnlessStranded`, `SessionsAreReclaimed`), because TLAPS does
not reason about fairness (ENABLED); and the counterexamples of section 4. Of `RunDispatch` the
proofs cover the types of all but the maintenance page, which the recursive `SelectSeq`
builds. The theorems without a run state properties that were model-checked on the instances of
section 3 before they were proved; `TypeOK` is proved instead of checked wherever there is a
theorem `TypeCorrect`.

## 6. Plan

1. Done: the lifecycle, the evidence, the executor and the dispatch; hub
   synchronization, retention, the live session, reports with backup and restore; and the
   proofs of every safety property the runs check.
2. Next: the last-administrator guard (`db/repositories.py:236` counts the
   administrators without locking a row; SQLite serializes the two transactions,
   PostgreSQL does not); raw evidence files, which repeat the order of report
   artifacts; configuration publish and rollback through a broker that answers late; the
   supervisor's restarts; the observation fold and the comparison as operators against a
   reference definition; two backups at once.
3. Further proofs: `OwnedExecutor` and `RunDispatch` as refinements of `RunPromise` (for
   `DiscoveryEvidence` this is done); what holds of `HubSync` and `LiveSession` at every moment when
   their liveness properties hold.

## 7. Not modelled

Most of the implementation is protocol input and output of the engines, schema and payload
validation, report rendering, request validation, views, the front end, migrations,
packaging and vendored code. It keeps no shared state that a step of another component could
disturb; what a model could say of it is what the code says, and the map
therefore covers a small share of the lines: those where the order of steps
matters. Of the modelled components, section 2 says what each module leaves out.
