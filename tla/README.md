# Formal model of cloud-job-orchestrator

TLA+ specifications of the orchestrator: the PostgreSQL store that owns every
durable state change and the answers its HTTP API gives, the in-memory reference
scheduler, the abstract job life cycle that both implement, the fleet of worker
processes on top of it, the validation of submissions, and the readers (pages and
dashboard). TLC checks small instances; TLAPS proves every safety property that the
passing runs check, and both refinements, for every dependency graph and request and
any number of sessions, workers, owners and tokens. Liveness is model-checked. Paths
below are relative to the repository root.

## The system

| Component | State | Operations | Modelled |
| --- | --- | --- | --- |
| `PostgresStore` (`src/store.rs`, `migrations/0001_control_plane.sql`) | tables `dags`, `jobs`, `job_dependencies`, `job_events` | submit, claim, heartbeat, complete, fail, reap, cancel; snapshot, list_dags, ready (reads) | `Store` (all writes), `ReadSide` (snapshot, list_dags) |
| Reference scheduler (`src/scheduler.rs`) | `dags`, job records, heap `ready`, `sequence` | submit, claim, heartbeat, complete, fail, reap, cancel; snapshot (read) | `Scheduler` (all writes) |
| Domain validation (`src/domain.rs`) | none | `DagSpec::validate`, `validate_payload` | `DagValidation`, `JobKinds` |
| HTTP API (`src/http.rs`) | none (replicas are stateless) | one handler per store operation, error codes, pages | `HttpApi`, `ReadSide` |
| Worker (`src/bin/orchestrator_worker.rs`, `src/worker.rs`) | the claim it holds | claim, execute, complete or fail, in a loop | `WorkerFleet`, `JobKinds` |
| CLI (`src/bin/orchestratorctl.rs`) | none | validate, submit, status, cancel, reap | as caller in `WorkerFleet` |
| Dashboard (`web/src/`) | selection, table, status, button | refresh, on load, click and change | `ReadSide` |
| Daemon, migration and pool, scripts, manifests | - | - | no |

**Interaction.** Workers, the CLI and the HTTP handlers share nothing but the
database. Every operation is one transaction at PostgreSQL's default READ
COMMITTED level (no `SET TRANSACTION` appears in the code), so two operations
interleave between statements and, inside an `UPDATE`, between rows. The
reference scheduler is used by tests only and has exclusive access to its state.

**What is hard.** Subqueries keep their statement's snapshot while the conditions
on the updated row are evaluated again after a lock wait; `CURRENT_TIMESTAMP` is
the start of the transaction however late it commits; `SKIP LOCKED` passes over
rows; several operations lock many rows in unspecified physical order; workers
call late, twice, or under the token of an earlier attempt; connections die
between statements; the heap of the scheduler holds keys of jobs that were
cancelled; requests may repeat an edge.

**What makes each component correct.** Store and scheduler: a job runs only after
its parents (`RunsAfterParents`), is released when the last parent succeeds
(`NoStrandedChild`), is leased under one fresh token per attempt and accepts
results under the current one only (`Fenced`), never exceeds its attempts
(`WithinBudget`), stays finished (`TerminalIsFinal`, `CancelledAtRest`);
submissions are atomic (`SubmitAtomic`); the events tell every attempt
(`AuditTrail`); every call returns (`EveryCallReturns`). Validation: accepts
exactly the requests without a defect (`VerdictCorrect`) and returns a stable
topological order. Worker: a runnable job reaches an end although workers crash
(`EveryJobEnds`). API: answers are true (`AnswersTrue`); pages list every DAG once
(`WalkComplete`). Dashboard: it settles (`SettledWhenIdle`) and shows what it
names (`ShownIsNamed`).

The hazards, with the line where each bites and the properties aimed at it, are
listed in `PROJECT.json`.

## Modules

- `JobGraph` - the constants (DAGs, jobs, edges, budgets, priorities, tokens),
  what validation guarantees of them as named assumptions, the job states, the
  backoff `min(60 s, 1 s * 2^(attempt-1))`. Edges are a *sequence* of pairs since
  `validate` accepts repeated edges.
- `Lifecycle` - the abstract specification: what may happen to a job's state,
  attempts, lease token and result (`Submit`, `Lapse`, `Grant`, `Succeed`,
  `Cancel`). No clock, queue, row or transaction.
- `Store` - the PostgreSQL store. A session executes one operation as a sequence
  of steps (`pc`): it begins, opens a statement (rows chosen from the snapshot),
  visits the rows one by one and commits. `wr[s]` holds the uncommitted row
  versions of session `s`, its domain the locked rows; `View(s)` is what `s` sees.
  `Visit` is the row part of an `UPDATE`: wait for the lock, evaluate the
  conditions on the row again, write. `TakeCandidate`/`RejectCandidate`/
  `SkipLocked` are `FOR UPDATE ... SKIP LOCKED LIMIT 1`. `Commit` publishes rows,
  DAG state, event and claim at once; `Abort` may roll any transaction back at any
  step (process crash, lost connection), `DeadlockAbort` is PostgreSQL's deadlock
  detector. `claims` remembers every claim returned, so that calls may be late,
  repeated or made under another owner's name. Calls with tokens that were never
  returned match no row and are not enumerated.
- `StoreInv` - the inductive invariant. `StoreProofs` (shape of rows, locks),
  `StoreSafetyProofs` (dependencies, cancellation, fencing), `StoreRefinementProofs`
  (effects of transactions, events, refinement) - its proofs. `MCStore` - small
  instances.
- `Scheduler` - the in-memory scheduler; each operation is one step. The heap is a
  bag of keys `(available_at, job)`; claim's loop is given in closed form: it pops
  every due key up to the first one that matches its job. The caller's clock may
  take any value of `Times` at any call, earlier ones included. Rejected calls
  change nothing. `SchedulerInv` - its inductive invariant, `SchedulerProofs` - the
  proofs, `MCScheduler` - small instances.
- `HttpApi` - `Store` with the answer each ended transaction sends: the mapping of
  errors to codes, COMMITs whose acknowledgement is lost. The answer records what the
  handler's transaction found. `HttpApiProofs` - its proof. `MCHttpApi` - its instance.
- `JobKinds` - the three operations: limits on payloads, length of results, the
  worker's second check. A payload is its length, the number it spells and the
  length of its upper-case form.
- `DagValidation` - `validate` as a state machine, one action per iteration of its
  loops; identifiers are numbers, in the byte order the code sorts by. `Visit` takes
  all edges out of one job at once, as the counters are local to the call.
  `DagValidationInv` - what its loops have established on the way,
  `DagValidationProofs` - the proofs, `MCDagValidation` - the requests it is checked on.
- `WorkerFleet` - worker processes on the abstract life cycle: a call of the store is
  one step, which `ImplementsLifecycle` of `Store` justifies. Time is counted down
  (`left`, `busy`), so lease and delay run out without a bound on the clock. A worker
  may crash at any point; a lost lease ends the process, as `?` in `main` does. Any
  claimable job may be the one claimed, since `SKIP LOCKED` passes over rows.
  Jobs have one parent at most: joins can be stranded (`StoreStranded`).
  `WorkerFleetInv`, `WorkerFleetProofs` - inductive invariant and proofs.
- `ReadSide` - a client walking the pages, and the dashboard. The script of the page
  runs from one `await` to the next without interruption; up to two refreshes
  overlap; the answers arrive in any order or not at all. `list_dags` is the set of
  pages that satisfy the query's `WHERE`, `ORDER BY` and `LIMIT` (one page, as
  identifiers are unique). Deletions by operators (`docs/DATA_MODEL.md`) are external; a
  deleted identifier may be submitted again. Two histories tell the properties what
  was deleted meanwhile: `walk.started`, the DAGs there from the start of the walk on, and
  `gone`, the snapshots whose DAG was deleted between their two statements.
  `ReadSideProofs` - proofs about the walk, the snapshot and the dashboard.

Names follow the code; `PROJECT.json` maps every definition to its lines.
Definitions marked "Mutant:" are plausible mistakes, used to confirm that each
property can fail; no specification uses them.

**Abstractions.** Payloads, kinds, results and event details are dropped (a result
is represented by the token it was written under); time is a small natural number;
the physical order of rows in an `UPDATE` is any order; updated_at columns are
dropped. A row whose conditions fail after the lock wait stays locked, as in
PostgreSQL. Foreign-key share locks never conflict with the updates the store
makes and are left out. Inserting jobs and edges is one step: nobody sees or waits
for these rows before the commit, except through the DAG row already inserted.

## Runs

| Run | Instance | Shows |
| --- | --- | --- |
| `StoreJoin` | 2 sessions, join `a,b -> c` and a DAG with a repeated edge, 1 attempt, clock 0..1 | `TypeOK`, `IInv` (with `Fenced` and `CancelledAtRest`), `RunsAfterParents`, `TerminalIsFinal`, refinement of `Lifecycle` (423 732 states) |
| `StoreChain` | 2 sessions, 2 owners, `a -> b`, 2 attempts for `a`, clock 0..2 | expiry, retry, late and foreign calls: `Fenced`, `LeaseIffLeased`, `WithinBudget`, `AuditTrail`, `CancelledAtRest`, `SoleParentReleases`, refinement (1 107 227 states) |
| `HttpApi` | 2 sessions, `a -> b` and a DAG with a repeated edge | `SubmitAtomic`, `AnswersTrue`, `EveryCallReturns` under fairness (180 561 states) |
| `SchedulerJoin` | 2 DAGs, a join with a repeated edge, retry with jitter | `TypeOK`, `SchedInv`, `ReadyExact`, `HeapBounded`, `RemainingExact`, `NoStrandedChild`, `Fenced`, `ClaimsOldest`, refinement of `Lifecycle` (91 182 states) |
| `DagValidation` | all 4096 graphs on 4 jobs, all lists of up to 3 edges and of up to 3 jobs from 14 good and defective ones, both limits | `TypeOK`, `DagInv`, `IndegreeExact`, `VerdictCorrect`, `OrderTopological`, `OrderStable`, `AdmittedRuns` (110 071 states) |
| `WorkerFleet` | 2 workers, `a -> b` and `c`; `a` and `c` may be tried twice, `b` fails, `c` outlasts its lease | `EveryJobEnds` under fairness, `TypeOK`, `FleetInv`, `NoNeedlessRetry`, `OverlongNeverSucceeds` (46 977 states) |
| `ReadSide` | 3 DAGs, pages of 1 and 2, 2 refreshes; two of the DAGs may be deleted and submitted again | `WalkComplete`, `SettledWhenIdle`, `ShownIsNamed`, `NoEmptyDag` (1 492 877 states) |
| `StoreStranded` | join | **violated** `NoStrandedChild` |
| `StoreLateCommit` | chain | **violated** `CommitsBeforeExpiry` |
| `StoreUnrecorded` | chain | **violated** `TerminalRecorded` |
| `StoreHeartbeat` | chain | **violated** `HeartbeatExtends` |
| `SchedulerPriority` | two independent jobs | **violated** `ClaimsHighestPriority` |

**Bounds.** Two sessions give every pairwise race, which is what all known
failures need; three jobs give a join, the smallest graph in which two parents
race; two attempts and clock 0..2 give claim, expiry, backoff, second claim and a
late call under the first; `Tokens` has one token per possible claim, so running
out of tokens never hides a claim. The proofs cover all sizes. Four jobs give every
shape of cycle with a tail and every diamond; the limits of validation are 4 jobs
and 12 edges instead of 1000 and 10 000. In `WorkerFleet` the lease is 2 units, the
operations take 0, 1 and 2. The dashboard's page is smaller than the set of DAGs, as
100 may be. Sessions, owners and refreshes are symmetric in the safety runs; the
liveness runs use no symmetry. `DagValidation` stops when `validate` returns.

**Fairness.** `Store` and `HttpApi`: strong fairness of each session's own steps,
since PostgreSQL hands row locks to waiters in the order of arrival and resolves
deadlocks. Nothing is assumed of clients, of aborts or of the clock.
`WorkerFleet`: weak fairness of time, of a running process's own steps and of the
restart (`infra/k8s/workloads.yaml` deploys workers as a Deployment, whose pods are
restarted; `compose.yaml` has no restart policy, so there the assumption is the
operator's), strong fairness of claim, since rows are not locked for ever by others.
Crashes may recur for ever and nobody has to run `reap`.

**What the passing runs say that may surprise.** An admitted `uppercase` job can fail
on every attempt, because the upper-case form of its payload is longer than the limit
(`AdmittedRuns`). The worker sends no heartbeats: with `LEASE_MS` not above the
duration of an operation, that operation never succeeds (`OverlongNeverSucceeds`). A
request that repeats an edge is answered `already_exists` although its DAG does not
exist (`AnswersTrue` allows just this). `next_cursor` is null only after an empty
page. The dashboard selects the first DAG at every refresh, also after the user chose
another one, and reads the first 100 only; when refreshes overlap, the jobs of one DAG
may stand under the name of another (`ShownIsNamed`). A DAG deleted between the two
statements of `snapshot` is reported without jobs (`NoEmptyDag`).

## What the violated runs show

1. `NoStrandedChild`: when two parents complete concurrently, each second
   statement of `complete` sees the other parent's committed row, still leased;
   neither releases the child, and no operation revisits it. The child stays
   `pending` for ever. In the scheduler the property holds. With a single parent
   it holds in the store, too (`SoleParentReleases`).
2. `CommitsBeforeExpiry`: the deadline is compared with the start of the
   transaction; the commit may come after expiry (never after another claim:
   `Fenced` holds).
3. `TerminalRecorded`: `reap_in_transaction` dead-letters without an event.
4. `HeartbeatExtends`: overlapping heartbeats may shorten a lease.
5. `ClaimsHighestPriority`: the scheduler's heap orders by availability first; the
   SQL orders by priority first.

## Proofs

Every invariant, action property and refinement that a passing run checks is a
theorem. What the violated runs check is refuted, and liveness stays with TLC (see
the end of this section).

**Assumptions**, each evaluated by TLC on every run of the module. Of the graph:
finite set of jobs, endpoints of an edge in one DAG, budgets in 1..20, positive retry
delays and lease lengths, `Null` is no token, lease or cursor; `WorkerFleet`'s payloads
were admitted. No proof uses acyclicity or the single parent of `WorkerFleet`. `SequenceAssumption` (scheduler): the 64-bit token counter outlasts all
attempts the budgets allow, so `saturating_add` never repeats a token.
`ResultsFitAssumption` (`JobKinds`): the limit on results is at least the 64 bytes of
a digest (the code's limit is 4096). Identifiers are natural numbers in byte order.

| Theorem | Module | Property |
| --- | --- | --- |
| `TypeCorrect` | `StoreProofs` | `TypeOK` |
| `LeaseColumns` | `StoreProofs` | `LeaseIffLeased`: the `CHECK` of the table cannot fail |
| `BudgetHolds` | `StoreProofs` | `WithinBudget` |
| `SubmissionAtomic` | `StoreProofs` | `SubmitAtomic` |
| `DependenciesHold` | `StoreSafetyProofs` | `RunsAfterParents` |
| `FinishedStays` | `StoreSafetyProofs` | `TerminalIsFinal` (action property) |
| `CancellationFinal` | `StoreSafetyProofs` | `CancelledAtRest` |
| `FencingHolds` | `StoreSafetyProofs` | `Fenced` |
| `InvariantHolds` | `StoreRefinementProofs` | `IInv` |
| `SoleParentReleased` | `StoreRefinementProofs` | `SoleParentReleases` |
| `AuditTrailHolds` | `StoreRefinementProofs` | `AuditTrail` |
| `StoreImplementsLifecycle` | `StoreRefinementProofs` | `ImplementsLifecycle` (refinement) |
| `AnswersHold` | `HttpApiProofs` | `AnswersTrue` |
| `SchedInvHolds`, `SchedulerTypes` | `SchedulerProofs` | `SchedInv`, `TypeOK` |
| `HeapIsExact`, `HeapStaysBounded` | `SchedulerProofs` | `ReadyExact`, `HeapBounded` |
| `DependencyCountersExact` | `SchedulerProofs` | `RemainingExact` |
| `NoChildStranded` | `SchedulerProofs` | `NoStrandedChild` |
| `SchedulerFenced` | `SchedulerProofs` | `Fenced` |
| `OldestClaimedFirst` | `SchedulerProofs` | `ClaimsOldest` (action property) |
| `SchedulerImplementsLifecycle` | `SchedulerProofs` | `ImplementsLifecycle` (refinement) |
| `DagInvHolds`, `ValidationTypes` | `DagValidationProofs` | `DagInv`, `TypeOK` |
| `CountersExact` | `DagValidationProofs` | `IndegreeExact` |
| `VerdictHolds` | `DagValidationProofs` | `VerdictCorrect` |
| `OrderIsTopological`, `OrderIsStable` | `DagValidationProofs` | `OrderTopological`, `OrderStable` |
| `AdmittedCanRun` | `DagValidationProofs` | `AdmittedRuns` |
| `FleetInvHolds`, `FleetTypes` | `WorkerFleetProofs` | `FleetInv`, `TypeOK` |
| `RetriesNeeded` | `WorkerFleetProofs` | `NoNeedlessRetry` |
| `OverlongFails` | `WorkerFleetProofs` | `OverlongNeverSucceeds` |
| `DashboardSettles`, `DashboardNames` | `ReadSideProofs` | `SettledWhenIdle`, `ShownIsNamed` |
| `SnapshotWhole` | `ReadSideProofs` | `NoEmptyDag` |
| `WalkCompletes` | `ReadSideProofs` | `WalkComplete` |

**Store.** Properties speak of committed rows, but `COMMIT` publishes what a session
computed steps earlier, so none of them is inductive. `IInv` has five layers.
`CoreInv`: row locks are exclusive; every uncommitted version is well formed; no
uncommitted version differs from a committed *finished* row (which is why a recheck
after the lock is enough); rows exist exactly from the commit of their submission on;
a half-done claim or compare-and-set still has its row. `ParentsOK`: what a session
writes as runnable, or is about to release, has only parents the session sees
succeeded; other sessions' commits preserve it because success is final. `CancelOK`:
while cancel runs, each job of its DAG is finished in its view or still to be visited.
`FenceOK`: every lease and every result, committed or not, is covered by a claim that
was returned, or by the one its own transaction is about to return, whose token is
still unused. `EffectInv`: every uncommitted version differs from the committed row it
will replace in just the way its operation prescribes (inserted, lapsed, taken,
renewed, succeeded, released, cancelled); while complete releases children, each only
child of its job is released in its view or still to be visited; and no event tells of
an attempt to come. A transaction that reaps a lease and then claims cannot take the
same job, since the retry delay is positive: so a claim's commit is `Lapse` and `Grant`
of different jobs, one abstract step. Refinement then says that `COMMIT` is the only
step that is not a stutter. `StoreSafetyProofs` first shows that each step writes no
row, writes one row in one of seven ways, inserts rows, rolls back or commits, and
argues by these shapes.

**HTTP API.** `ApiInv` adds to `IInv` that a transaction's timestamp is never ahead of
the clock and that a session between its compare-and-set and its commit holds a row
whose committed lease still carries its token: so a success that is answered is in the
tables, and a conflict or a missing DAG was real when it was found.

**Scheduler.** The heap is right because each job has one key at most, waiting jobs
have theirs, and any other key belongs to a cancelled job (`HeapFits`): everything that
claim pops before its choice is a key of a cancelled job, which no later step can make
waiting again. Each claim is an attempt of its own, so the counter has counted them all
and the next token is new (`ClaimsCounted`). The counter of a child equals the number
of its edges from jobs that have not succeeded, and a leased job's edges are among
those, so the subtraction in `complete` never saturates (`RemainingExact`,
`CounterDecides`). Jobs reaped by a claim are not due, as the retry delay is positive.
The admission limit is about `AdmittedKeys`, the keys of jobs without dependencies that
were never attempted: only `submit` enters such a key, since a job that lapses has been
attempted and one that is released has a parent; and as each key occurs once,
`ready.len()` counts at least these.

**Validation.** `DagInv` describes each loop's progress. `order \o queue` is the list
of jobs whose parents were all visited, sorted by last parent and identifier; no
visited job lies on or below a cycle (`NoCycleVisited`, for every self-supporting set
of jobs), so acceptance excludes cycles. Conversely, when the queue runs dry early, the
jobs left over support each other: a cycle, which is what the error says.

**Workers.** `LeaseRuns`: what an operation used of its time, it used of the lease as
well; with no heartbeat, an overlong operation meets an expired lease. `HeldInTime`:
while nothing is disturbed, the lease of a sound job has a holder that will report
before it ends, so neither expiry nor a late report sends the job back.

**Readers.** `DashboardInv`: a refresh that met no other one is still alone, and works
with the selected DAG. `SnapshotOK`: the DAG existed when the first statement ran.
`WalkInv`: the listed identifiers increase, and each DAG that was there from the start
on has been listed if it is not beyond the cursor.

**Only model-checked.** `EveryCallReturns` and `EveryJobEnds`: liveness under fairness
(and `ENABLED`) is outside the prover's reach. That the named assumptions on the
constants hold is evaluated by TLC for the instances.

## Plan

Every safety property of the passing runs is proved. Left to do: a property for the
two hazards without (`max_dags` is never given back, `src/scheduler.rs:100`; the
dashboard loses a choice made during a refresh, `web/src/app.ts:48`), should the
repository come to promise something of either; and
the refinement of the life cycle's calls by `WorkerFleet`, which today uses the actions
of `Lifecycle` directly.

## Not modelled

- Requests refused before a transaction (invalid DAG, owner, lease, result or page
  size): they change nothing. `/health`, `/metrics`, static files: no state.
- The daemon and the start-up of processes (environment, binding, migration): I/O.
  The tables start empty; the pool is the set of sessions, its five-second acquire
  timeout an error before the transaction begins.
- The CLI's argument and file parsing and its `status` command (a snapshot).
- `snapshot` of the reference scheduler (read-only), formatting, wording, logging,
  digests and the text of results, `web/src/model.ts` (counting for display).
- Deployment manifests, scripts, continuous integration.
