# todos: a TLA+ model of the task service

`todos` keeps tasks, plans, leases and delivery records for AI agents in one
SQLite file per workspace (or in Postgres), and offers them through a CLI, an
MCP server, an HTTP server and an SDK. Many processes open the same file at
once. The modules in this directory model what those processes do to each
other: who owns a task, what a lost race leaves behind, what a crash leaves
behind, and which order of legal calls reaches a state nobody meant.

Paths below are relative to the repository; `src/` in PROJECT.json is the
repository itself, so its `src/src/db/locks.ts` is `src/db/locks.ts` here.

## 1. Inventory

| Component | Code | State it keeps | Operations | What is hard | What must hold |
|---|---|---|---|---|---|
| Task lifecycle | `src/db/task-lifecycle.ts`, `task-status.ts`, `task-crud.ts`, lock helpers of `database.ts` | rows of `tasks`: status, assignee, lock, timestamps, version | start, complete, fail, lock, renew, unlock, update, steal, redistribute, claim, sweep | operations read in one statement and write in a later one, guarded by a version, by a status and a lock, or by nothing | one holder at a time; a finished row is unlocked; a stale caller never overwrites an outcome |
| Task dependencies | `src/db/task-graph.ts`, readers in `task-lifecycle.ts`, `task-relations.ts`, `patrol.ts` | `task_dependencies` | add, remove, readiness, blocked reports, unblock events | cycle check and insert are two statements; several definitions of "blocked"; one of several ways to complete a task tells its dependents | the graph stays acyclic; readiness and reports agree |
| Successor tasks | `spawnNextRecurrence`, retry branch of `failTask`, template branch of `completeTask` | successor rows, `retry_count` | spawn on completion, retry on failure | the spawn follows the commit in a transaction of its own | one successor per completion; a bounded retry chain |
| Task leases | `src/lib/agent-coordination.ts` | `task_leases` beside the locks of `tasks` | acquire, renew, release, steal, recover | two records and two expiry clocks of one ownership, kept by separate statements | nothing relates the two between statements |
| PR-group ledger | `src/pr-groups/ledger.ts` (+ `sqlite.ts`, `postgres.ts`) | groups, attempts, receipts, writer generation | admit, recover, append | retries, fenced writers, stale heads, repair limit | a fenced writer never appends; a merge follows an approval of the same head; terminal is final |
| Dispatch | `src/lib/dispatch.ts`, `src/db/dispatches.ts` | `dispatches`, `dispatch_logs` | create, fan out, sweep what is due, dry run, cancel | tmux is awaited between the read and two unguarded writes; sweeps overlap | "sent" is never claimed before the fact; a copy too many has a cause; what is settled stays quiet; what is due is settled |
| Resource and file locks | `src/db/locks.ts`, `src/db/file-locks.ts` | `resource_locks`, `file_locks` | lock, renew, unlock, check, clean, force | clean, look and write are three statements; a resource lock is renewed by its key | a grant is honoured until its end; one holder |
| Plan-project links | `src/db/plan-project-links.ts` | receipts per idempotency key; the project of plans and tasks | link, roll back | ordinary writers move, relink and delete the same rows between the two | nothing dangles; tasks stay in the project of their plan |
| Agent registration | `src/db/agents.ts` | agents, aliases, sessions, heartbeats | register, take over, release, heartbeat | two sessions under one name | one live session per name |
| Project registration | `src/project-registration/` | immutable receipts, bindings, the created projects and task lists | forward and inverse calls, lookup | calls planned from a read are committed later; lost answers, failed writes, several processes, ordinary writers | receipts, bindings and rows tell one story; an inverse removes only what is untouched |
| Task manifest | `src/task-manifest/` | bindings, an outbox of effects, the graph inserted | apply, mark delivered, compensate | deletes cascade through every foreign key; deliveries race compensation | undone as a whole or not at all, and nothing else with it |
| Shadow outbox | `src/storage/shadow-outbox.ts`, `shadow-outbox-schema.ts`, `shadow-runtime.ts`; the upsert of `postgres-sync.ts` | `shadow_outbox`; the rows of the cloud | triggers, drain, push, back-off, park | several drainers, writes during a push, late and repeated pushes, deaths; stamps taken before the write lock | no change that comes in order is lost silently; the cloud never goes back behind one; draining ends |
| Storage adapters | the rest of `src/storage/` | Postgres copy of the tables, in-memory mirror, artifacts | the same operations as SQL | | those of the SQLite operations |
| Webhooks and events | `src/db/webhooks.ts`, `src/lib/*event*` | subscriptions, deliveries, deliveries in flight | dispatch, three attempts | fire and forget, timers of one process | none is promised |
| Runs and runner | `src/lib/task-runner.ts`, `src/lib/agent-run-dispatcher.ts`, `src/db/task-runs.ts` | runs, commands, exit state | start, record, finish | a child process that outlives its runner | a run ends once |
| Plans, templates, checklists, handoffs, checkpoints | `src/db/plans.ts`, `templates.ts`, `checkpoints.ts`, `handoffs.ts` | rows of their own | CRUD | little | referential integrity |
| Approval gates, review queues | `src/lib/approval-gates.ts`, `src/db/checkpoints.ts`, `task-relations.ts` | checkpoint rows | request, decide, expire | read, check and write without a guard | a decision is made once (not so under a race) |
| Import, export, bridge, dedupe | `src/lib/import-export-bridge.ts`, `src/lib/task-dedupe.ts` | none of their own | merge, import | version written, not bumped | an import does not lose a newer row |
| Schema and migrations | `src/db/schema.ts`, `migrations/` | `schema_version` | migrate | two processes migrating | migrations run once |
| Interfaces | `src/cli`, `src/mcp`, `src/server`, `src/sdk`, `sdk/`, `dashboard/` | none (caches, sessions) | translate calls | I/O | out of scope: they call the operations above |
| Search, reports, boards, budgets, retention, redaction | `src/lib/*` | derived | read, format | none concurrent | out of scope |

How they interact. Every interface calls the functions of `src/db` and
`src/lib` in its own process. The only shared state is the database. Bun's
SQLite binding is synchronous: a function runs without yielding up to its first
`await`, so inside one process the functions of `src/db` do not interleave.
Between processes every SQL statement is atomic, `db.transaction` groups
statements, and anything else may come in between. `dispatch` and the PR-group
ledger are asynchronous and do yield. Webhooks, hooks and shared events are
fired after the commit and never wait for an answer.

## 2. Plan

| # | Module | Models | Composes | Proofs | State |
|---|---|---|---|---|---|
| 1 | `TaskLifecycle` | the task row under racing operations | implements `ExclusiveLease` | `TaskLifecycleProofs` | done |
| 2 | `TaskDependencies` | graph writes, readiness, announcements | implements `TaskDag` | `TaskDependenciesProofs` | done |
| 3 | `PrGroupLedger` | groups, attempts, receipts | implements `ReviewedMerge` | `PrGroupLedgerProofs` | done |
| 4 | `ShadowOutbox` | triggers, drainers, the cloud | implements `OneWayMirror` | `ShadowOutboxProofs` | done |
| 5 | `ProjectRegistration` | receipts, bindings, staged plans | implements `CreateOnce` | `ProjectRegistrationProofs` | done |
| 6 | `PlanRows`, `PlanProjectLinks`, `TaskManifest` | rows of projects, plans and tasks and their ordinary writers; the two authorities over them | `PlanAuthorities` interleaves all three | `PlanAuthoritiesProofs` | done |
| 7 | `Dispatch` | sends, sweeps, fan-outs, cancellations, deaths | | `DispatchProofs` | done |
| 8 | `Locks` | locks on paths and resources | implements `ExclusiveLease` | `LocksProofs` | done |

The order is that of the damage a fault would do: rows that several agents
overwrite, a graph that stops work, a merge nobody approved; then copies, rows
created for other services, plans; then messages and advisory locks. What is
left and why is section 5.

Five small modules say what a component promises to somebody who sees none of
its statements, reads or retries. A run checks each refinement on a small
instance and a theorem states it for every value of the constants:

| Abstract module | What it promises | Implemented by | Run | Theorem |
|---|---|---|---|---|
| `ExclusiveLease` | nobody is granted an item while another's grant lasts | `TaskLifecycle`, `Locks` | `TL_lease`, `LK` | `TasksImplementLeases`, `LocksImplementLeases` |
| `TaskDag` | an edge is checked for a cycle and inserted in one step | `TaskDependencies` | `TD_work` | `AddsImplementOneStep` |
| `ReviewedMerge` | only the present writer merges, under a licence another's standing approval gave | `PrGroupLedger` | `PR_ledger` | `LedgerImplementsReviewedMerge` |
| `OneWayMirror` | a copy moves forward through the changes of its source that come in order, and never back behind one it has shown | `ShadowOutbox` | `SO_mirror` | `ShadowMirrorsOneWay` |
| `CreateOnce` | a step and a target are registered once, row and registration together, and withdrawn once, untouched | `ProjectRegistration` | `REG` | `AuthorityImplementsCreateOnce` |

## 3. What is modelled

### TaskLifecycle

`tasks` holds the columns of a task row the races depend on: `status`,
`assigned_to`, `locked_by`, `locked_at`, `updated_at`, whether `completed_at` is
set (`stamped`), `version`. `clock` is the machine's clock in units of one lock
lifetime step; 0 stands for NULL in `locked_at`. `op[p]` is what process `p` has
read and not yet written. `lease[p][t]` is the `expires_at` of the last grant
`p` was told about: what the process knows, not a column.

Each operation is a `...Read` step (the SELECTs, their early returns) followed
by a `...Write` step (the UPDATE, whose WHERE clause is evaluated on the row at
that moment) or `Refuse` (the UPDATE changed nothing). The write step takes its
timestamp `ts` anywhere between the read and the commit, because the code calls
`now()` and `lockExpiryCutoff()` before the statement that may wait for
SQLite's write lock. The operations that run in a transaction whose first
statement is the UPDATE of `clearExpiredLocks` hold the write lock from the
start and are one step: `ClaimNextTask`, `ClaimOrSteal`, the claim at the end of
`redistributeStaleTasks`. `Crash` ends a process between its statements.

Abstracted: title, metadata, tags, project and list filters, priorities and
`created_at` (`getNextTask` and `stealTask` choose any candidate of the best
affinity where the code orders further); the completion guard of
`completion-guard.ts` (off by default, it only refuses more); patches that carry
no status (they move the version and nothing else the model has, as a patch with
the row's own status does) and patches that set `completed_at` or `assigned_to`
by hand; `startTask`'s two SELECTs, row and prerequisites, are one read. A lock
on a row always has a `locked_at` here, so NULL in the SQL comparison and NULL in
`isLockExpired` need not be told apart.

Not modelled are the writers of a task row that move neither the status nor the
version: those of columns the model does not have (runner, retry, plan, archive,
cost, tags, priority; several also set `updated_at`), the renaming of an agent,
which rewrites `assigned_to`, and `renewTaskLease` (`agent-coordination.ts:124`),
which writes `locked_at` and `updated_at` by id. `VersionIdentifiesRow` would hold
of the former up to `updated_at`. Of the last it would not: a completion that
read an expired lock commits although the lease was renewed in between, since
the version is the same. An import writes status and version together
(`import-export-bridge.ts:431`), as an update by a caller that knows the row does,
but to a version of its own.

Time is bounded by `MaxClock`, versions by `MaxVersion`. One task is enough for
the questions about a row: rows interact only through dependencies and through
the choice of a claim, neither of which changes another row. Two processes under
two names give every pair of operations every interleaving (they are symmetric);
three versions allow two commits around a pending operation, and a fourth lets a
redistribution release a row and claim it. `Expiry = 1` with a clock that reaches
3 has a lock that is fresh, at its boundary, and expired.

Two processes under one name (a CLI call and the MCP server of one agent) share
their lock by design: `HeldBy` compares names. The type invariant and the three
properties about rows are proved for that case too; `LeaseHonoured` is not
claimed for it, since either process may give the shared lock up.

### What the runs show

| Run | Question | Result |
|---|---|---|
| `TL_all` | the operations that read first and write later, redistribution included; a failure, a forced unlock and the one-step claims, which do to a row what an update, an unlock, a start or a steal do, are in `TL_lease` | finished rows are unlocked and stamped; a version identifies a row; a completion commits only for the holder |
| `TL_lease` | without renewal, unlock and redistribution, is a granted lease honoured until `expires_at`, can a stale caller overwrite an outcome, and are rows and half-done operations, seen from the processes, an `ExclusiveLease`? | honoured; no; yes |

`LeaseHonoured` is claimed only without three operations, and each of them breaks
it or `OutcomeOverwrittenKnowingly` when it is put among the `Kinds` of
`TL_lease`: a renewal of a lock that was stolen in between reports success,
because nobody looks at the number of changed rows (`task-lifecycle.ts:341`);
`unlockTask` checks the holder on one SELECT and clears the lock by id in a
later UPDATE, so it may remove a lock another agent acquired in between; and
`redistributeStaleTasks` resets rows by id that it read earlier, so a task
completed meanwhile is pending again.

### What is proved (`TaskLifecycleProofs`)

For any finite or infinite sets of tasks, processes and names and any ages:

* `TypeCorrect`, `FinishedUnlockedAlways`, `VersionIdentifiesRowAlways`,
  `CompletionByHolderAlways`. `VersionIdentifiesRow` is not inductive by itself:
  the row an operation read must also be no newer than the table (`SnapshotInv`),
  else a write could move the version back onto the snapshot's. For
  `CompletionByHolder` the snapshot of a pending completion must have passed the
  check of the holder (`CheckedInv`); the version then carries the check from the
  read to the commit.
* `LeaseHonouredAlways`, under `LeaseDiscipline`: one process per name,
  `StealAge >= Expiry`, and no renewal, unlock or redistribution (each of the last
  breaks it, see above). The inductive invariant adds that no
  timestamp lies in the future (`PastInv`) and that a live lease is matched by
  the very lock it was granted with, on an unfinished row (`LeaseInv`). The
  default `stale_minutes` of 30 equals `LOCK_EXPIRY_MINUTES`, so the discipline
  on ages is what the code ships with.
* `TasksImplementLeases`, under the same discipline: what processes were told
  is an `ExclusiveLease`. A grant is reported by a write that found the row free,
  expired or its own, and `LHInv` puts every live lease behind its lock, before
  and after the write, so no other lease of the task can be live then.
* `OutcomeOverwrittenKnowinglyAlways`, without redistribution: an UPDATE changes
  the status of a finished row only if it compares the version, and by
  `SnapshotInv` it then finds the status it had read.

`Step` describes once what any action may do to a row; each invariant is then
shown to survive a `Step` rather than twenty actions.

### TaskDependencies

`deps` is the table `task_dependencies`, `status` the status of each row with
"absent" before its creation and "deleted" after. `op[p]` is a call in the middle:
`addDependency` reads the graph with one SELECT per node (`AddVisit`; the queue
and the visited set are those of `wouldCreateCycle`, taken in any order) and
inserts in a last statement (`AddInsert`), and `completeTask` looks for newly
ready dependents in a SELECT after its commit (`AnnounceUnblocked`). Everything
else that writes the graph is one statement or one transaction and one action:
`RemoveDependency`, `ImportDependency`, `Merge`, `Decompose`, `DeleteTask`. The edges
that a manifest inserts (`task-manifest/sqlite.ts:126`) join rows of the same
transaction and come in as those of `Decompose` do.
`Dispatchable` and `Startable` are the code's two definitions of readiness.
A status is written by `Claim`, `Complete`, `Fail` and `Update`; the last is
`updateTask`, which writes any status over any other and looks for no dependents.
It is the path of a PATCH from the dashboard and of `update --status completed`
(`task-crud.ts:880`), so a task may be completed, or reopened, and nobody is told.

`owed` is a ghost: tasks that `completeTask` made ready and no process has
announced. A task leaves it when it is announced, and when another call makes it
ready, or not ready, for a reason of its own: an edge of it is removed, a
prerequisite deleted or merged away, or a status that `updateTask` or `failTask`
writes decides it. The code announces none of these.

`Calls` says which entry points each process uses, so that a run can ask about
one set of actors at a time. Locks and versions are `TaskLifecycle`'s: a claim
or a completion here is one that succeeded.

| Run | Question | Result |
|---|---|---|
| `TD_walk` | does `addDependency` return on a graph that others rewrite, cycles included? | yes |
| `TD_work` | one process adds edges and completes, another claims, completes, removes, deletes and decomposes | walk and insert take effect in one step (`TaskDag`), the graph stays acyclic, an unfinished task means that one is in hand or can be claimed, and every task that is not deleted ends |
| `TD_tell` | two processes make every call there is: completions, updates to any status, failures, imports, merges (one of them adds no edges by a walk) | no edge dangles; a task that completions made ready is announced by one of the completers |
| `TD_race` | two processes add edges | violated: both pass the check, both insert |

`TD_race` is the disagreement listed under "findings": the README promises that
dependency writes reject cycles. More operations break what `TD_work` shows and
are left out of it: merging a duplicate moves edges without a cycle check, so a
chain over a third task becomes a cycle, and so does an import; and a
prerequisite that is cancelled or failed blocks its dependents for ever, since
readiness asks for completion. `TD_tell` leaves out nothing, but what it claims is
only about completions by `completeTask`: a last prerequisite that `updateTask`
completes makes its dependents ready in silence. So does a process
that dies between the commit of a completion and its SELECT: nothing repeats the
look, and no death is modelled here.

Three tasks are the least that has a chain and a task with two prerequisites; in
`TD_work` two of them are created by `Decompose` while the graph is walked, in
`TD_tell` all are there at first. Two processes are enough for a race of two.

Fairness: `CallsGoOn` of `TD_walk` has `WF(Continue(p))`, a call that was begun
returns (SQLite's busy timeout and a process that does not die); `FairSpec` of
`TD_work` adds `WF(Work(p))`: a worker that can
claim or finish a task does so in the end, which is what the worker loops in
`src/cli` and the README's agent protocol do. Nothing fair is assumed of
planners, and nothing at all in `TD_tell` and `TD_race`.

Proved in `TaskDependenciesProofs`, for any sets of tasks and processes:
`TypeCorrect`; `AcyclicAlways`, when one process adds edges and none imports or
merges (`OneAdder`; the run `TD_race` and the merge above show what each condition
is for); `LastCompletionAnnouncesAlways`, for any calls: whatever else is written
between a commit and its SELECT, the completer that commits last finds the task.
Acyclicity rests on `WalkInv`: what a walk has
visited leads only to what it has visited or queued, and the other processes
only take edges away or join rows that did not exist when the walk began. A walk
that ends with an empty queue has then visited a closed set without its task,
and an edge into a closed set cannot be on a cycle.

Three theorems draw the consequences. `NoTaskWaitsForItself`: no chain of
prerequisites of any length leads from a task back to itself (`Acyclic` is stated
with closed sets, which both TLC and the prover find easier than paths).
`NeverStuckAlways`: when in addition nobody updates or fails tasks (`OnlyWork`),
an unfinished task means that some task is in progress or can be claimed; were
there none, the unfinished tasks would be a set each member of which waits for
another, which an acyclic graph has not. `AddsImplementOneStep`: `addDependency`
implements `TaskDag`; when the edge goes in, the set the walk has visited
(`WalkInv`) witnesses that no chain leads back at that very moment.

`WalksGoForwardAlways`, for finite `Tasks` and any calls, imports and merges
included: each step of a walk leaves fewer tasks to visit (`Unvisited`), because
a node enters the queue only when it was never in it.

`AddReturns` and `EverythingFinishes` are liveness and stay with TLC; the last two
theorems, `WalksGoForwardAlways` and `NeverStuckAlways`, are what they rest on.

### PrGroupLedger

One group of `src/pr-groups/ledger.ts`. `group` is its row in `pr_groups`
(state, active attempt, repair cycles, terminal outcome, which attempt ended it
and at which head), `attempt` the status column of `pr_group_attempts`, `log`
the receipts of `pr_group_events` in the order of their sequence numbers. Admit,
recover and append each run in one transaction that locks the group's row first
(`BEGIN IMMEDIATE` in SQLite, `FOR UPDATE` in Postgres), so each call is one
action, and the interleavings are those of whole calls by writers, reviewers,
operators and dispatchers who do not know of each other.

Abstracted, and why that loses nothing the properties see:

* An attempt and its writer generation are one value: `recover` creates both
  together, and every later call must name the pair.
* Refusals and idempotent replays change nothing, so they are stutters. A new
  admission of a recovered attempt only adds an event no call reads.
* Time. Every timestamp is the caller's; the checks (not before the last event,
  not before the lease's end, not in the future of the server) refuse calls, and
  a caller can always bring a later one. So any active writer may be recovered
  at any time, which is more than the code allows and never less.
* The log keeps the four types of receipts that later calls look up. The other
  events only move the state.
* Repository, pull request numbers, legacy ids, payload hashes and the proof of
  green CI are left out: they are compared for equality and refuse more calls.
  An actor is an identity together with its run, as the checks that compare the
  reviewer with the operator compare both.
* `receipt_key` is a number; a caller offers a fresh one or one already bound,
  which `Unbound` refuses.

| Run | Question | Result |
|---|---|---|
| `PR_ledger` | two writer generations, two heads, two actors, a repair | a fenced writer is silent, one writer at a time, a merge follows a live approval of its head by another actor, the end is final, a merged group can always prove its cleanup, and the whole is a `ReviewedMerge` |

`PR_ledger` allows five receipts: request, review, conditional receipt and merge
of a first or a second generation with one more to revoke an approval, repeat a
review or request again, which is what the mutants of these properties need.
One repair (the code allows `PR_GROUP_REPAIR_CYCLE_LIMIT`) is enough to have a
rejection before and after the limit. What no run claims is that the merged head is
the one last sent to review: an operator may cite a conditional receipt of an
earlier round of the same attempt.

Deadlock is not checked: a group that was cancelled or cleaned up stops, and so
does a log that is full.

Fairness: `WF(CleanUp(a))` says that whoever ended a group asks for its cleanup
in the end; nothing is assumed of writers, reviewers and operators. `CleanUp`
must cite an approval, a conditional receipt and a merge outcome that match in
head and keys, and the property says that whenever the group is merged such
receipts exist.

Proved in `PrGroupLedgerProofs`, for any sets of attempts, heads, actors and
verdicts, any repair limit and any length of the log: `TypeCorrect`,
`OneWriterAlways`, `GenerationsInOrderAlways`, `MergedWasApprovedAlways` and
`TerminalIsFinalAlways`. `Step` says once what a call may do (a take-over, a move
of the owner with at most one receipt, a cleanup), and `NextIsStep` that every
action is one. `GenerationsInOrder` becomes inductive with `ActiveIsLast` (after
a receipt of the active attempt come only receipts of its own) and
`WritersWereAdmitted` (so the attempt that takes over has none). For
`MergedWasApproved` the chain is followed link by link: a reviewed group's log
ends with the review, so a conditional receipt comes immediately after the
approval it relies on and nothing can lie between them; a merge outcome cites a
conditional receipt; a merged group has the outcome that merged it.

`LedgerImplementsReviewedMerge`: the log is a `ReviewedMerge`, which keeps no log.
`Standing` and `Licences` read the abstract state off the receipts of the present
writer; what an append does to them follows from the position of the new receipt,
and that retired writers never come back from the statuses of the attempts.
`MergedWasApproved` says the same of a finished group in terms of the log and is
proved, not run, since the run checks the refinement.

`MergedCanBeCleanedUp`: in every state of a merged group the attempt that merged it
may clean it up, unless that is done. The receipts of `MergedWasApproved`'s chain
are those that cleanup compares. With `WF(CleanUp(a))` this is all of
`MergedIsCleanedUp`, which is liveness and stays with TLC.

### ShadowOutbox, an implementation of OneWayMirror

`local` is the row of an object in SQLite, `remote` the cloud's record of it, and
`outbox` the rows of `shadow_outbox`, which the triggers write in the same
statement as the row (`Trigger`). A drainer selects a batch (`Select`), reads the
current row of each (`Build`), awaits the push, and deletes or defers the row it
had selected (`Confirm`, `Fail`). A push is one upsert of the cloud, which keeps
the newer stamp and version (`Accepts`). It may fail before or after the cloud
applied it, and one whose sender gave up or died may still be applied later
(`stray`, `ApplyStray`). `changes` counts the changes of an object and the
records carry the count they show: the ghost the properties are about.

The stamps do not order the changes. A caller takes `now()` in JavaScript and its
UPDATE then waits for the write lock of SQLite (`startTask`,
`task-lifecycle.ts:113`; `moveTask`, `task-graph.ts:173`), so a change may commit
later than another and bear an older `updated_at`; and some updates set neither
stamp nor version (`clearExpiredLocks`, an agent's heartbeat: `QuietUpdate`).
`Update` therefore takes any stamp since the row was created. A change whose
stamp and version are not the newest the object has had is a *slip*: the cloud's
`WHERE` ignores it without an error, the drainer deletes its row of the outbox,
and the change is lost until the next one in order. That is what the code does,
and the properties except it, and it alone. `newest`, `slips` and `firm` are
ghosts: the row with the newest stamp and version, the changes that slipped, and
the last change in order the cloud has taken.

Assumed: wall clocks do not run backwards, an id is never used again, and the
stamp of a tombstone is later than that of the row it buries. An import of a
bundle, which writes any stamp and version, is not modelled. The abstract
`OneWayMirror` says that the copy of an object shows changes of its source and
never goes back behind a change in order it has shown; `Mirror` maps the counts of
the source and of the cloud's record to it.

| Run | Question | Result |
|---|---|---|
| `SO_mirror` | one task, two drainers, three changes, two faults, a retry | an object the cloud does not show as it is has a row in the outbox, pending or parked, unless its last change slipped; the cloud never goes back behind a change in order; once writes and faults end no row waits for ever |

Three changes are a creation, a slip and a change in order, before or after it;
two faults park a row, as `MaxRetries = 1` asks, or give one late push and one
death. Two drainers give every pair of read, push and deletion every order,
`BatchSize = 1` the longest waits; rows meet only in a batch, so one object is
enough. Rows without a version (agents) are covered by the proofs.
Fairness: `WF(Drain(d))` because `shadow-runtime.ts` starts the drain loop in each
process that serves the file, and a push ends by answer or timeout; and back-off
elapses because time does.

Proved for any objects, drainers, batch sizes and limits: `ShadowTypeOK`,
`ShadowLosesNothing` and the refinement `ShadowMirrorsOneWay`. `IInv` says what
every record in flight is: that it shows a change its object had
(`FlyingShowsAChange`), that it is older than the row it no longer shows unless
the row's last change slipped (`EntryOK`), that of two records of one object that
of the later change wins unless that change slipped (`LaterWins`), that what shows
a change before `firm` has lost already (`FirmOK`), that a row of the outbox with
the sequence number a drainer knows is the row it selected or has a new revision
(`RevisionsTell`), and, the heart of it, that the latest change of an object, if in
order, is shown by the cloud or behind a row of the outbox (`LatestIsQueued`),
which a push may delete only when the cloud has taken what it sent or a newer
change has moved the revision on (`PushesOK`).

Model-checked only: `Settles`.

### ProjectRegistration

`receipts` and `bindings` are the two tables of the authority, `objects` the
rows of `projects` and `task_lists` that calls create and ordinary writers edit,
refer to, create and delete. `call[p]` is the one call process `p` serves (its
queue runs one at a time): `Resolve` looks a repeated call up, `PlanCall` reads
everything and stages the writes in memory, and `Commit` checks, in one
transaction, that the watched rows are as they were and that unique indexes and
validators hold, and writes; else `Conflict` plans again up to `RetryLimit`.
`WriteFault` is a staged write that fails, after which a failure is recorded in
a second transaction; `Crash` loses the answer before or after the commit.

Abstracted: the path and the slug of a project are one value, the set of rows a
plan looked at is a query and its answer, digests are the records they digest.
Slug renames of ordinary writers are edits. Only the SQLite backend is modelled;
that of Postgres runs each call under an advisory lock and a table lock.

| Run | Question | Result |
|---|---|---|
| `REG` | two processes, two source projects, two steps, four calls, a fault or a death, two ordinary writes | receipts and bindings agree; and all of it amounts to a `CreateOnce`: an inverse removes nothing but the untouched row its operation made, a list is accepted only under a registered project that is there, a step and a target are registered once |

Two sources and two steps make calls that clash in the one, in the other, and in
neither; four calls are a project, its list, an inverse and a repetition. The run
has one release of the package: two cost more time than a run is given. With
two, one promise fails: a retry of an accepted call after an upgrade is refused
under the very key of the acceptance, because the version is part of the request
digest and not of the key, and the refusal then stands. The theorems hold for
any releases.

With one release, too, no run claims that an answer stands, and it would not hold:
the lookup ranks terminal receipts above accepted ones
(`sqlite.ts:513`), and the insert of a terminal receipt checks neither for an
accepted one nor for the binding. A second process whose call looked for
receipts before the first committed, and found no binding after it because its
own write failed or the object was removed again (`authority.ts:1117-1133`),
writes one under the key of the acceptance. What holds is about what is
registered, not about what is answered.

Proved for any values of the constants: `RegistrationTypeOK`,
`RegistryAlwaysAgrees`, `InverseIsExact`, `ListsHaveParents`. What makes them
inductive: a staged plan promises only what its validators check again
(`CallsOK`: each plan is the outcome of what was seen, so a commit whose rows are
unchanged writes what is right now); ids are fresh, an object has one owner
among the bindings, a removed binding's object is gone (`IdsAreFresh`,
`OneOwnerPerObject`, `RemovedIsGone`), and an accepted inverse names the binding
it removed (`InverseHasBinding`). `InverseIsExact` and `ListsHaveParents` speak of
receipts; the run checks what they come to, the refinement.

`AuthorityImplementsCreateOnce`: the accepted receipts, read as `Registrations` and
`Withdrawn`, and the rows are a `CreateOnce`. A commit that accepts is `Register`
(`AcceptRegisters`: its step, target and id are new, and its whole is there), a
commit that removes is `Withdraw` (`RemoveWithdraws`), what other writers do is
`Others` (`OthersWrite`), and everything else a process does is a stutter.

### PlanRows, PlanProjectLinks, TaskManifest; PlanAuthorities

`PlanRows` has the rows of projects, plans and tasks, with `refs` for the rows of
every other table that points to a plan or a task, subtasks included, and every
ordinary writer of them as an action: `updateTask` in two steps, because it
decides outside a transaction (`UpdateRead`, `UpdateWrite`), the rest in one
transaction each, with the cascades of the schema's foreign keys. `Adopt` is the
raw `UPDATE tasks SET plan_id` of a plan execution and of a goal
(`plan-execution.ts:176`, `goal-workflow.ts:165`), which looks at no project and
raises no version. An import of a bundle (`import-export-bridge.ts:425`, `:431`)
writes the id, the version and the links of a task at will; it is not modelled and
nothing here is claimed of a file that one is imported into.
`PlanProjectLinks` and `TaskManifest` extend it with the two authorities, each
call one immediate transaction; `PlanAuthorities` interleaves the three.

Abstracted: the two reads of `updateTask` are one, because the write compares the
version the caller named and versions only go up, so at that version both reads
find one plan, unless it was written raw in between, which the ghost `raw`
remembers and `UpdateRead` allows for; revisions and `updated_at` that a
caller expects only refuse calls, and a caller can fetch fresh ones; what a row
says beyond its links is whether it was edited since the manifest wrote it;
`attachPlanToProject`'s root task is a `CreateTask` of its own; a slug collision
refuses. Sending an effect is outside: a delivery may be reported at any time.

| Run | Question | Result |
|---|---|---|
| `PA` | three ordinary writes among two links and their rollbacks, one manifest with a plan, a task and an effect, delivery and compensation | no row names one that is gone; a compensated operation is undone as a whole and for good; a compensation touches nothing outside its graph; tasks stay in the project of their plan but for the writers that look at no project (`MoveTask`, `AttachPlan`, `Adopt`), an update whose task got its plan raw, and the exact rollback of a link |

Two projects and two keys have a link, its rollback and a link over it; three
ordinary writes create a plan and a task and move or delete one of them.

Not promised, and so not claimed: after home, away and home again a rollback of
the first key undoes a later link of a plan that looks alike, since the digest
omits revisions; a compensation does not compare a task's project, plan or lock;
and a slug that another process gives to an untouched plan when it opens the
file (`schema.ts:47`) makes its manifest impossible to compensate. And `Adopt`
bites twice: it may itself put a task into the plan of another project, and an
`updateTask` that saw no plan still finds its version after it and may write a
project that the plan does not have.

Proved for any constants: `PlanAuthoritiesTypeOK`, `NothingEverDangles`,
`CompensationIsFinal`, `CompensationStaysContained`,
`MembersStayInTheirProject`. The invariant adds that the graph of an applied
operation is there or was deleted by somebody (`GraphsTell`), that the outbox
follows the binding (`OutboxTells`), and that a pending `updateTask` whose
version still matches finds its task in no plan, as it read it, or in one that
was written raw (`EditsTell`). One lemma per
writer (`...Effect`) says which rows it moves; the properties follow from these.

### Dispatch

`status`, `due` and `logged` are the columns of `dispatches` and the statuses in
`dispatch_logs`; `shown` counts how often a text reached its window, which only
tmux knows. `job` is what each call is doing, several of which may run in one
process: a sweep with the list it read, a fan-out, a dry run of either, a
cancellation between its SELECT and its UPDATE. A sender takes the next dispatch
(`Take`), waits for tmux, which types the text and answers (`Deliver`) or fails
before or after it typed (`Break`), writes the log and then the status. The
writes look at nothing and may fail themselves; a process may die at any step
(an exception before the `try` of the sender, `dispatch.ts:30`, leaves the row as
it was, as a death does, and is not an action of its own);
`MaxFaults` bounds both. The ids of new rows are fresh (`Unused`), and the order
of `created_at` is any order.

| Run | Question | Result |
|---|---|---|
| `DI` | two dispatches, a caller that does everything and one that only sweeps, one fault | "sent" follows the text and the log; a message has at most one copy per caller and fault; a settled dispatch that nobody holds stays as it is; what is due is settled in the end |

Two callers are enough for two to read one pending row, two dispatches for one
failure to stand before another dispatch in a list. Fairness: `WF(Proceed(p))`
(tmux answers, a process that does not die goes on) and `WF(Sweep)` of the
`Sweepers`: there is no timer in the code, so whoever schedules messages must call
`todos dispatch run` or the MCP tool `run_due_dispatches` again and again; without
that nothing due is ever sent.

Seen while modelling, and not claimed otherwise: `dispatch run --all` and the `all`
of the MCP tool are accepted and not passed on; `dispatchToMultiple` takes no
notice of `scheduled_at`, so `--multiple` with `--at` sends at once; a dry run of
a fan-out ("Preview without sending") leaves pending rows that a later sweep
sends; `cancelDispatch` also cancels failed rows, which its message denies.

Proved for any number of dispatches, callers and faults: `TypeCorrect`,
`SentWasShownAlways`, `RepeatsHaveACauseAlways`, `SettledIsQuietAlways`. The
bound is a counting argument (`Counted`): while a dispatch is pending, each copy
of it but one per fault is in the hands of a caller that is past sending and has
not settled it; the first that does leaves only those that still have it to
send, and they are too few.

Model-checked only: `DueIsSettled`.

### Locks

`locks` holds the rows of `file_locks` and of `resource_locks`; keys are paths
and pairs of a resource and a lock type. A call cleans, looks and writes in three
statements (`Clean`, `Look`, then `Refresh` or `Insert`, or `Unlock`), each with a
timestamp taken some time before it. What differs between the tables is kept:
the boundary of expiry, when the new expiry is computed, and that a file lock is
renewed by the id of the row that was seen and a resource lock by its key.
`granted` is a ghost, what an agent was last told and has not given up.

A renewal of a resource lock that comes after its expiry is granted over whatever
row is there, or over none, and reports success. `overrun` remembers the keys
this happened to, and of these nothing is claimed (`Sound`); without that
condition TLC finds two agents that both hold a grant. Of paths, and of resources
that no late renewal overran, the run `LK` shows that a grant is in the table
until its end, and that the two tables and their half-done calls are an
`ExclusiveLease` for the agents: `LastInstant` maps a grant to its last instant,
and an overrun key to no grant at all. One path, one resource with both
types of lock, two agents and a clock of three ticks, one lifetime of one tick:
fresh, at the boundary, and expired; four ids allow a lock to be lost, taken and
lost again. Deadlock is not checked, as ids and the clock run out.

Proved for any agents, callers, paths, resources and lifetimes: `LocksTypeOK`,
`GrantsAreHonoured`, `OneHolderAlways` (no key has two holders), and
`LocksImplementLeases`: an answer that grants follows a write that found no live
lock of another agent, and every live grant has its row. They need that ids are fresh and that the
row a renewal knows by its id is still its agent's or gone for ever (`Knows`), and
that a step only takes rows away, extends them, or adds one with the next id
(`Descend`). The locks are advisory: no other operation looks at them.

## 4. What the proofs leave to TLC

Every invariant, action property and refinement a passing run checks is also a
theorem, for all values of the constants. The rest is liveness under fairness,
which the provers cannot do: `AddReturns`, `EverythingFinishes`,
`MergedIsCleanedUp`, `Settles`, `DueIsSettled`. Of the first three the safety core
is proved: `WalksGoForwardAlways` (a measure that falls), `NeverStuckAlways` and
`MergedCanBeCleanedUp` (the fair action has what it needs); `Settles` rests on
`ShadowLosesNothing`: an object out of sync has a row in the outbox, pending or
parked, unless its last change slipped.

Five definitions are proved and not run, because a refinement or a liveness
property of the same run covers them on a small instance: `OneHolder`,
`MergedWasApproved`, `InverseRemovesUntouched`, `ListsHaveRegisteredParents`,
`WalksGoForward`.

No module has a recursive definition. Every theorem holds under the assumptions
named in the module that declares the constants, and those its statement names,
and nothing else.

## 5. Not modelled

* Successor tasks. They are created by ordinary `createTask` calls after the
  commit of what spawns them; a death in between loses them and nothing repeats
  it. What is hard is the date arithmetic, which rows do not tell apart.
* Task leases (`agent-coordination.ts`). Sequences of `TaskLifecycle`'s lock
  operations with unguarded statements on a second table: a renewal writes
  `locked_at` of a task whoever holds it (`:124`), a release deletes the lease by
  task (`:138`), a recovery unlocks by force whoever holds the task (`:234`). No
  statement relates the two records, so nothing would hold of them.
* Agent registration. One immediate transaction that reads what it decides on;
  concurrent calls are sequential ones. A release reads first and updates by id
  (`agents.ts:240`), so a take-over in between loses its session.
* Approval gates. Read, check and write without a guard; of two decisions that
  race the later stands.
* Webhooks and events. Nobody waits for them and no order is promised.
* The Postgres backends of project registration, task manifest and the task
  tables, which run the same operations under table or row locks.
* Import and export beyond dependency edges (an import writes ids, stamps and
  versions as they come), runs of child processes, templates,
  checklists, search, reports, budgets and retention: rows of their own written
  by single statements, or derived data.
* CLI, MCP, HTTP and SDK, the greater part of the source by lines: they translate
  arguments into calls of the operations above and format the results.
