--------------------------- MODULE TaskLifecycle ---------------------------
(***************************************************************************)
(* The task row and the operations agents race on: start, complete, lock,  *)
(* unlock, fail, update, steal, redistribute and the transactional claims. *)
(*                                                                         *)
(* Every process (a CLI call, the MCP server, the HTTP server) has its own *)
(* connection to one SQLite file.  JavaScript runs each operation without  *)
(* yielding, so operations interleave only between SQL statements, and     *)
(* each statement is atomic.  An operation is therefore a Read step that   *)
(* takes a snapshot of the row and a Write step that commits one guarded   *)
(* UPDATE; operations the code wraps in a transaction whose first          *)
(* statement writes are a single step.                                     *)
(***************************************************************************)
EXTENDS Integers, FiniteSets

CONSTANTS
    Tasks,           \* ids of the rows of table tasks
    Procs,           \* operating-system processes sharing the database
    Agents,          \* agent names, compared by canonicalAgentRef
    AgentOf,         \* the agent name a process acts under
    None,            \* SQL NULL in assigned_to and locked_by
    Deps,            \* pairs <<task, prerequisite>>: table task_dependencies
    Kinds,           \* the entry points the processes call
    Expiry,          \* LOCK_EXPIRY_MINUTES
    StealAge,        \* stale_minutes of stealTask and claimOrSteal
    RedistributeAge, \* max_age_minutes of redistributeStaleTasks
    MaxClock,        \* bound on time
    MaxVersion       \* bound on the version of a row

Statuses == {"pending", "in_progress", "completed", "failed", "cancelled"}
Startable == {"pending", "in_progress"}
Lockable == Statuses \ {"completed", "cancelled"}
Terminal == {"completed", "failed", "cancelled"}

\* The operations that read a row first and write it later.
RowKinds == {"start", "complete", "complete_anonymous", "fail", "lock",
             "renew", "unlock", "force_unlock", "update", "steal"}
AtomicKinds == {"claim", "claim_or_steal", "sweep"}
AllKinds == RowKinds \cup AtomicKinds \cup {"redistribute"}

ASSUME ConstantsAssumption ==
    /\ None \notin Agents
    /\ AgentOf \in [Procs -> Agents]
    /\ Deps \subseteq Tasks \X Tasks
    /\ Kinds \subseteq AllKinds
    /\ Expiry \in Nat
    /\ StealAge \in Nat
    /\ RedistributeAge \in Nat
    /\ MaxClock \in Nat
    /\ MaxVersion \in Nat

VARIABLES
    tasks,  \* table tasks
    clock,  \* the machine's clock; 0 is before any time, and stands for NULL
    op,     \* what each process is in the middle of
    lease   \* expires_at of the last claim or lock each process was granted

vars == <<tasks, clock, op, lease>>

Row == [status      : Statuses,
        assigned_to : Agents \cup {None},
        locked_by   : Agents \cup {None},
        locked_at   : Nat,      \* 0 is NULL
        updated_at  : Nat,
        stamped     : BOOLEAN,  \* completed_at IS NOT NULL
        version     : Nat]

Idle == [kind |-> "idle"]

Op == {Idle}
      \cup [kind : RowKinds, task : Tasks, row : Row, at : Nat, to : Statuses]
      \cup [kind : {"redistribute"}, left : SUBSET Tasks, at : Nat]

(***************************************************************************)
(* Reading a row.                                                          *)
(***************************************************************************)

\* Mutant of Expired: the boundary minute counts as expired.
ExpiredEarly(locked_at, now) == locked_at = 0 \/ now - locked_at >= Expiry

\* isLockExpired, and the SQL guard locked_at < lockExpiryCutoff().
Expired(locked_at, now) == locked_at = 0 \/ now - locked_at > Expiry

HeldBy(r, p) == r.locked_by = AgentOf[p]

\* Somebody else than p holds an unexpired lock.
LockedByOther(r, p, now) ==
    r.locked_by # None /\ ~HeldBy(r, p) /\ ~Expired(r.locked_at, now)

\* The WHERE clause of the acquiring UPDATEs.
Takeable(r, p, now) ==
    r.locked_by = None \/ HeldBy(r, p) \/ Expired(r.locked_at, now)

\* getBlockingDeps: any prerequisite that is not completed, cancelled included.
Blocked(rows, t) ==
    \E d \in Tasks : <<t, d>> \in Deps /\ rows[d].status # "completed"

\* getStaleTasks, and the re-check in the UPDATE of stealTask.
Stale(r, age, now) ==
    /\ r.status = "in_progress"
    /\ \/ now - r.updated_at > age
       \/ r.locked_at # 0 /\ now - r.locked_at > age

\* clearExpiredLocks: the version is left alone.
Swept(rows, now) ==
    [t \in Tasks |->
        IF rows[t].locked_at # 0 /\ Expired(rows[t].locked_at, now)
        THEN [rows[t] EXCEPT !.locked_by = None, !.locked_at = 0]
        ELSE rows[t]]

\* getNextTask: its WHERE clause, and the first key of its ORDER BY.
Candidates(rows, now) ==
    {t \in Tasks : /\ rows[t].status = "pending"
                   /\ rows[t].locked_by = None \/ Expired(rows[t].locked_at, now)
                   /\ ~Blocked(rows, t)}

Affinity(r, p) ==
    IF r.assigned_to = AgentOf[p] THEN 0 ELSE IF r.assigned_to = None THEN 1 ELSE 2

BestCandidates(rows, p, now) ==
    {t \in Candidates(rows, now) :
        \A u \in Candidates(rows, now) : Affinity(rows[t], p) =< Affinity(rows[u], p)}

(***************************************************************************)
(* Writing a row.                                                          *)
(***************************************************************************)
\* Mutant of Bump: a write that forgets the version.
BumpTimeOnly(r, ts) == [r EXCEPT !.updated_at = ts]

Bump(r, ts) == [r EXCEPT !.updated_at = ts, !.version = @ + 1]

\* Mutant of Unlocked: an empty string instead of NULL.
UnlockedByEmpty(r) == [r EXCEPT !.locked_by = "", !.locked_at = 0]

Unlocked(r) == [r EXCEPT !.locked_by = None, !.locked_at = 0]
Locked(r, p, ts) == [r EXCEPT !.locked_by = AgentOf[p], !.locked_at = ts]

Taken(r, p, ts) ==
    Bump([Locked(r, p, ts) EXCEPT !.status = "in_progress",
                                  !.assigned_to = AgentOf[p]], ts)

Stolen(r, p, ts) == Bump([Locked(r, p, ts) EXCEPT !.assigned_to = AgentOf[p]], ts)

Completed(r, ts) ==
    Bump([Unlocked(r) EXCEPT !.status = "completed", !.stamped = TRUE], ts)

Failed(r, ts) == Bump([Unlocked(r) EXCEPT !.status = "failed"], ts)

Released(r, ts) == Bump([Unlocked(r) EXCEPT !.status = "pending"], ts)

\* updateTask with a status: a terminal status drops the lock, reopening a
\* completed task drops completed_at.
Updated(r, to, ts) ==
    Bump([IF to \in Terminal THEN Unlocked(r) ELSE r
            EXCEPT !.status = to,
                   !.stamped = IF to = "completed" THEN TRUE
                               ELSE IF r.status = "completed" THEN FALSE ELSE @], ts)

(***************************************************************************)
(* What the processes know: a granted claim or lock lasts until expires_at *)
(* unless the row is finished, failed or released.                         *)
(***************************************************************************)
Grant(p, t, ts) == lease' = [lease EXCEPT ![p][t] = ts + Expiry]

\* The holder is told or asked for it: every lease of t ends.
Revoke(t) == lease' = [q \in Procs |-> [lease[q] EXCEPT ![t] = 0]]

\* p gives t up, for every process that acts under its name.
GiveUp(p, t) ==
    lease' = [q \in Procs |->
                 IF AgentOf[q] = AgentOf[p] THEN [lease[q] EXCEPT ![t] = 0]
                 ELSE lease[q]]

----------------------------------------------------------------------------
Init ==
    /\ tasks = [t \in Tasks |->
                  [status |-> "pending", assigned_to |-> None, locked_by |-> None,
                   locked_at |-> 0, updated_at |-> 1, stamped |-> FALSE, version |-> 1]]
    /\ clock = 1
    /\ op = [p \in Procs |-> Idle]
    /\ lease = [p \in Procs |-> [t \in Tasks |-> 0]]

Tick ==
    /\ clock < MaxClock
    /\ clock' = clock + 1
    /\ UNCHANGED <<tasks, op, lease>>

(***************************************************************************)
(* The Read steps: the SELECT of each operation and its early returns.     *)
(***************************************************************************)
Begin(p, kind, t, to) ==
    /\ kind \in Kinds
    /\ op[p] = Idle
    /\ op' = [op EXCEPT ![p] = [kind |-> kind, task |-> t, row |-> tasks[t],
                                at |-> clock, to |-> to]]
    /\ UNCHANGED <<tasks, clock, lease>>

StartRead(p, t) ==
    /\ tasks[t].status \in Startable
    /\ ~Blocked(tasks, t)
    /\ Begin(p, "start", t, "in_progress")

CompleteRead(p, t) ==
    /\ tasks[t].status \notin {"completed", "cancelled"}
    /\ ~LockedByOther(tasks[t], p, clock)
    /\ Begin(p, "complete", t, "completed")

\* Called without an agent: any unexpired lock is somebody else's.
AnonymousCompleteRead(p, t) ==
    /\ tasks[t].status \notin {"completed", "cancelled"}
    /\ tasks[t].locked_by = None \/ Expired(tasks[t].locked_at, clock)
    /\ Begin(p, "complete_anonymous", t, "completed")

FailRead(p, t) == Begin(p, "fail", t, "failed")

LockRead(p, t) ==
    /\ tasks[t].status \in Lockable
    /\ IF HeldBy(tasks[t], p) /\ ~Expired(tasks[t].locked_at, clock)
       THEN Begin(p, "renew", t, tasks[t].status)
       ELSE Begin(p, "lock", t, tasks[t].status)

UnlockRead(p, t) ==
    /\ tasks[t].locked_by = None \/ HeldBy(tasks[t], p)
    /\ Begin(p, "unlock", t, tasks[t].status)

ForceUnlockRead(p, t) == Begin(p, "force_unlock", t, tasks[t].status)

\* The caller's own earlier read gives input.version.
UpdateRead(p, t) == \E to \in Statuses : Begin(p, "update", t, to)

StealRead(p, t) ==
    /\ Stale(tasks[t], StealAge, clock)
    /\ Begin(p, "steal", t, "in_progress")

\* The list is ordered by updated_at and cut at limit.
RedistributeRead(p) ==
    /\ "redistribute" \in Kinds
    /\ op[p] = Idle
    /\ LET stale == {t \in Tasks : Stale(tasks[t], RedistributeAge, clock)}
       IN \E limited \in SUBSET stale \ {{}} :
            /\ \A t \in limited, u \in stale \ limited :
                    tasks[t].updated_at =< tasks[u].updated_at
            /\ op' = [op EXCEPT ![p] = [kind |-> "redistribute", left |-> limited,
                                        at |-> clock]]
    /\ UNCHANGED <<tasks, clock, lease>>

(***************************************************************************)
(* The Write steps.  A process takes its timestamp (and the cutoff) at     *)
(* some time ts after its read and commits at clock, after waiting for the *)
(* database's write lock.                                                  *)
(***************************************************************************)
Writing(p, kind) == op[p].kind = kind
Done(p) == op' = [op EXCEPT ![p] = Idle]
Current(p) == tasks[op[p].task]
Times(p) == op[p].at .. clock

\* Mutant of Unmoved: the WHERE clause loses "AND version = ?".
UnmovedUnchecked(p) == TRUE

Unmoved(p) == Current(p).version = op[p].row.version

Put(t, row) ==
    /\ row.version =< MaxVersion
    /\ tasks' = [tasks EXCEPT ![t] = row]

\* Mutant of CanStart: the WHERE clause loses the lock, which was free when the row
\* was read.
CanStartWhoeverHolds(p, ts) == Current(p).status \in Startable

\* Mutants of CanStart and CanLock: the WHERE clause loses the status, which was
\* checked when the row was read.
CanStartAnyStatus(p, ts) == Takeable(Current(p), p, ts)
CanLockAnyStatus(p, ts) == Takeable(Current(p), p, ts)

CanStart(p, ts) ==
    Current(p).status \in Startable /\ Takeable(Current(p), p, ts)

CanLock(p, ts) ==
    Current(p).status \in Lockable /\ Takeable(Current(p), p, ts)

StartWrite(p) ==
    /\ Writing(p, "start")
    /\ \E ts \in Times(p) :
         /\ CanStart(p, ts)
         /\ Put(op[p].task, Taken(Current(p), p, ts))
         /\ Grant(p, op[p].task, ts)
    /\ Done(p)
    /\ UNCHANGED clock

\* The UPDATE of completion evidence, when there is any, moves the version once
\* more in the same transaction.
CompleteWrite(p) ==
    /\ Writing(p, "complete") \/ Writing(p, "complete_anonymous")
    /\ Unmoved(p)
    /\ \E ts \in Times(p), evidence \in {0, 1} :
         Put(op[p].task, [Completed(Current(p), ts) EXCEPT !.version = @ + evidence])
    /\ Revoke(op[p].task)
    /\ Done(p)
    /\ UNCHANGED clock

FailWrite(p) ==
    /\ Writing(p, "fail")
    /\ Unmoved(p)
    /\ \E ts \in Times(p) : Put(op[p].task, Failed(Current(p), ts))
    /\ Revoke(op[p].task)
    /\ Done(p)
    /\ UNCHANGED clock

LockWrite(p) ==
    /\ Writing(p, "lock")
    /\ \E ts \in Times(p) :
         /\ CanLock(p, ts)
         /\ Put(op[p].task, Bump(Locked(Current(p), p, ts), ts))
         /\ Grant(p, op[p].task, ts)
    /\ Done(p)
    /\ UNCHANGED clock

\* The number of changed rows is not looked at: the call reports success even
\* when the lock has gone to somebody else.
RenewWrite(p) ==
    /\ Writing(p, "renew")
    /\ \E ts \in Times(p) :
         /\ IF HeldBy(Current(p), p)
            THEN Put(op[p].task, Bump([Current(p) EXCEPT !.locked_at = ts], ts))
            ELSE UNCHANGED tasks
         /\ Grant(p, op[p].task, ts)
    /\ Done(p)
    /\ UNCHANGED clock

\* The UPDATE has no guard but the id.
UnlockWrite(p) ==
    /\ Writing(p, "unlock")
    /\ \E ts \in Times(p) : Put(op[p].task, Bump(Unlocked(Current(p)), ts))
    /\ GiveUp(p, op[p].task)
    /\ Done(p)
    /\ UNCHANGED clock

ForceUnlockWrite(p) ==
    /\ Writing(p, "force_unlock")
    /\ \E ts \in Times(p) : Put(op[p].task, Bump(Unlocked(Current(p)), ts))
    /\ Revoke(op[p].task)
    /\ Done(p)
    /\ UNCHANGED clock

UpdateWrite(p) ==
    /\ Writing(p, "update")
    /\ Unmoved(p)
    /\ \E ts \in Times(p) : Put(op[p].task, Updated(Current(p), op[p].to, ts))
    /\ IF op[p].to \in Terminal THEN Revoke(op[p].task) ELSE UNCHANGED lease
    /\ Done(p)
    /\ UNCHANGED clock

StealWrite(p) ==
    /\ Writing(p, "steal")
    /\ \E ts \in Times(p) :
         /\ Stale(Current(p), StealAge, ts)
         /\ Put(op[p].task, Stolen(Current(p), p, ts))
         /\ Grant(p, op[p].task, ts)
    /\ Done(p)
    /\ UNCHANGED clock

\* One UPDATE of the list, guarded by nothing but the id.
RedistributeWrite(p) ==
    /\ Writing(p, "redistribute")
    /\ \E t \in op[p].left, ts \in Times(p) :
         /\ Put(t, Released(tasks[t], ts))
         /\ op' = [op EXCEPT ![p].left = @ \ {t}]
    /\ UNCHANGED <<clock, lease>>

\* Nothing is written when the guard of the UPDATE fails: the caller gets
\* LockError, VersionConflictError, null or success: false.
Refuse(p) ==
    /\ \E ts \in IF op[p] = Idle THEN {} ELSE Times(p) :
         \/ Writing(p, "start") /\ ~CanStart(p, ts)
         \/ Writing(p, "lock") /\ ~CanLock(p, ts)
         \/ Writing(p, "steal") /\ ~Stale(Current(p), StealAge, ts)
         \/ /\ op[p].kind \in {"complete", "complete_anonymous", "fail", "update"}
            /\ ~Unmoved(p)
    /\ Done(p)
    /\ UNCHANGED <<tasks, clock, lease>>

(***************************************************************************)
(* The transactions that start with clearExpiredLocks.                     *)
(***************************************************************************)
TakeNext(p) ==
    LET rows == Swept(tasks, clock)
    IN \E t \in BestCandidates(rows, p, clock) :
         /\ rows[t].version < MaxVersion
         /\ tasks' = [rows EXCEPT ![t] = Taken(rows[t], p, clock)]
         /\ Grant(p, t, clock)

NothingNext(p) ==
    /\ BestCandidates(Swept(tasks, clock), p, clock) = {}
    /\ tasks' = Swept(tasks, clock)
    /\ UNCHANGED lease

ClaimNextTask(p) ==
    /\ "claim" \in Kinds
    /\ op[p] = Idle
    /\ TakeNext(p) \/ NothingNext(p)
    /\ UNCHANGED <<clock, op>>

\* redistributeStaleTasks ends with a claim of its own.
RedistributeClaim(p) ==
    /\ Writing(p, "redistribute")
    /\ op[p].left = {}
    /\ TakeNext(p) \/ NothingNext(p)
    /\ Done(p)
    /\ UNCHANGED clock

ClaimOrSteal(p) ==
    /\ "claim_or_steal" \in Kinds
    /\ op[p] = Idle
    /\ LET rows == Swept(tasks, clock)
           stale == {t \in Tasks : Stale(rows[t], StealAge, clock)}
       IN \/ TakeNext(p)
          \/ /\ BestCandidates(rows, p, clock) = {}
             /\ \E t \in stale :
                  /\ rows[t].version < MaxVersion
                  /\ tasks' = [rows EXCEPT ![t] = Stolen(rows[t], p, clock)]
                  /\ Grant(p, t, clock)
          \/ stale = {} /\ NothingNext(p)
    /\ UNCHANGED <<clock, op>>

\* getNextTask and getActiveWork, called to look only.
Sweep(p) ==
    /\ "sweep" \in Kinds
    /\ op[p] = Idle
    /\ tasks' = Swept(tasks, clock)
    /\ UNCHANGED <<clock, op, lease>>

\* The process dies between its statements; what it was granted dies with it.
Crash(p) ==
    /\ op[p] # Idle
    /\ Done(p)
    /\ lease' = [lease EXCEPT ![p] = [t \in Tasks |-> 0]]
    /\ UNCHANGED <<tasks, clock>>

Reads(p, t) ==
    \/ StartRead(p, t) \/ CompleteRead(p, t) \/ AnonymousCompleteRead(p, t)
    \/ FailRead(p, t) \/ LockRead(p, t) \/ UnlockRead(p, t)
    \/ ForceUnlockRead(p, t) \/ UpdateRead(p, t) \/ StealRead(p, t)

Writes(p) ==
    \/ StartWrite(p) \/ CompleteWrite(p) \/ FailWrite(p) \/ LockWrite(p)
    \/ RenewWrite(p) \/ UnlockWrite(p) \/ ForceUnlockWrite(p) \/ UpdateWrite(p)
    \/ StealWrite(p) \/ RedistributeWrite(p) \/ Refuse(p)

Transactions(p) ==
    ClaimNextTask(p) \/ RedistributeClaim(p) \/ ClaimOrSteal(p) \/ Sweep(p)

Next ==
    \/ Tick
    \/ \E p \in Procs :
         \/ \E t \in Tasks : Reads(p, t)
         \/ RedistributeRead(p)
         \/ Writes(p)
         \/ Transactions(p)
         \/ Crash(p)

Spec == Init /\ [][Next]_vars

----------------------------------------------------------------------------
(***************************************************************************)
(* Properties.                                                             *)
(***************************************************************************)

\* Every variable has its type: rows, snapshots, operations and leases.
TypeOK ==
    /\ tasks \in [Tasks -> Row]
    /\ clock \in Nat \ {0}
    /\ op \in [Procs -> Op]
    /\ lease \in [Procs -> [Tasks -> Nat]]

\* A completed or cancelled task holds no lock, and a completed one carries its
\* completion time, whatever the order in which finishing, locking, renewing,
\* stealing and reopening commit: startTask and lockTask refuse such a row, so a
\* lock left on it could never be re-acquired.
FinishedUnlocked ==
    \A t \in Tasks :
        /\ tasks[t].status \in {"completed", "cancelled"} => tasks[t].locked_by = None
        /\ tasks[t].status = "completed" => tasks[t].stamped

\* The optimistic lock works: as long as the row has the version an operation
\* read, it is the row that was read, except that clearExpiredLocks may have
\* removed a lock that had already expired.
VersionIdentifiesRow ==
    \A p \in Procs :
        op[p].kind \in RowKinds /\ Unmoved(p) =>
            \/ Current(p) = op[p].row
            \/ /\ Current(p) = Unlocked(op[p].row)
               /\ Expired(op[p].row.locked_at, clock)

\* completeTask commits only over a row that nobody else holds at the moment of
\* the commit, although it looked at the lock in an earlier statement.
CompletionByHolder ==
    [][\A p \in Procs, t \in Tasks :
         /\ op[p].kind \in {"complete", "complete_anonymous"}
         /\ op'[p] = Idle
         /\ tasks'[t].status # tasks[t].status
         => \/ tasks[t].locked_by = None
            \/ Expired(tasks[t].locked_at, clock)
            \/ op[p].kind = "complete" /\ HeldBy(tasks[t], p)]_vars

\* The outcome of a finished task is changed only by a caller that read it: no
\* operation that started before the task finished overwrites it.
OutcomeOverwrittenKnowingly ==
    [][\A t \in Tasks :
         /\ tasks[t].status \in Terminal
         /\ tasks'[t].status # tasks[t].status
         => \E p \in Procs : /\ op[p].kind \in RowKinds
                             /\ op'[p] = Idle
                             /\ op[p].task = t
                             /\ op[p].row.status = tasks[t].status]_vars

\* A claim or lock that was reported granted is a lock in the table until its
\* expires_at, unless the task was finished or failed or somebody was asked to
\* release it.  Two agents never both rely on the same task.
LeaseHonoured ==
    \A p \in Procs, t \in Tasks :
        lease[p][t] >= clock => HeldBy(tasks[t], p)

Lease == INSTANCE ExclusiveLease WITH
    Items <- Tasks,
    Holders <- Procs,
    Lifetimes <- {Expiry},
    until <- [t \in Tasks |-> [p \in Procs |-> lease[p][t]]],
    now <- clock

\* Seen from the processes a task is under an exclusive lease: no start, lock, steal or
\* claim, whatever came between its reading and its writing, is reported successful
\* while the lease of another process lasts.
TasksAreLeased == Lease!Spec
=============================================================================
