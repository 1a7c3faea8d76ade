-------------------------- MODULE TaskDependencies --------------------------
(***************************************************************************)
(* The dependency graph of tasks: who may write it, when a task is ready,  *)
(* and who is told that it became ready.                                   *)
(*                                                                         *)
(* addDependency walks the graph with one SELECT per node and inserts the  *)
(* edge in a last statement; every other writer is one statement or one    *)
(* transaction.  Locks and versions of the rows are TaskLifecycle's.       *)
(***************************************************************************)
EXTENDS Integers, FiniteSets

CONSTANTS
    Tasks,    \* ids of tasks, those not created yet included
    Initial,  \* the tasks that exist at first
    Procs,    \* processes sharing the database
    Calls     \* the entry points each process calls

AllKinds == {"add", "remove", "import", "merge", "decompose", "delete",
             "claim", "complete", "update", "fail"}

ASSUME DependencyAssumption ==
    /\ Initial \subseteq Tasks
    /\ Calls \in [Procs -> SUBSET AllKinds]

VARIABLES
    status,  \* status of each row; "absent" before creation, "deleted" after
    deps,    \* table task_dependencies: pairs <<task_id, depends_on>>
    op,      \* what each process is in the middle of
    owed     \* ghost: tasks that completeTask made ready and nobody was told of, until
             \* another call makes them ready, or not ready, for a reason of its own

vars == <<status, deps, op, owed>>

Statuses == {"absent", "pending", "in_progress", "completed", "failed",
             "cancelled", "deleted"}
Gone == {"absent", "deleted"}
TaskStatuses == Statuses \ Gone  \* TASK_STATUSES
Finished == {"completed", "cancelled"}
Exists(t) == status[t] \notin Gone

Idle == [kind |-> "idle"]
Op == {Idle}
      \cup [kind : {"add"}, task : Tasks, on : Tasks,
            queue : SUBSET Tasks, visited : SUBSET Tasks]
      \cup [kind : {"announce"}, task : Tasks]

----------------------------------------------------------------------------
Prerequisites(t) == {d \in Tasks : <<t, d>> \in deps}
Dependents(t) == {u \in Tasks : <<u, t>> \in deps}

\* isBlockingDependencyStatus: a cancelled prerequisite does not block.
Dispatchable(t) ==
    \A d \in Prerequisites(t) : status[d] \in Finished

\* getBlockingDeps and getNextTask: a cancelled prerequisite does block.
Startable(t) ==
    /\ status[t] = "pending"
    /\ \A d \in Prerequisites(t) : status[d] = "completed"

\* What completeTask's last SELECT returns for the completed task t.
Unblocked(t) ==
    {u \in Dependents(t) :
        /\ status[u] = "pending"
        /\ \A d \in Prerequisites(u) \ {t} : status[d] \in Finished}

----------------------------------------------------------------------------
Init ==
    /\ status = [t \in Tasks |-> IF t \in Initial THEN "pending" ELSE "absent"]
    /\ deps = {}
    /\ op = [p \in Procs |-> Idle]
    /\ owed = {}

Calling(p, kind) == kind \in Calls[p] /\ op[p] = Idle
Done(p) == op' = [op EXCEPT ![p] = Idle]

AddBegin(p, t, d) ==
    /\ Calling(p, "add")
    /\ Exists(t) /\ Exists(d)
    /\ op' = [op EXCEPT ![p] = [kind |-> "add", task |-> t, on |-> d,
                                queue |-> {d}, visited |-> {}]]
    /\ UNCHANGED <<status, deps, owed>>

\* wouldCreateCycle: the walk from the new prerequisite reaches the task.
Reached(p, n) == n = op[p].task

AddRefuse(p) ==
    /\ op[p].kind = "add"
    /\ \E n \in op[p].queue : Reached(p, n)
    /\ Done(p)
    /\ UNCHANGED <<status, deps, owed>>

\* Mutants of Queued: rows already visited are queued again; the walk follows the
\* edges backwards.
QueuedAgain(p, n) == (op[p].queue \ {n}) \cup Prerequisites(n)
QueuedDependents(p, n) == (op[p].queue \cup Dependents(n)) \ (op[p].visited \cup {n})

Queued(p, n) == (op[p].queue \cup Prerequisites(n)) \ (op[p].visited \cup {n})

AddVisit(p) ==
    /\ op[p].kind = "add"
    /\ \E n \in op[p].queue :
         /\ ~Reached(p, n)
         /\ op' = [op EXCEPT ![p].visited = @ \cup {n}, ![p].queue = Queued(p, n)]
    /\ UNCHANGED <<status, deps, owed>>

\* Mutant of Insertable: no constraints.
InsertableAlways(t, d) == TRUE

\* The table's CHECK and foreign keys.
Insertable(t, d) == t # d /\ Exists(t) /\ Exists(d)

\* INSERT OR IGNORE; the foreign keys refuse an edge of a deleted row.
AddInsert(p) ==
    /\ op[p].kind = "add"
    /\ op[p].queue = {}
    /\ deps' = IF Insertable(op[p].task, op[p].on)
               THEN deps \cup {<<op[p].task, op[p].on>>}
               ELSE deps
    /\ Done(p)
    /\ UNCHANGED <<status, owed>>

RemoveDependency(p, t, d) ==
    /\ Calling(p, "remove")
    /\ <<t, d>> \in deps
    /\ deps' = deps \ {<<t, d>>}
    /\ owed' = owed \ {t}
    /\ UNCHANGED <<status, op>>

\* importBundle inserts the edges of the bundle as they come.
ImportDependency(p, t, d) ==
    /\ Calling(p, "import")
    /\ Insertable(t, d)
    /\ deps' = deps \cup {<<t, d>>}
    /\ UNCHANGED <<status, op, owed>>

\* moveDependencies: the edges of the duplicate become edges of the primary.
Moved(primary, duplicate) ==
    LET to(t) == IF t = duplicate THEN primary ELSE t
    IN {<<to(e[1]), to(e[2])>> : e \in deps} \ {<<primary, primary>>}

\* mergeDuplicateTask.
Merge(p, primary, duplicate) ==
    /\ Calling(p, "merge")
    /\ primary # duplicate /\ Exists(primary) /\ Exists(duplicate)
    /\ deps' = Moved(primary, duplicate)
    /\ status' = [status EXCEPT ![duplicate] = "cancelled"]
    /\ owed' = owed \ ({duplicate} \cup Dependents(duplicate))
    /\ UNCHANGED op

\* decomposeTasks with depends_on_prev, two subtasks in one transaction.  The tasks of
\* a manifest come in like this too, joined as its schema, which refuses cycles, allows.
Decompose(p, first, second) ==
    /\ Calling(p, "decompose")
    /\ first # second
    /\ status[first] = "absent" /\ status[second] = "absent"
    /\ status' = [status EXCEPT ![first] = "pending", ![second] = "pending"]
    /\ deps' = deps \cup {<<second, first>>}
    /\ UNCHANGED <<op, owed>>

\* Mutant of Cascade: only the edges of the task itself go.
CascadeOwn(t) == {e \in deps : e[1] # t}

\* Deleting a row takes its edges with it (ON DELETE CASCADE).
Cascade(t) == {e \in deps : e[1] # t /\ e[2] # t}

DeleteTask(p, t) ==
    /\ Calling(p, "delete")
    /\ Exists(t)
    /\ status' = [status EXCEPT ![t] = "deleted"]
    /\ deps' = Cascade(t)
    /\ owed' = owed \ Dependents(t)
    /\ UNCHANGED op

\* claimNextTask.
Claim(p) ==
    /\ Calling(p, "claim")
    /\ \E t \in Tasks :
         /\ Startable(t)
         /\ status' = [status EXCEPT ![t] = "in_progress"]
    /\ UNCHANGED <<deps, op, owed>>

\* completeTask commits and then looks for dependents; it does not ask whether
\* the task itself is blocked.
Complete(p, t) ==
    /\ Calling(p, "complete")
    /\ Exists(t) /\ status[t] \notin {"completed", "cancelled"}
    /\ status' = [status EXCEPT ![t] = "completed"]
    /\ op' = [op EXCEPT ![p] = [kind |-> "announce", task |-> t]]
    /\ owed' = owed \cup Unblocked(t)
    /\ UNCHANGED deps

\* Mutant of Announced: the dependents are those of the row as it was read, none
\* of whose other prerequisites may be finished.
AnnouncedAlone(t) == {u \in Dependents(t) : Prerequisites(u) = {t}}

Announced(t) == Unblocked(t)

AnnounceUnblocked(p) ==
    /\ op[p].kind = "announce"
    /\ owed' = owed \ Announced(op[p].task)
    /\ Done(p)
    /\ UNCHANGED <<status, deps>>

\* Ghost: whose readiness a new status s of t, announced by nobody, decides.
OwedAfter(t, s) ==
    owed \ ((IF s = status[t] THEN {} ELSE {t})
            \cup (IF (s \in Finished) = (status[t] \in Finished) THEN {} ELSE Dependents(t)))

SetStatus(t, s) ==
    /\ Exists(t)
    /\ status' = [status EXCEPT ![t] = s]
    /\ owed' = OwedAfter(t, s)
    /\ UNCHANGED <<deps, op>>

\* updateTask writes any status over any other, "completed" included, and looks for
\* no dependents.
Update(p, t, s) ==
    /\ Calling(p, "update")
    /\ s \in TaskStatuses
    /\ SetStatus(t, s)

\* failTask, of a task in any status.
Fail(p, t) ==
    /\ Calling(p, "fail")
    /\ SetStatus(t, "failed")

Continue(p) == AddRefuse(p) \/ AddVisit(p) \/ AddInsert(p) \/ AnnounceUnblocked(p)

Next ==
    \E p \in Procs :
        \/ Continue(p)
        \/ Claim(p)
        \/ \E t \in Tasks :
             \/ Complete(p, t) \/ DeleteTask(p, t) \/ Fail(p, t)
             \/ \E s \in TaskStatuses : Update(p, t, s)
        \/ \E t, d \in Tasks :
             \/ AddBegin(p, t, d) \/ RemoveDependency(p, t, d)
             \/ ImportDependency(p, t, d) \/ Merge(p, t, d) \/ Decompose(p, t, d)

Spec == Init /\ [][Next]_vars

\* A worker finishes what was claimed before it looks for more.
Work(p) == Claim(p) \/ \E t \in Tasks : status[t] = "in_progress" /\ Complete(p, t)

\* Calls that were begun go on.
CallsGoOn == Spec /\ \A p \in Procs : WF_vars(Continue(p))

\* And workers keep working.
FairSpec == CallsGoOn /\ \A p \in Procs : WF_vars(Work(p))

----------------------------------------------------------------------------
(***************************************************************************)
(* Properties.                                                             *)
(***************************************************************************)

\* Tasks, edges and half-done calls have their types, and an edge joins two rows
\* that exist.
TypeOK ==
    /\ status \in [Tasks -> Statuses]
    /\ deps \subseteq Tasks \X Tasks
    /\ \A e \in deps : e[1] # e[2] /\ Exists(e[1]) /\ Exists(e[2])
    /\ op \in [Procs -> Op]
    /\ owed \subseteq Tasks

\* No task waits for itself through any chain of prerequisites: in every group of
\* tasks one has no prerequisite in the group ("Dependency writes reject cycles").
Acyclic ==
    \A group \in SUBSET Tasks :
        group # {} => \E t \in group : \A d \in group : <<t, d>> \notin deps

\* The walk and the insert of addDependency amount to one step: what the walk found is
\* true when the edge goes in, whatever others wrote between its statements.
Dag == INSTANCE TaskDag WITH
    nodes <- {t \in Tasks : Exists(t)},
    created <- {t \in Tasks : status[t] # "absent"},
    edges <- deps

AddsLikeOneStep == Dag!Spec

\* However completions of the prerequisites of a task interleave, with each other and
\* with every other writer of statuses and edges, the last of them announces the task:
\* a task that completeTask made ready is announced already or one of the completers
\* is still to look for it.  Of a prerequisite that updateTask, failTask, a merge or a
\* deletion takes out of the way nobody tells, and nothing is claimed; nor of a process
\* that dies before it has looked.
LastCompletionAnnounces ==
    \A t \in owed :
        status[t] = "pending" /\ Dispatchable(t)
            => \E p \in Procs : op[p].kind = "announce" /\ op[p].task \in Prerequisites(t)

\* Whatever is added, removed, deleted, decomposed and completed, while a task is
\* unfinished one can be worked on: somebody has one in hand or the next claim finds one.
NeverStuck ==
    (\E t \in Tasks : Exists(t) /\ status[t] # "completed")
        => \E t \in Tasks : status[t] = "in_progress" \/ Startable(t)

\* A walk meets no task twice, whatever graph it walks and whoever rewrites it: each
\* of its steps leaves fewer tasks to visit.
Unvisited(o) == Cardinality(Tasks \ o.visited)

WalksGoForward ==
    [][\A p \in Procs : op[p].kind = "add" /\ op'[p].kind = "add" /\ op'[p] # op[p]
            => Unvisited(op'[p]) < Unvisited(op[p])]_vars

\* A walk over the graph ends, even over a graph that was imported or merged into a
\* cycle and that others keep writing.
AddReturns ==
    \A p \in Procs : op[p].kind = "add" ~> op[p] = Idle

\* Nobody waits forever: while workers keep claiming and completing, every task that
\* is there and is not deleted is finished or cancelled in the end.
EverythingFinishes ==
    \A t \in Tasks :
        Exists(t) ~> (Exists(t) => status[t] \in Finished)
=============================================================================
