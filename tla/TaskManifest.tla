---------------------------- MODULE TaskManifest ----------------------------
(* src/task-manifest: a plan, its tasks and its effects are inserted together *)
(* under ids derived from the operation, and taken back together while nobody *)
(* depends on them. Every call is one BEGIN IMMEDIATE transaction; a repeated *)
(* call returns the stored answer and changes nothing.                        *)
EXTENDS PlanRows

CONSTANTS
  Ops, Effects,    \* operations, and the outbox rows of each
  PlanOf,          \* the plan id of an operation
  TasksOf,         \* its task ids
  ProjectOf        \* the project its manifest names

ASSUME ManifestAssumption ==
  /\ PlanOf \in [Ops -> Plans \ OrdinaryPlans]
  /\ TasksOf \in [Ops -> SUBSET (Tasks \ OrdinaryTasks)]
  /\ ProjectOf \in [Ops -> Projects]
  /\ \A o1, o2 \in Ops :
       o1 # o2 => PlanOf[o1] # PlanOf[o2] /\ TasksOf[o1] \cap TasksOf[o2] = {}

VARIABLES
  binding,    \* state column of todos_task_manifest_bindings, "none" without a row
  outbox      \* status column of todos_task_manifest_outbox, likewise

manifests == <<binding, outbox>>

BindingStates == {"none", "applied", "compensated"}
OutboxStates == {"none", "pending", "delivered", "cancelled"}

ManifestInit ==
  /\ binding = [o \in Ops |-> "none"]
  /\ outbox = [o \in Ops |-> [e \in Effects |-> "none"]]

IdsAreFree(o) == PlanOf[o] \notin LivePlans /\ TasksOf[o] \cap LiveTasks = {}

ManifestApply(o) ==
  /\ binding[o] = "none"
  /\ ProjectOf[o] \in projects /\ IdsAreFree(o)
  /\ plan' = [plan EXCEPT ![PlanOf[o]] = PlanAs("here", ProjectOf[o], FALSE, FALSE)]
  /\ task' = [t \in Tasks |->
                IF t \in TasksOf[o]
                  THEN TaskAs("here", PlanOf[o], ProjectOf[o], 1, FALSE)
                  ELSE task[t]]
  /\ binding' = [binding EXCEPT ![o] = "applied"]
  /\ outbox' = [outbox EXCEPT ![o] = [e \in Effects |-> "pending"]]
  /\ UNCHANGED <<projects, refs, edit, writes>>

\* Mutant: the UPDATE lacks its condition status = 'pending'.
MarkAnyDelivered(o, e) ==
  /\ outbox[o][e] # "none"
  /\ outbox' = [outbox EXCEPT ![o] = [@ EXCEPT ![e] = "delivered"]]
  /\ UNCHANGED <<binding, rows>>

MarkDelivered(o, e) ==
  /\ outbox[o][e] = "pending"
  /\ outbox' = [outbox EXCEPT ![o] = [@ EXCEPT ![e] = "delivered"]]
  /\ UNCHANGED <<binding, rows>>

\* Mutant: tasks.plan_id is not among the foreign keys that are followed.
ForeignRowOnly(o) == refs \cap (TasksOf[o] \cup {PlanOf[o]}) # {}

\* A row outside the graph that a foreign key ties to a row of it.
ForeignReference(o) ==
  \/ Members(PlanOf[o]) \ TasksOf[o] # {}
  \/ refs \cap (TasksOf[o] \cup {PlanOf[o]}) # {}

Undelivered(o) == \A e \in Effects : outbox[o][e] = "pending"

\* Every row of the graph is there with the columns that are compared. The
\* project and the plan of a task are not among them.
AsApplied(o) ==
  /\ PlanOf[o] \in LivePlans
  /\ plan[PlanOf[o]].project = ProjectOf[o]
  /\ ~plan[PlanOf[o]].slugged /\ ~plan[PlanOf[o]].edited
  /\ \A t \in TasksOf[o] : t \in LiveTasks /\ ~task[t].edited

Compensable(o) == Undelivered(o) /\ ~ForeignReference(o) /\ AsApplied(o)

Cancelled(s) == IF s = "pending" THEN "cancelled" ELSE s

Compensate(o) ==
  /\ binding[o] = "applied"
  /\ Compensable(o)
  /\ outbox' = [outbox EXCEPT ![o] = [e \in Effects |-> Cancelled(@[e])]]
  /\ plan' = [plan EXCEPT ![PlanOf[o]] = PlanRemoved]
  /\ task' = [t \in Tasks |->
                IF t \in TasksOf[o] THEN TaskRemoved ELSE Unplanned(t, {PlanOf[o]})]
  /\ refs' = refs \ (TasksOf[o] \cup {PlanOf[o]})
  /\ binding' = [binding EXCEPT ![o] = "compensated"]
  /\ UNCHANGED <<projects, edit, writes>>

ManifestCall ==
  \E o \in Ops :
    \/ ManifestApply(o)
    \/ Compensate(o)
    \/ \E e \in Effects : MarkDelivered(o, e)
=============================================================================
