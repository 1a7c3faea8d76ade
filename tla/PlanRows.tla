------------------------------ MODULE PlanRows ------------------------------
(* The rows of projects, plans and tasks in one SQLite file that the          *)
(* authorities of this project write, and who else writes them:               *)
(* src/db/plans.ts, projects.ts, task-crud.ts, task-graph.ts,                 *)
(* src/lib/plan-execution.ts and goal-workflow.ts. Left out is the import of  *)
(* a bundle, which writes the id and the version of a task at will.           *)
EXTENDS Naturals

CONSTANTS
  Projects, Plans, Tasks,           \* ids
  OrdinaryPlans, OrdinaryTasks,     \* ids that createPlan and createTask draw
  Procs,                            \* processes inside updateTask
  None,                             \* SQL NULL
  MaxWrites                         \* bound on ordinary writes

ASSUME RowsAssumption ==
  /\ OrdinaryPlans \subseteq Plans
  /\ OrdinaryTasks \subseteq Tasks
  /\ None \notin Projects /\ None \notin Plans /\ None \notin Tasks
  /\ MaxWrites \in Nat

VARIABLES
  projects,   \* ids in table projects
  plan,       \* table plans
  task,       \* table tasks
  refs,       \* plans and tasks a row of any other table points to
  edit,       \* updateTask between its SELECT and its UPDATE, by process
  writes      \* ordinary writes so far

rows == <<projects, plan, task, refs, edit, writes>>

States == {"unused", "here", "gone"}
Homes == Projects \cup {None}

\* "edited": a column a manifest compares differs from what was inserted.
\* "raw", which no column holds: the task got its plan without a new version.
PlanRow == [state : States, project : Homes, slugged : BOOLEAN, edited : BOOLEAN]
TaskRow == [state : States, plan : Plans \cup {None}, project : Homes,
            version : Nat, edited : BOOLEAN, raw : BOOLEAN]
\* What updateTask is about to write; "keeps" are the columns it does not name.
Edit == [task : Tasks \cup {None}, version : Nat, project : Homes, edited : BOOLEAN,
         keeps : SUBSET {"plan", "project"}]

PlanAs(s, h, g, e) == [state |-> s, project |-> h, slugged |-> g, edited |-> e]
TaskAs(s, pl, h, v, e) ==
  [state |-> s, plan |-> pl, project |-> h, version |-> v, edited |-> e, raw |-> FALSE]
NoEdit == [task |-> None, version |-> 0, project |-> None, edited |-> FALSE, keeps |-> {}]

RowsInit ==
  /\ projects = Projects
  /\ plan = [pl \in Plans |-> PlanAs("unused", None, FALSE, FALSE)]
  /\ task = [t \in Tasks |-> TaskAs("unused", None, None, 0, FALSE)]
  /\ refs = {}
  /\ edit = [p \in Procs |-> NoEdit]
  /\ writes = 0

LivePlans == {pl \in Plans : plan[pl].state = "here"}
LiveTasks == {t \in Tasks : task[t].state = "here"}
Members(pl) == {t \in LiveTasks : task[t].plan = pl}

\* Foreign keys are on: a written column names a row that is there, or nothing.
ValidHome(h) == h \in projects \cup {None}
ValidPlan(pl) == pl \in LivePlans \cup {None}

\* A task enters or stays in a linked plan only with the project of the plan.
LinkedProject(pl) == IF pl = None THEN None ELSE plan[pl].project
Conforms(pl, h) == LinkedProject(pl) \in {None, h}

Written(t, pl, h, e) ==
  task' = [task EXCEPT ![t] = TaskAs("here", pl, h, task[t].version + 1, e)]

Counted == writes < MaxWrites /\ writes' = writes + 1
-----------------------------------------------------------------------------
CreatePlan(pl, h) ==
  /\ Counted
  /\ pl \in OrdinaryPlans /\ plan[pl].state = "unused" /\ ValidHome(h)
  /\ plan' = [plan EXCEPT ![pl] = PlanAs("here", h, TRUE, FALSE)]
  /\ UNCHANGED <<projects, task, refs, edit>>

\* Only a manifest compares the columns; other rows are never marked.
EditPlan(pl, e) ==
  /\ Counted
  /\ pl \in LivePlans \ OrdinaryPlans
  /\ plan' = [plan EXCEPT ![pl] = PlanAs("here", @.project, @.slugged, e)]
  /\ UNCHANGED <<projects, task, refs, edit>>

\* Every process that opens the file gives a slug to the plans without one.
BackfillSlug(pl) ==
  /\ pl \in LivePlans /\ ~plan[pl].slugged
  /\ plan' = [plan EXCEPT ![pl] = PlanAs("here", @.project, TRUE, @.edited)]
  /\ UNCHANGED <<projects, task, refs, edit, writes>>

AttachPlan(pl, h) ==
  /\ Counted
  /\ pl \in LivePlans /\ h \in projects
  /\ plan' = [plan EXCEPT ![pl] = PlanAs("here", h, @.slugged, @.edited)]
  /\ UNCHANGED <<projects, task, refs, edit>>

PlanRemoved == PlanAs("gone", None, FALSE, FALSE)
TaskRemoved == TaskAs("gone", None, None, 0, FALSE)

\* Mutant: foreign keys are off.
UnplannedNot(t, gone) == task[t]

\* tasks.plan_id is ON DELETE SET NULL.
Unplanned(t, gone) ==
  IF task[t].plan \in gone
    THEN TaskAs(task[t].state, None, task[t].project, task[t].version, task[t].edited)
    ELSE task[t]

DeletePlan(pl) ==
  /\ Counted
  /\ pl \in LivePlans
  /\ plan' = [plan EXCEPT ![pl] = PlanRemoved]
  /\ task' = [t \in Tasks |-> Unplanned(t, {pl})]
  /\ refs' = refs \ {pl}
  /\ UNCHANGED <<projects, edit>>

\* plans.project_id is ON DELETE CASCADE, tasks.project_id ON DELETE SET NULL.
PlansIn(h) == {pl \in LivePlans : plan[pl].project = h}
Homeless(row, h) == IF row.project = h THEN [row EXCEPT !.project = None] ELSE row

DeleteProject(h) ==
  /\ Counted
  /\ h \in projects
  /\ projects' = projects \ {h}
  /\ plan' = [pl \in Plans |-> IF pl \in PlansIn(h) THEN PlanRemoved ELSE plan[pl]]
  /\ task' = [t \in Tasks |-> Homeless(Unplanned(t, PlansIn(h)), h)]
  /\ refs' = refs \ PlansIn(h)
  /\ UNCHANGED edit
-----------------------------------------------------------------------------
CreateTask(t, pl, h) ==
  /\ Counted
  /\ t \in OrdinaryTasks /\ task[t].state = "unused"
  /\ ValidPlan(pl) /\ ValidHome(h) /\ Conforms(pl, h)
  /\ task' = [task EXCEPT ![t] = TaskAs("here", pl, h, 1, FALSE)]
  /\ UNCHANGED <<projects, plan, refs, edit>>

Contents(t) == IF t \in OrdinaryTasks THEN {FALSE} ELSE BOOLEAN

\* With a plan before or after it, the update is one transaction that starts
\* with guardPlanRowsSqlite.
UpdateTask(t, pl, h, e) ==
  /\ Counted
  /\ t \in LiveTasks /\ e \in Contents(t)
  /\ task[t].plan # None \/ pl # None
  /\ ValidPlan(pl) /\ ValidHome(h) /\ Conforms(pl, h)
  /\ Written(t, pl, h, e)
  /\ UNCHANGED <<projects, plan, refs, edit>>

\* Without one, it reads the row twice, looks at the plan, and writes, each in
\* a statement of its own. Versions only go up, so at the version the caller
\* names both reads find one plan, unless it was written raw in between.
UpdateRead(p, t, h, e, keeps) ==
  /\ Counted
  /\ edit[p] = NoEdit
  /\ t \in LiveTasks /\ e \in Contents(t)
  /\ task[t].plan = None \/ task[t].raw
  /\ ValidHome(h) /\ "project" \in keeps => h = None
  /\ "plan" \in keeps =>
       Conforms(task[t].plan, IF "project" \in keeps THEN task[t].project ELSE h)
  /\ edit' = [edit EXCEPT ![p] = [task |-> t, version |-> task[t].version,
                                  project |-> h, edited |-> e, keeps |-> keeps]]
  /\ UNCHANGED <<projects, plan, task, refs>>

PlanAfter(p) == IF "plan" \in edit[p].keeps THEN task[edit[p].task].plan ELSE None
HomeAfter(p) ==
  IF "project" \in edit[p].keeps THEN task[edit[p].task].project ELSE edit[p].project

\* Mutant: the UPDATE does not compare the version.
UnmovedOrNot(p) == TRUE

Unmoved(p) == task[edit[p].task].version = edit[p].version

UpdateWrite(p) ==
  /\ edit[p] # NoEdit
  /\ edit[p].task \in LiveTasks /\ Unmoved(p) /\ ValidHome(HomeAfter(p))
  /\ Written(edit[p].task, PlanAfter(p), HomeAfter(p), edit[p].edited)
  /\ edit' = [edit EXCEPT ![p] = NoEdit]
  /\ UNCHANGED <<projects, plan, refs, writes>>

\* The UPDATE changed no row, or the process died before it.
UpdateEnds(p) ==
  /\ edit[p] # NoEdit
  /\ edit' = [edit EXCEPT ![p] = NoEdit]
  /\ UNCHANGED <<projects, plan, task, refs, writes>>

MoveTask(t, pl, h) ==
  /\ Counted
  /\ t \in LiveTasks /\ ValidPlan(pl) /\ ValidHome(h)
  /\ Written(t, pl, h, task[t].edited)
  /\ UNCHANGED <<projects, plan, refs, edit>>

\* The subtasks of a plan execution or a goal: plan_id is written raw, past the
\* project of the plan and the version, and the project where there is none (h
\* is what the plan said when it was read; a goal fills in nothing).
Adopt(t, pl, h) ==
  /\ Counted
  /\ t \in LiveTasks \cap OrdinaryTasks /\ pl \in LivePlans /\ ValidHome(h)
  /\ task' = [task EXCEPT
                ![t].plan = pl,
                ![t].project = IF @ = None THEN h ELSE @,
                ![t].raw = @ \/ task[t].plan = None]
  /\ UNCHANGED <<projects, plan, refs, edit>>

DeleteTask(t) ==
  /\ Counted
  /\ t \in LiveTasks
  /\ task' = [task EXCEPT ![t] = TaskRemoved]
  /\ refs' = refs \ {t}
  /\ UNCHANGED <<projects, plan, edit>>

\* A comment, dependency, subtask, lease ... of somebody else comes or goes.
Refer(x) ==
  /\ Counted
  /\ x \in (LivePlans \cup LiveTasks) \ refs
  /\ refs' = refs \cup {x}
  /\ UNCHANGED <<projects, plan, task, edit>>

Unrefer(x) ==
  /\ Counted
  /\ x \in refs
  /\ refs' = refs \ {x}
  /\ UNCHANGED <<projects, plan, task, edit>>

OrdinaryCall ==
  \/ \E pl \in Plans :
       \/ DeletePlan(pl)
       \/ \E e \in BOOLEAN : EditPlan(pl, e)
       \/ \E h \in Homes : CreatePlan(pl, h) \/ AttachPlan(pl, h)
  \/ \E h \in Projects : DeleteProject(h)
  \/ \E t \in Tasks, pl \in Plans \cup {None}, h \in Homes :
       \/ CreateTask(t, pl, h)
       \/ MoveTask(t, pl, h)
       \/ Adopt(t, pl, h)
       \/ \E e \in BOOLEAN : UpdateTask(t, pl, h, e)
  \/ \E p \in Procs, t \in Tasks, h \in Homes, e \in BOOLEAN,
        keeps \in SUBSET {"plan", "project"} : UpdateRead(p, t, h, e, keeps)
  \/ \E t \in Tasks : DeleteTask(t)
  \/ \E x \in Plans \cup Tasks : Refer(x) \/ Unrefer(x)

OrdinaryWrite ==
  \/ writes < MaxWrites /\ OrdinaryCall
  \/ \E pl \in Plans : BackfillSlug(pl)
  \/ \E p \in Procs : UpdateWrite(p) \/ UpdateEnds(p)
=============================================================================
