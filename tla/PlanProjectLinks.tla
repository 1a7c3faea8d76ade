-------------------------- MODULE PlanProjectLinks --------------------------
(* src/db/plan-project-links.ts: moves an existing plan and its members into  *)
(* a project under an idempotency key, and conditionally back. Each call is   *)
(* one transaction that takes the write lock with its first statement; a      *)
(* stale revision, a drifted result or a replay changes nothing.              *)
EXTENDS PlanRows

CONSTANT Keys    \* idempotency keys; the receipt id is a hash of the key

VARIABLES
  receipts,      \* table plan_project_link_receipts
  undone         \* keys in table plan_project_link_rollback_receipts

links == <<receipts, undone>>

Receipt == [key : Keys, plan : Plans, project : Projects, prior : Homes,
            members : SUBSET Tasks, priors : [Tasks -> Homes]]

LinksInit == receipts = {} /\ undone = {}

KeyUsed(k) == \E r \in receipts : r.key = k

\* The project of every member, as the receipt records it.
ProjectsOf(members) == [t \in Tasks |-> IF t \in members THEN task[t].project ELSE None]

\* Mutant: the project and the plan are bound in the wrong order.
LinkedSwapped(t, pl, h) ==
  IF t \in Members(pl) THEN TaskAs("here", h, pl, task[t].version + 1, FALSE) ELSE task[t]

\* Members already in the project keep their version.
Linked(t, pl, h) ==
  IF t \in Members(pl) /\ task[t].project # h
    THEN TaskAs("here", pl, h, task[t].version + 1, task[t].edited)
    ELSE task[t]

Link(k, pl, h) ==
  /\ ~KeyUsed(k)
  /\ pl \in LivePlans /\ h \in projects
  /\ plan' = [plan EXCEPT ![pl] = PlanAs("here", h, @.slugged, @.edited)]
  /\ task' = [t \in Tasks |-> Linked(t, pl, h)]
  /\ receipts' = receipts \cup
       {[key |-> k, plan |-> pl, project |-> h, prior |-> plan[pl].project,
         members |-> Members(pl), priors |-> ProjectsOf(Members(pl))]}
  /\ UNCHANGED <<undone, projects, refs, edit, writes>>

\* The digest of the result: the plan, its project, its members and theirs.
\* It covers neither revisions nor versions.
AsLinked(r) ==
  /\ r.plan \in LivePlans /\ plan[r.plan].project = r.project
  /\ Members(r.plan) = r.members
  /\ \A t \in r.members : task[t].project = r.project

Restored(t, r) ==
  IF t \in r.members
    THEN TaskAs("here", r.plan, r.priors[t], task[t].version + 1, task[t].edited)
    ELSE task[t]

PriorsAreThere(r) == ValidHome(r.prior) /\ \A t \in r.members : ValidHome(r.priors[t])

Rollback(r) ==
  /\ r \in receipts /\ r.key \notin undone
  /\ AsLinked(r) /\ PriorsAreThere(r)
  /\ plan' = [plan EXCEPT ![r.plan] = PlanAs("here", r.prior, @.slugged, @.edited)]
  /\ task' = [t \in Tasks |-> Restored(t, r)]
  /\ undone' = undone \cup {r.key}
  /\ UNCHANGED <<receipts, projects, refs, edit, writes>>

LinkCall ==
  \/ \E k \in Keys, pl \in Plans, h \in Projects : Link(k, pl, h)
  \/ \E r \in receipts : Rollback(r)
=============================================================================
