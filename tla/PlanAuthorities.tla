-------------------------- MODULE PlanAuthorities ---------------------------
(* The two authorities over plans, PlanProjectLinks and TaskManifest, and the *)
(* ordinary writers of PlanRows on the same tables, interleaved by            *)
(* transaction.                                                               *)
EXTENDS PlanProjectLinks, TaskManifest

vars == <<rows, links, manifests>>

Init == RowsInit /\ LinksInit /\ ManifestInit

Next ==
  \/ OrdinaryWrite /\ UNCHANGED <<links, manifests>>
  \/ LinkCall /\ UNCHANGED manifests
  \/ ManifestCall /\ UNCHANGED links

Spec == Init /\ [][Next]_vars
-----------------------------------------------------------------------------
(* Properties *)

(* Type correctness of the tables. *)
TypeOK ==
  /\ projects \in SUBSET Projects
  /\ plan \in [Plans -> PlanRow]
  /\ task \in [Tasks -> TaskRow]
  /\ refs \in SUBSET (Plans \cup Tasks)
  /\ edit \in [Procs -> Edit]
  /\ writes \in Nat
  /\ receipts \in SUBSET Receipt
  /\ undone \in SUBSET Keys
  /\ binding \in [Ops -> BindingStates]
  /\ outbox \in [Ops -> [Effects -> OutboxStates]]

(* Through cascades, rollbacks to projects that are gone and compensations,   *)
(* no row names a plan or a project that is not there.                        *)
NothingDangles ==
  /\ \A pl \in LivePlans : ValidHome(plan[pl].project)
  /\ \A t \in LiveTasks : ValidPlan(task[t].plan) /\ ValidHome(task[t].project)
  /\ refs \subseteq LivePlans \cup LiveTasks

(* An operation that was compensated is undone as a whole and for good: none  *)
(* of its effects was delivered, before or after, and no row of its graph is  *)
(* there, whatever retries, links, edits and deliveries come in between.      *)
CompensatedIsUndone ==
  \A o \in Ops :
    /\ (\E e \in Effects : outbox[o][e] = "delivered") => binding[o] = "applied"
    /\ binding[o] = "compensated" =>
         /\ \A e \in Effects : outbox[o][e] = "cancelled"
         /\ PlanOf[o] \notin LivePlans /\ TasksOf[o] \cap LiveTasks = {}

Compensates(o) == binding[o] = "applied" /\ binding'[o] = "compensated"

(* The deletes of a compensation cascade to no row outside its graph          *)
(* ("compensates only the exact untouched graph and refuses delivered effects *)
(* or foreign references", task-manifest.test.ts:440).                        *)
CompensationIsContained ==
  [][\A o \in Ops : Compensates(o) =>
       /\ \A t \in Tasks \ TasksOf[o] : task'[t] = task[t]
       /\ \A pl \in Plans \ {PlanOf[o]} : plan'[pl] = plan[pl]
       /\ refs' = refs]_vars

Follows(t) ==
  t \in LiveTasks => Conforms(task[t].plan, task[t].project)

(* Tasks stay in the project of their plan ("keeps future plan membership     *)
(* linked by inheritance and conflict rejection",                             *)
(* plan-project-link.test.ts:83). What takes one out of it are the writers    *)
(* that look at no project, moveTask, attachPlanToProject and the raw         *)
(* plan_id of a plan execution or a goal; an updateTask on a task that got    *)
(* its plan raw, behind the version that the update compares; and a rollback  *)
(* of a link that had found it out of it. An import is not among the writers. *)
MembershipIsKept ==
  [][\A t \in Tasks : Follows(t) /\ ~Follows(t)' =>
       \/ \E pl \in Plans \cup {None}, h \in Homes : MoveTask(t, pl, h) \/ Adopt(t, pl, h)
       \/ \E h \in Projects : AttachPlan(task[t].plan, h)
       \/ task[t].raw /\ \E p \in Procs : edit[p].task = t /\ UpdateWrite(p)
       \/ \E r \in receipts :
            Rollback(r) /\ t \in r.members /\ r.priors[t] # r.prior]_vars
=============================================================================
