------------------------ MODULE PlanAuthoritiesProofs ------------------------
(* Proofs about PlanAuthorities: nothing dangles, a compensation is final,   *)
(* whole and contained, and tasks stay in the project of their plan, for any *)
(* projects, plans, tasks, keys, operations and effects.                     *)
EXTENDS PlanAuthorities, TLAPS

-----------------------------------------------------------------------------
(* The inductive invariant *)

(* An operation that never ran has no rows, one that was undone none either. *)
GraphsTell ==
  \A o \in Ops :
    /\ binding[o] = "none" => \A t \in TasksOf[o] : task[t].state = "unused"
    /\ binding[o] = "compensated" =>
         /\ plan[PlanOf[o]].state = "gone"
         /\ \A t \in TasksOf[o] : task[t].state = "gone"

OutboxOf(s) ==
  CASE s = "none" -> {"none"}
    [] s = "applied" -> {"pending", "delivered"}
    [] s = "compensated" -> {"cancelled"}

OutboxTells == \A o \in Ops, d \in Effects : outbox[o][d] \in OutboxOf(binding[o])

(* A row that is not there holds no plan. *)
AbsentIsBlank == \A t \in Tasks : task[t].state # "here" => task[t].plan = None

(* No plan, or one that was written raw: an updateTask may have seen no plan *)
(* at the version of this row.                                               *)
Loose(row) == row.plan = None \/ row.raw

(* A task that updateTask read has got a plan since then only raw or with a  *)
(* higher version, so that the UPDATE no longer finds the row it read.       *)
EditTells(w, row) ==
  /\ row.state # "unused"
  /\ row.state = "here" =>
       /\ w.version <= row.version
       /\ row.version = w.version => Loose(row)

EditsTell ==
  \A p \in Procs : edit[p] # NoEdit =>
    edit[p].task \in Tasks /\ EditTells(edit[p], task[edit[p].task])

IInv ==
  TypeOK /\ NothingDangles /\ GraphsTell /\ OutboxTells /\ AbsentIsBlank /\ EditsTell


-----------------------------------------------------------------------------
(* Types *)

LEMMA PlanAsType ==
  ASSUME NEW s \in States, NEW h \in Homes, NEW g \in BOOLEAN, NEW e \in BOOLEAN
  PROVE  /\ PlanAs(s, h, g, e) \in PlanRow
         /\ PlanAs(s, h, g, e).state = s
         /\ PlanAs(s, h, g, e).project = h
BY DEF PlanAs, PlanRow

LEMMA TaskAsType ==
  ASSUME NEW s \in States, NEW pl \in Plans \cup {None}, NEW h \in Homes,
         NEW v \in Nat, NEW e \in BOOLEAN
  PROVE  /\ TaskAs(s, pl, h, v, e) \in TaskRow
         /\ TaskAs(s, pl, h, v, e).state = s
         /\ TaskAs(s, pl, h, v, e).plan = pl
         /\ TaskAs(s, pl, h, v, e).project = h
         /\ TaskAs(s, pl, h, v, e).version = v
BY DEF TaskAs, TaskRow

LEMMA RowTypes ==
  ASSUME TypeOK
  PROVE  /\ \A pl \in Plans :
              /\ plan[pl] \in PlanRow
              /\ plan[pl].state \in States /\ plan[pl].project \in Homes
              /\ plan[pl].slugged \in BOOLEAN /\ plan[pl].edited \in BOOLEAN
         /\ \A t \in Tasks :
              /\ task[t] \in TaskRow
              /\ task[t].state \in States /\ task[t].plan \in Plans \cup {None}
              /\ task[t].project \in Homes /\ task[t].version \in Nat
              /\ task[t].edited \in BOOLEAN /\ task[t].raw \in BOOLEAN
BY DEF TypeOK, PlanRow, TaskRow

LEMMA EditFields ==
  ASSUME TypeOK, NEW p \in Procs
  PROVE  /\ edit[p].task \in Tasks \cup {None} /\ edit[p].version \in Nat
         /\ edit[p].project \in Homes /\ edit[p].edited \in BOOLEAN
BY DEF TypeOK, Edit

LEMMA AfterType ==
  ASSUME TypeOK, NEW p \in Procs, edit[p].task \in Tasks
  PROVE  /\ PlanAfter(p) \in Plans \cup {None} /\ HomeAfter(p) \in Homes
         /\ PlanAfter(p) \in {task[edit[p].task].plan, None}
BY RowTypes, EditFields DEF PlanAfter, HomeAfter

LEMMA ReceiptFields ==
  ASSUME TypeOK, NEW r \in receipts
  PROVE  /\ r.key \in Keys /\ r.plan \in Plans /\ r.project \in Projects
         /\ r.prior \in Homes /\ r.members \in SUBSET Tasks
         /\ r.priors \in [Tasks -> Homes]
BY DEF TypeOK, Receipt

LEMMA NoEditType == NoEdit \in Edit
BY DEF NoEdit, Edit, Homes

LEMMA RemovedTypes ==
  /\ PlanRemoved \in PlanRow /\ PlanRemoved.state = "gone"
  /\ TaskRemoved \in TaskRow /\ TaskRemoved.state = "gone" /\ TaskRemoved.plan = None
<1>1. "gone" \in States /\ None \in Homes /\ None \in Plans \cup {None}
  BY DEF States, Homes
<1>2. 0 \in Nat /\ FALSE \in BOOLEAN
  OBVIOUS
<1>3. PlanRemoved \in PlanRow /\ PlanRemoved.state = "gone"
  BY <1>1, <1>2, PlanAsType DEF PlanRemoved
<1>4. TaskRemoved \in TaskRow /\ TaskRemoved.state = "gone" /\ TaskRemoved.plan = None
  BY <1>1, <1>2 DEF TaskRemoved, TaskAs, TaskRow
<1>. QED
  BY <1>3, <1>4

LEMMA CountedType == ASSUME TypeOK, Counted PROVE writes' \in Nat
BY DEF TypeOK, Counted

(* A task whose plan goes keeps everything but its plan. *)
LEMMA UnplannedType ==
  ASSUME TypeOK, NEW t \in Tasks, NEW gone
  PROVE  /\ Unplanned(t, gone) \in TaskRow
         /\ Unplanned(t, gone).state = task[t].state
         /\ Unplanned(t, gone).project = task[t].project
         /\ Unplanned(t, gone).version = task[t].version
         /\ Unplanned(t, gone).plan = IF task[t].plan \in gone THEN None ELSE task[t].plan
         /\ Loose(task[t]) => Loose(Unplanned(t, gone))
<1>1. /\ task[t] \in TaskRow
      /\ task[t].state \in States /\ task[t].project \in Homes
      /\ task[t].version \in Nat /\ task[t].edited \in BOOLEAN
  BY RowTypes
<1>2. CASE task[t].plan \in gone
  <2>1. None \in Plans \cup {None}
    OBVIOUS
  <2>2. Unplanned(t, gone) =
          TaskAs(task[t].state, None, task[t].project, task[t].version, task[t].edited)
    BY <1>2 DEF Unplanned
  <2>3. TaskAs(task[t].state, None, task[t].project, task[t].version, task[t].edited).plan
          = None
    BY DEF TaskAs
  <2>4. Loose(Unplanned(t, gone))
    BY <2>2, <2>3 DEF Loose
  <2>. QED
    BY <1>1, <1>2, <2>1, <2>2, <2>4, TaskAsType
<1>3. CASE task[t].plan \notin gone
  BY <1>1, <1>3 DEF Unplanned
<1>. QED
  BY <1>2, <1>3

(* A task whose project goes keeps everything but its project. *)
LEMMA HomelessType ==
  ASSUME NEW row \in TaskRow, NEW h
  PROVE  /\ Homeless(row, h) \in TaskRow
         /\ Homeless(row, h).state = row.state
         /\ Homeless(row, h).plan = row.plan
         /\ Homeless(row, h).version = row.version
         /\ Homeless(row, h).project = IF row.project = h THEN None ELSE row.project
         /\ Homeless(row, h).raw = row.raw
BY DEF Homeless, TaskRow, Homes

LEMMA WrittenType ==
  ASSUME TypeOK, NEW t \in Tasks, NEW pl \in Plans \cup {None}, NEW h \in Homes,
         NEW e \in BOOLEAN, Written(t, pl, h, e)
  PROVE  /\ task' \in [Tasks -> TaskRow]
         /\ task'[t].state = "here" /\ task'[t].plan = pl /\ task'[t].project = h
         /\ task'[t].version = task[t].version + 1
         /\ \A u \in Tasks \ {t} : task'[u] = task[u]
<1>1. TypeOK /\ task[t].version \in Nat /\ "here" \in States
  BY RowTypes DEF States
<1>2. task[t].version + 1 \in Nat
  BY <1>1
<1>. DEFINE row == TaskAs("here", pl, h, task[t].version + 1, e)
<1>3. /\ row \in TaskRow /\ row.state = "here" /\ row.plan = pl /\ row.project = h
      /\ row.version = task[t].version + 1
  BY <1>1, <1>2, TaskAsType
<1>4. task' = [task EXCEPT ![t] = row]
  BY DEF Written
<1>. HIDE DEF row
<1>. QED
  BY <1>3, <1>4 DEF TypeOK

LEMMA AdoptType ==
  ASSUME TypeOK, NEW t \in Tasks, NEW pl \in Plans \cup {None}, NEW h \in Homes,
         Adopt(t, pl, h)
  PROVE  /\ task' \in [Tasks -> TaskRow]
         /\ task'[t].state = task[t].state /\ task'[t].plan = pl
         /\ task'[t].project = IF task[t].project = None THEN h ELSE task[t].project
         /\ task'[t].version = task[t].version
         /\ Loose(task[t]) => Loose(task'[t])
         /\ \A u \in Tasks \ {t} : task'[u] = task[u]
<1>1. /\ task \in [Tasks -> TaskRow] /\ task[t] \in TaskRow /\ pl \in Plans \cup {None}
      /\ task[t].raw \in BOOLEAN
  BY RowTypes DEF TypeOK
<1>. DEFINE b == task[t].raw \/ task[t].plan = None
            row == [task[t] EXCEPT !.plan = pl,
                                   !.project = IF task[t].project = None THEN h ELSE @,
                                   !.raw = b]
<1>2. task' = [task EXCEPT ![t] = row]
  BY <1>1 DEF Adopt, TaskRow
<1>3. b \in BOOLEAN /\ (Loose(task[t]) => b)
  BY <1>1 DEF Loose
<1>. HIDE DEF b
<1>4. /\ row \in TaskRow /\ row.state = task[t].state /\ row.plan = pl
      /\ row.project = IF task[t].project = None THEN h ELSE task[t].project
      /\ row.version = task[t].version /\ row.raw = b
  BY <1>1, <1>3 DEF TaskRow
<1>. HIDE DEF row
<1>. QED
  BY <1>1, <1>2, <1>3, <1>4 DEF Loose

LEMMA LinkedType ==
  ASSUME TypeOK, NEW t \in Tasks, NEW pl \in Plans, NEW h \in Homes
  PROVE  /\ Linked(t, pl, h) \in TaskRow
         /\ Linked(t, pl, h).state = task[t].state
         /\ Linked(t, pl, h).plan = task[t].plan
         /\ Linked(t, pl, h).version >= task[t].version
         /\ Linked(t, pl, h).project = IF t \in Members(pl) THEN h ELSE task[t].project
         /\ Linked(t, pl, h).version = task[t].version => Linked(t, pl, h) = task[t]
<1>1. CASE t \in Members(pl) /\ task[t].project # h
  <2>1. task[t].version \in Nat /\ task[t].edited \in BOOLEAN
        /\ task[t].state = "here" /\ task[t].plan = pl /\ "here" \in States
    BY <1>1, RowTypes DEF Members, LiveTasks, States
  <2>2. task[t].version + 1 \in Nat
    BY <2>1
  <2>. DEFINE row == TaskAs("here", pl, h, task[t].version + 1, task[t].edited)
  <2>3. /\ row \in TaskRow /\ row.state = "here" /\ row.plan = pl /\ row.project = h
        /\ row.version = task[t].version + 1
    BY <2>1, <2>2, TaskAsType
  <2>4. Linked(t, pl, h) = row
    BY <1>1 DEF Linked
  <2>. HIDE DEF row
  <2>. QED
    BY <1>1, <2>1, <2>3, <2>4
<1>2. CASE ~(t \in Members(pl) /\ task[t].project # h)
  BY <1>2, RowTypes DEF Linked
<1>. QED
  BY <1>1, <1>2

LEMMA RestoredType ==
  ASSUME TypeOK, NEW r \in receipts, AsLinked(r), NEW t \in Tasks
  PROVE  /\ Restored(t, r) \in TaskRow
         /\ Restored(t, r).state = task[t].state
         /\ Restored(t, r).plan = task[t].plan
         /\ Restored(t, r).project = IF t \in r.members THEN r.priors[t] ELSE task[t].project
         /\ Restored(t, r).version = IF t \in r.members THEN task[t].version + 1
                                                        ELSE task[t].version
<1>1. CASE t \in r.members
  <2>1. /\ task[t].version \in Nat /\ task[t].edited \in BOOLEAN
        /\ task[t].state = "here" /\ task[t].plan = r.plan /\ "here" \in States
        /\ r.plan \in Plans /\ r.priors[t] \in Homes
    BY <1>1, RowTypes, ReceiptFields DEF AsLinked, Members, LiveTasks, States
  <2>2. task[t].version + 1 \in Nat
    BY <2>1
  <2>. DEFINE row == TaskAs("here", r.plan, r.priors[t], task[t].version + 1, task[t].edited)
  <2>3. /\ row \in TaskRow /\ row.state = "here" /\ row.plan = r.plan
        /\ row.project = r.priors[t] /\ row.version = task[t].version + 1
    BY <2>1, <2>2, TaskAsType
  <2>4. Restored(t, r) = row
    BY <1>1 DEF Restored
  <2>. HIDE DEF row
  <2>. QED
    BY <1>1, <2>1, <2>3, <2>4
<1>2. CASE t \notin r.members
  BY <1>2, RowTypes DEF Restored
<1>. QED
  BY <1>1, <1>2

LEMMA ReceiptType ==
  ASSUME TypeOK, NEW k \in Keys, NEW pl \in Plans, NEW h \in Projects
  PROVE  [key |-> k, plan |-> pl, project |-> h, prior |-> plan[pl].project,
          members |-> Members(pl), priors |-> ProjectsOf(Members(pl))] \in Receipt
<1>1. plan[pl].project \in Homes /\ Members(pl) \in SUBSET Tasks
  BY RowTypes DEF Members, LiveTasks
<1>2. ProjectsOf(Members(pl)) \in [Tasks -> Homes]
  BY RowTypes DEF ProjectsOf, Homes
<1>. QED
  BY <1>1, <1>2 DEF Receipt

LEMMA CancelledType == \A s \in OutboxStates : Cancelled(s) \in OutboxStates
BY DEF Cancelled, OutboxStates


LEMMA TypeStep ==
  ASSUME TypeOK, [Next]_vars
  PROVE  TypeOK'
<1>1. CASE UNCHANGED vars
  BY <1>1 DEF vars, rows, links, manifests, TypeOK
<1>2. ASSUME NEW pl \in Plans,
            DeletePlan(pl), UNCHANGED <<links, manifests>>
     PROVE  TypeOK'
  BY <1>2, CountedType, PlanAsType, RowTypes, UnplannedType, RemovedTypes DEF
    DeletePlan, TypeOK, rows, links, manifests, LivePlans, LiveTasks
<1>3. ASSUME NEW pl \in Plans,
            BackfillSlug(pl), UNCHANGED <<links, manifests>>
     PROVE  TypeOK'
  BY <1>3, CountedType, PlanAsType, RowTypes DEF BackfillSlug, TypeOK, rows,
    links, manifests, LivePlans, LiveTasks, States
<1>4. ASSUME NEW pl \in Plans, NEW e \in BOOLEAN,
            EditPlan(pl, e), UNCHANGED <<links, manifests>>
     PROVE  TypeOK'
  <2>1. PlanAs("here", plan[pl].project, plan[pl].slugged, e) \in PlanRow
    BY <1>4, PlanAsType, RowTypes DEF States
  <2>. QED
    BY <1>4, <2>1, CountedType DEF EditPlan, TypeOK, rows, links, manifests,
      LivePlans
<1>5. ASSUME NEW pl \in Plans, NEW h \in Homes,
            CreatePlan(pl, h), UNCHANGED <<links, manifests>>
     PROVE  TypeOK'
  <2>1. PlanAs("here", h, TRUE, FALSE) \in PlanRow
    BY <1>5, PlanAsType DEF States
  <2>. QED
    BY <1>5, <2>1, CountedType DEF CreatePlan, TypeOK, rows, links, manifests
<1>6. ASSUME NEW pl \in Plans, NEW h \in Homes,
            AttachPlan(pl, h), UNCHANGED <<links, manifests>>
     PROVE  TypeOK'
  <2>1. PlanAs("here", h, plan[pl].slugged, plan[pl].edited) \in PlanRow
    BY <1>6, PlanAsType, RowTypes DEF States
  <2>. QED
    BY <1>6, <2>1, CountedType DEF AttachPlan, TypeOK, rows, links, manifests
<1>7. ASSUME NEW h \in Projects,
            DeleteProject(h), UNCHANGED <<links, manifests>>
     PROVE  TypeOK'
  BY <1>7, CountedType, PlanAsType, RowTypes, UnplannedType, RemovedTypes,
    HomelessType DEF DeleteProject, TypeOK, rows, links, manifests,
    LivePlans, LiveTasks, PlansIn
<1>8. ASSUME NEW t \in Tasks, NEW pl \in Plans \cup {None}, NEW h \in Homes,
            CreateTask(t, pl, h), UNCHANGED <<links, manifests>>
     PROVE  TypeOK'
  <2>1. TaskAs("here", pl, h, 1, FALSE) \in TaskRow
    BY <1>8, TaskAsType DEF States
  <2>. QED
    BY <1>8, <2>1, CountedType DEF CreateTask, TypeOK, rows, links, manifests
<1>9. ASSUME NEW t \in Tasks, NEW pl \in Plans \cup {None}, NEW h \in Homes,
            MoveTask(t, pl, h), UNCHANGED <<links, manifests>>
     PROVE  TypeOK'
  <2>1. task' \in [Tasks -> TaskRow]
    BY <1>9, WrittenType, RowTypes DEF MoveTask
  <2>. QED
    BY <1>9, <2>1, CountedType DEF MoveTask, TypeOK, rows, links, manifests
<1>10. ASSUME NEW t \in Tasks, NEW pl \in Plans \cup {None}, NEW h \in Homes,
               NEW e \in BOOLEAN,
             UpdateTask(t, pl, h, e), UNCHANGED <<links, manifests>>
      PROVE  TypeOK'
  <2>1. task' \in [Tasks -> TaskRow]
    BY <1>10, WrittenType DEF UpdateTask
  <2>. QED
    BY <1>10, <2>1, CountedType DEF UpdateTask, TypeOK, rows, links, manifests
<1>11. ASSUME NEW p \in Procs,
             UpdateWrite(p), UNCHANGED <<links, manifests>>
      PROVE  TypeOK'
  <2>1. task' \in [Tasks -> TaskRow]
    BY <1>11, WrittenType, AfterType, EditFields DEF UpdateWrite, LiveTasks
  <2>. QED
    BY <1>11, <2>1, CountedType, NoEditType DEF UpdateWrite, TypeOK, rows,
      links, manifests
<1>12. ASSUME NEW p \in Procs,
             UpdateEnds(p), UNCHANGED <<links, manifests>>
      PROVE  TypeOK'
  BY <1>12, CountedType, PlanAsType, RowTypes, NoEditType DEF UpdateEnds,
    TypeOK, rows, links, manifests, LivePlans, LiveTasks
<1>13. ASSUME NEW p \in Procs, NEW t \in Tasks, NEW h \in Homes, NEW e \in
               BOOLEAN, NEW keeps \in SUBSET {"plan", "project"},
             UpdateRead(p, t, h, e, keeps), UNCHANGED <<links, manifests>>
      PROVE  TypeOK'
  BY <1>13, CountedType, PlanAsType, RowTypes DEF UpdateRead, TypeOK, rows,
    links, manifests, LivePlans, LiveTasks, Edit, NoEdit
<1>14. ASSUME NEW t \in Tasks,
             DeleteTask(t), UNCHANGED <<links, manifests>>
      PROVE  TypeOK'
  BY <1>14, CountedType, PlanAsType, RowTypes, RemovedTypes DEF DeleteTask,
    TypeOK, rows, links, manifests, LivePlans, LiveTasks
<1>15. ASSUME NEW x \in Plans \cup Tasks,
             Refer(x), UNCHANGED <<links, manifests>>
      PROVE  TypeOK'
  BY <1>15, CountedType, PlanAsType, RowTypes DEF Refer, TypeOK, rows, links,
    manifests, LivePlans, LiveTasks
<1>16. ASSUME NEW x \in Plans \cup Tasks,
             Unrefer(x), UNCHANGED <<links, manifests>>
      PROVE  TypeOK'
  BY <1>16, CountedType, PlanAsType, RowTypes DEF Unrefer, TypeOK, rows,
    links, manifests, LivePlans, LiveTasks
<1>17. ASSUME NEW k \in Keys, NEW pl \in Plans, NEW h \in Projects,
             Link(k, pl, h), UNCHANGED manifests
      PROVE  TypeOK'
  BY <1>17, CountedType, PlanAsType, RowTypes, LinkedType, ReceiptType DEF
    Link, TypeOK, rows, links, manifests, LivePlans, LiveTasks, States, Homes
<1>18. ASSUME NEW r \in receipts,
             Rollback(r), UNCHANGED manifests
      PROVE  TypeOK'
  <2>1. r.prior \in Homes /\ r.plan \in Plans /\ r.key \in Keys /\ AsLinked(r)
    BY <1>18, ReceiptFields DEF Rollback
  <2>2. PlanAs("here", r.prior, plan[r.plan].slugged, plan[r.plan].edited) \in PlanRow
    BY <2>1, PlanAsType, RowTypes DEF States
  <2>3. \A t \in Tasks : Restored(t, r) \in TaskRow
    BY <1>18, <2>1, RestoredType
  <2>. QED
    BY <1>18, <2>1, <2>2, <2>3 DEF Rollback, TypeOK, rows, manifests
<1>19. ASSUME NEW o \in Ops,
             ManifestApply(o), UNCHANGED links
      PROVE  TypeOK'
  <2>1. PlanOf[o] \in Plans /\ ProjectOf[o] \in Homes
    BY ManifestAssumption DEF Homes
  <2>2. PlanAs("here", ProjectOf[o], FALSE, FALSE) \in PlanRow
    BY <2>1, PlanAsType DEF States
  <2>3. TaskAs("here", PlanOf[o], ProjectOf[o], 1, FALSE) \in TaskRow
    BY <2>1, TaskAsType DEF States
  <2>4. plan' \in [Plans -> PlanRow]
    BY <1>19, <2>2 DEF ManifestApply, TypeOK
  <2>5. task' \in [Tasks -> TaskRow]
    BY <1>19, <2>3, RowTypes DEF ManifestApply
  <2>6. /\ binding' \in [Ops -> BindingStates]
        /\ outbox' \in [Ops -> [Effects -> OutboxStates]]
    BY <1>19 DEF ManifestApply, TypeOK, BindingStates, OutboxStates
  <2>. QED
    BY <1>19, <2>4, <2>5, <2>6 DEF ManifestApply, TypeOK, links
<1>20. ASSUME NEW o \in Ops,
             Compensate(o), UNCHANGED links
      PROVE  TypeOK'
  <2>1. plan' \in [Plans -> PlanRow]
    BY <1>20, RemovedTypes DEF Compensate, TypeOK
  <2>2. task' \in [Tasks -> TaskRow]
    BY <1>20, RemovedTypes, UnplannedType DEF Compensate
  <2>3. binding' \in [Ops -> BindingStates]
    BY <1>20 DEF Compensate, TypeOK, BindingStates
  <2>4. outbox' \in [Ops -> [Effects -> OutboxStates]]
    BY <1>20, CancelledType DEF Compensate, TypeOK
  <2>5. refs' \in SUBSET (Plans \cup Tasks)
    BY <1>20 DEF Compensate, TypeOK
  <2>. QED
    BY <1>20, <2>1, <2>2, <2>3, <2>4, <2>5 DEF Compensate, TypeOK, links
<1>21. ASSUME NEW o \in Ops, NEW d \in Effects,
             MarkDelivered(o, d), UNCHANGED links
      PROVE  TypeOK'
  BY <1>21, CountedType, PlanAsType, RowTypes DEF MarkDelivered, TypeOK,
    rows, links, manifests, LivePlans, LiveTasks, OutboxStates
<1>22. ASSUME NEW t \in Tasks, NEW pl \in Plans \cup {None}, NEW h \in Homes,
             Adopt(t, pl, h), UNCHANGED <<links, manifests>>
      PROVE  TypeOK'
  <2>1. task' \in [Tasks -> TaskRow]
    BY <1>22, AdoptType
  <2>. QED
    BY <1>22, <2>1, CountedType DEF Adopt, TypeOK, rows, links, manifests
<1>. QED
  BY <1>22, <1>1, <1>2, <1>3, <1>4, <1>5, <1>6, <1>7, <1>8, <1>9, <1>10, <1>11,
    <1>12, <1>13, <1>14, <1>15, <1>16, <1>17, <1>18, <1>19, <1>20, <1>21 DEF
    Next, OrdinaryCall, OrdinaryWrite, LinkCall, ManifestCall

-----------------------------------------------------------------------------
(* What each kind of write does to the rows *)

Same(u) ==
  /\ task'[u].state = task[u].state /\ task'[u].plan = task[u].plan
  /\ task'[u].project = task[u].project /\ task'[u].version = task[u].version

KeepsPlans == \A q \in Plans : plan'[q].state = plan[q].state /\ plan'[q].project = plan[q].project

KeepsOtherPlans(pl) == \A q \in Plans \ {pl} : plan'[q] = plan[q]

KeepsOtherTasks(t) == \A u \in Tasks \ {t} : task'[u] = task[u]

PlanIn(pl, h) == plan'[pl].state = "here" /\ plan'[pl].project = h

TaskIn(t, pl, h) == task'[t].state = "here" /\ task'[t].plan = pl /\ task'[t].project = h

(* The plans of a set go, and their members lose them. *)
LosesPlans(u, gone) ==
  /\ task'[u].state = task[u].state /\ task'[u].version = task[u].version
  /\ task'[u].plan = IF task[u].plan \in gone THEN None ELSE task[u].plan
  /\ Loose(task[u]) => Loose(task'[u])

LEMMA ContentEffect ==
  ASSUME TypeOK, NEW pl \in Plans,
         (\E e \in BOOLEAN : EditPlan(pl, e)) \/ BackfillSlug(pl)
  PROVE  KeepsPlans /\ UNCHANGED task
<1>1. PICK g \in BOOLEAN, e \in BOOLEAN :
        plan' = [plan EXCEPT ![pl] = PlanAs("here", plan[pl].project, g, e)]
  BY RowTypes DEF EditPlan, BackfillSlug
<1>2. plan[pl].state = "here" /\ UNCHANGED task
  BY DEF EditPlan, BackfillSlug, LivePlans
<1>. QED
  BY <1>1, <1>2, RowTypes, PlanAsType DEF KeepsPlans, TypeOK, States

LEMMA PlacedEffect ==
  ASSUME TypeOK, NEW pl \in Plans, NEW h \in Homes, NEW g \in BOOLEAN, NEW e \in BOOLEAN,
         plan' = [plan EXCEPT ![pl] = PlanAs("here", h, g, e)]
  PROVE  PlanIn(pl, h) /\ KeepsOtherPlans(pl)
BY PlanAsType DEF PlanIn, KeepsOtherPlans, TypeOK, States

LEMMA CreatePlanRows ==
  ASSUME TypeOK, NEW pl \in Plans, NEW h \in Homes, CreatePlan(pl, h)
  PROVE  PlanIn(pl, h) /\ KeepsOtherPlans(pl) /\ UNCHANGED task
BY PlacedEffect DEF CreatePlan

LEMMA CreatePlanEffect ==
  ASSUME TypeOK, NEW pl \in Plans, NEW h \in Homes, CreatePlan(pl, h)
  PROVE  /\ PlanIn(pl, h) /\ KeepsOtherPlans(pl) /\ UNCHANGED task
         /\ plan[pl].state = "unused"
         /\ h \in projects \cup {None}
         /\ UNCHANGED <<projects, refs>>
BY CreatePlanRows DEF CreatePlan, ValidHome

LEMMA AttachPlanRows ==
  ASSUME TypeOK, NEW pl \in Plans, NEW h \in Homes, AttachPlan(pl, h)
  PROVE  PlanIn(pl, h) /\ KeepsOtherPlans(pl) /\ UNCHANGED task
BY PlacedEffect, RowTypes DEF AttachPlan

LEMMA AttachPlanEffect ==
  ASSUME TypeOK, NEW pl \in Plans, NEW h \in Homes, AttachPlan(pl, h)
  PROVE  /\ PlanIn(pl, h) /\ KeepsOtherPlans(pl) /\ UNCHANGED task
         /\ plan[pl].state = "here"
         /\ h \in projects
         /\ UNCHANGED <<projects, refs>>
BY AttachPlanRows DEF AttachPlan, LivePlans

LEMMA DeletePlanRows ==
  ASSUME TypeOK, NEW pl \in Plans, DeletePlan(pl)
  PROVE  /\ plan'[pl].state = "gone" /\ KeepsOtherPlans(pl)
         /\ \A u \in Tasks : LosesPlans(u, {pl}) /\ task'[u].project = task[u].project
<1>1. plan'[pl].state = "gone" /\ KeepsOtherPlans(pl)
  BY RemovedTypes DEF DeletePlan, TypeOK, KeepsOtherPlans
<1>2. ASSUME NEW u \in Tasks
      PROVE  LosesPlans(u, {pl}) /\ task'[u].project = task[u].project
  BY UnplannedType DEF DeletePlan, LosesPlans
<1>. QED
  BY <1>1, <1>2

LEMMA DeletePlanEffect ==
  ASSUME TypeOK, NEW pl \in Plans, DeletePlan(pl)
  PROVE  /\ plan'[pl].state = "gone" /\ KeepsOtherPlans(pl)
         /\ \A u \in Tasks : LosesPlans(u, {pl}) /\ task'[u].project = task[u].project
         /\ UNCHANGED projects
         /\ refs' = refs \ {pl}
BY DeletePlanRows DEF DeletePlan

LEMMA DeleteProjectRows ==
  ASSUME TypeOK, NEW h \in Projects, DeleteProject(h)
  PROVE  /\ \A q \in Plans : plan'[q] = IF q \in PlansIn(h) THEN PlanRemoved ELSE plan[q]
         /\ \A u \in Tasks :
              /\ LosesPlans(u, PlansIn(h))
              /\ task'[u].project = IF task[u].project = h THEN None ELSE task[u].project
<1>1. ASSUME NEW u \in Tasks
      PROVE  /\ LosesPlans(u, PlansIn(h))
             /\ task'[u].project = IF task[u].project = h THEN None ELSE task[u].project
  <2>. DEFINE row == Unplanned(u, PlansIn(h))
  <2>1. /\ row \in TaskRow /\ row.state = task[u].state /\ row.version = task[u].version
        /\ row.project = task[u].project
        /\ row.plan = IF task[u].plan \in PlansIn(h) THEN None ELSE task[u].plan
        /\ Loose(task[u]) => Loose(row)
    BY UnplannedType
  <2>2. task'[u] = Homeless(row, h)
    BY DEF DeleteProject
  <2>. HIDE DEF row
  <2>. QED
    BY <2>1, <2>2, HomelessType DEF LosesPlans, Loose
<1>. QED
  BY <1>1 DEF DeleteProject

LEMMA DeleteProjectEffect ==
  ASSUME TypeOK, NEW h \in Projects, DeleteProject(h)
  PROVE  /\ \A q \in Plans : plan'[q] = IF q \in PlansIn(h) THEN PlanRemoved ELSE plan[q]
         /\ \A u \in Tasks :
              /\ LosesPlans(u, PlansIn(h))
              /\ task'[u].project = IF task[u].project = h THEN None ELSE task[u].project
         /\ projects' = projects \ {h}
         /\ refs' = refs \ PlansIn(h)
BY DeleteProjectRows DEF DeleteProject

LEMMA CreateTaskRows ==
  ASSUME TypeOK, NEW t \in Tasks, NEW pl \in Plans \cup {None}, NEW h \in Homes,
         CreateTask(t, pl, h)
  PROVE  TaskIn(t, pl, h) /\ KeepsOtherTasks(t) /\ UNCHANGED plan
BY DEF CreateTask, TaskAs, TaskIn, KeepsOtherTasks, TypeOK

LEMMA CreateTaskEffect ==
  ASSUME TypeOK, NEW t \in Tasks, NEW pl \in Plans \cup {None}, NEW h \in Homes,
         CreateTask(t, pl, h)
  PROVE  /\ TaskIn(t, pl, h) /\ KeepsOtherTasks(t) /\ UNCHANGED plan
         /\ task[t].state = "unused"
         /\ t \in OrdinaryTasks
         /\ h \in projects \cup {None}
         /\ pl # None => plan[pl].state = "here"
         /\ Conforms(pl, h)
         /\ UNCHANGED <<projects, refs>>
BY CreateTaskRows DEF CreateTask, ValidHome, ValidPlan, LivePlans

LEMMA WrittenEffect ==
  ASSUME TypeOK, NEW t \in Tasks, NEW pl \in Plans \cup {None}, NEW h \in Homes,
         NEW e \in BOOLEAN, Written(t, pl, h, e)
  PROVE  /\ TaskIn(t, pl, h) /\ KeepsOtherTasks(t)
         /\ task'[t].version = task[t].version + 1
BY WrittenType DEF TaskIn, KeepsOtherTasks

LEMMA UpdateTaskEffect ==
  ASSUME TypeOK, NEW t \in Tasks, NEW pl \in Plans \cup {None}, NEW h \in Homes,
         NEW e \in BOOLEAN, UpdateTask(t, pl, h, e)
  PROVE  /\ TaskIn(t, pl, h) /\ KeepsOtherTasks(t)
         /\ task'[t].version = task[t].version + 1
         /\ task[t].state = "here"
         /\ h \in projects \cup {None}
         /\ pl # None => plan[pl].state = "here"
         /\ Conforms(pl, h)
         /\ UNCHANGED <<projects, plan, refs>>
BY WrittenEffect DEF UpdateTask, LiveTasks, ValidHome, ValidPlan, LivePlans

LEMMA MoveTaskEffect ==
  ASSUME TypeOK, NEW t \in Tasks, NEW pl \in Plans \cup {None}, NEW h \in Homes,
         MoveTask(t, pl, h)
  PROVE  /\ TaskIn(t, pl, h) /\ KeepsOtherTasks(t)
         /\ task'[t].version = task[t].version + 1
         /\ task[t].state = "here"
         /\ h \in projects \cup {None}
         /\ pl # None => plan[pl].state = "here"
         /\ UNCHANGED <<projects, plan, refs>>
BY WrittenEffect, RowTypes DEF MoveTask, LiveTasks, ValidHome, ValidPlan, LivePlans

LEMMA UpdateWriteEffect ==
  ASSUME TypeOK, NEW p \in Procs, UpdateWrite(p)
  PROVE  LET t == edit[p].task IN
         /\ t \in Tasks /\ edit[p] # NoEdit
         /\ TaskIn(t, PlanAfter(p), HomeAfter(p)) /\ KeepsOtherTasks(t)
         /\ task'[t].version = task[t].version + 1
         /\ task[t].state = "here" /\ task[t].version = edit[p].version
         /\ HomeAfter(p) \in projects \cup {None}
         /\ PlanAfter(p) \in {task[t].plan, None}
         /\ edit' = [edit EXCEPT ![p] = NoEdit]
         /\ UNCHANGED <<projects, plan, refs>>
<1>. DEFINE t == edit[p].task
<1>1. t \in Tasks /\ task[t].state = "here" /\ edit[p] # NoEdit
  BY DEF UpdateWrite, LiveTasks
<1>2. TaskIn(t, PlanAfter(p), HomeAfter(p)) /\ KeepsOtherTasks(t)
      /\ task'[t].version = task[t].version + 1
  BY <1>1, WrittenEffect, AfterType, EditFields DEF UpdateWrite
<1>. QED
  BY <1>1, <1>2, AfterType DEF UpdateWrite, Unmoved, ValidHome

LEMMA AdoptEffect ==
  ASSUME TypeOK, NEW t \in Tasks, NEW pl \in Plans \cup {None}, NEW h \in Homes,
         Adopt(t, pl, h)
  PROVE  /\ task'[t].state = "here" /\ task'[t].plan = pl
         /\ task'[t].project \in {task[t].project, h}
         /\ task'[t].version = task[t].version
         /\ Loose(task[t]) => Loose(task'[t])
         /\ KeepsOtherTasks(t)
         /\ task[t].state = "here" /\ t \in OrdinaryTasks
         /\ h \in projects \cup {None}
         /\ pl \in Plans /\ plan[pl].state = "here"
         /\ UNCHANGED <<projects, plan, refs>>
<1>1. /\ task[t].state = "here" /\ t \in OrdinaryTasks
      /\ h \in projects \cup {None}
      /\ pl \in Plans /\ plan[pl].state = "here"
      /\ UNCHANGED <<projects, plan, refs>>
  BY DEF Adopt, LiveTasks, LivePlans, ValidHome
<1>2. /\ task'[t].state = task[t].state /\ task'[t].plan = pl
      /\ task'[t].project \in {task[t].project, h}
      /\ task'[t].version = task[t].version
      /\ Loose(task[t]) => Loose(task'[t])
  BY AdoptType
<1>3. KeepsOtherTasks(t)
  BY AdoptType DEF KeepsOtherTasks
<1>. QED
  BY <1>1, <1>2, <1>3

LEMMA DeleteTaskRows ==
  ASSUME TypeOK, NEW t \in Tasks, DeleteTask(t)
  PROVE  /\ task'[t].state = "gone" /\ task'[t].plan = None
         /\ KeepsOtherTasks(t) /\ UNCHANGED plan
BY RemovedTypes DEF DeleteTask, KeepsOtherTasks, TypeOK

LEMMA DeleteTaskEffect ==
  ASSUME TypeOK, NEW t \in Tasks, DeleteTask(t)
  PROVE  /\ task'[t].state = "gone" /\ task'[t].plan = None
         /\ KeepsOtherTasks(t) /\ UNCHANGED plan
         /\ UNCHANGED projects
         /\ refs' = refs \ {t}
         /\ task[t].state = "here"
BY DeleteTaskRows DEF DeleteTask, LiveTasks

LEMMA LinkRows ==
  ASSUME TypeOK, NEW k \in Keys, NEW pl \in Plans, NEW h \in Projects, Link(k, pl, h)
  PROVE  /\ PlanIn(pl, h) /\ KeepsOtherPlans(pl)
         /\ \A u \in Tasks :
              /\ task'[u].state = task[u].state /\ task'[u].plan = task[u].plan
              /\ task'[u].version >= task[u].version
              /\ task'[u].version > task[u].version \/ (Loose(task[u]) => Loose(task'[u]))
              /\ task'[u].project = IF u \in Members(pl) THEN h ELSE task[u].project
<1>1. h \in Homes
  BY DEF Homes
<1>2. PlanIn(pl, h) /\ KeepsOtherPlans(pl)
  BY <1>1, PlacedEffect, RowTypes DEF Link
<1>3. \A u \in Tasks : task'[u] = Linked(u, pl, h)
  BY DEF Link
<1>4. ASSUME NEW u \in Tasks
      PROVE  task'[u].version > task[u].version \/ (Loose(task[u]) => Loose(task'[u]))
  <2>1. /\ task[u].version \in Nat /\ task'[u].version \in Nat
        /\ task'[u].version >= task[u].version
        /\ task'[u].version = task[u].version => task'[u] = task[u]
    BY <1>1, <1>3, LinkedType, RowTypes DEF TaskRow
  <2>2. CASE task'[u] = task[u]
    BY <2>2
  <2>3. CASE task'[u].version > task[u].version
    BY <2>3
  <2>. QED
    BY <2>1, <2>2, <2>3
<1>. QED
  BY <1>1, <1>2, <1>3, <1>4, LinkedType

LEMMA LinkEffect ==
  ASSUME TypeOK, NEW k \in Keys, NEW pl \in Plans, NEW h \in Projects, Link(k, pl, h)
  PROVE  /\ PlanIn(pl, h) /\ KeepsOtherPlans(pl)
         /\ \A u \in Tasks :
              /\ task'[u].state = task[u].state /\ task'[u].plan = task[u].plan
              /\ task'[u].version >= task[u].version
              /\ task'[u].version > task[u].version \/ (Loose(task[u]) => Loose(task'[u]))
              /\ task'[u].project = IF u \in Members(pl) THEN h ELSE task[u].project
         /\ h \in projects
         /\ UNCHANGED <<projects, refs>>
         /\ plan[pl].state = "here"
BY LinkRows DEF Link, LivePlans

LEMMA RollbackRows ==
  ASSUME TypeOK, NEW r \in receipts, Rollback(r)
  PROVE  /\ PlanIn(r.plan, r.prior) /\ KeepsOtherPlans(r.plan)
         /\ \A u \in Tasks :
              /\ task'[u].state = task[u].state /\ task'[u].plan = task[u].plan
              /\ task'[u].version >= task[u].version
              /\ task'[u].version > task[u].version \/ (Loose(task[u]) => Loose(task'[u]))
              /\ task'[u].project = IF u \in r.members THEN r.priors[u] ELSE task[u].project
<1>1. PlanIn(r.plan, r.prior) /\ KeepsOtherPlans(r.plan)
  BY PlacedEffect, RowTypes, ReceiptFields DEF Rollback
<1>2. \A u \in Tasks : task'[u] = Restored(u, r)
  BY DEF Rollback
<1>3. AsLinked(r) /\ \A u \in Tasks : task[u].version \in Nat
  BY RowTypes DEF Rollback
<1>4. ASSUME NEW u \in Tasks
      PROVE  task'[u].version > task[u].version \/ (Loose(task[u]) => Loose(task'[u]))
  BY <1>2, <1>3, RestoredType DEF Restored
<1>. QED
  BY <1>1, <1>2, <1>3, <1>4, RestoredType

LEMMA RollbackEffect ==
  ASSUME TypeOK, NEW r \in receipts, Rollback(r)
  PROVE  /\ PlanIn(r.plan, r.prior) /\ KeepsOtherPlans(r.plan)
         /\ \A u \in Tasks :
              /\ task'[u].state = task[u].state /\ task'[u].plan = task[u].plan
              /\ task'[u].version >= task[u].version
              /\ task'[u].version > task[u].version \/ (Loose(task[u]) => Loose(task'[u]))
              /\ task'[u].project = IF u \in r.members THEN r.priors[u] ELSE task[u].project
         /\ r.prior \in projects \cup {None}
         /\ \A u \in r.members : r.priors[u] \in projects \cup {None}
         /\ Members(r.plan) = r.members
         /\ UNCHANGED <<projects, refs>>
         /\ plan[r.plan].state = "here"
BY RollbackRows DEF Rollback, PriorsAreThere, ValidHome, AsLinked, LivePlans

LEMMA ManifestApplyRows ==
  ASSUME TypeOK, NEW o \in Ops, ManifestApply(o)
  PROVE  /\ PlanIn(PlanOf[o], ProjectOf[o]) /\ KeepsOtherPlans(PlanOf[o])
         /\ \A u \in Tasks :
              IF u \in TasksOf[o] THEN TaskIn(u, PlanOf[o], ProjectOf[o])
                                  ELSE task'[u] = task[u]
<1>1. PlanOf[o] \in Plans /\ ProjectOf[o] \in Homes
  BY ManifestAssumption DEF Homes
<1>2. PlanIn(PlanOf[o], ProjectOf[o]) /\ KeepsOtherPlans(PlanOf[o])
  BY <1>1, PlacedEffect DEF ManifestApply
<1>. DEFINE row == TaskAs("here", PlanOf[o], ProjectOf[o], 1, FALSE)
<1>3. row.state = "here" /\ row.plan = PlanOf[o] /\ row.project = ProjectOf[o]
  BY DEF TaskAs
<1>4. \A u \in Tasks : task'[u] = IF u \in TasksOf[o] THEN row ELSE task[u]
  BY DEF ManifestApply
<1>. HIDE DEF row
<1>. QED
  BY <1>2, <1>3, <1>4 DEF TaskIn

LEMMA ManifestApplyEffect ==
  ASSUME TypeOK, NEW o \in Ops, ManifestApply(o)
  PROVE  /\ PlanIn(PlanOf[o], ProjectOf[o]) /\ KeepsOtherPlans(PlanOf[o])
         /\ \A u \in Tasks :
              IF u \in TasksOf[o] THEN TaskIn(u, PlanOf[o], ProjectOf[o])
                                  ELSE task'[u] = task[u]
         /\ ProjectOf[o] \in projects
         /\ binding[o] = "none"
         /\ plan[PlanOf[o]].state # "here"
         /\ \A u \in TasksOf[o] : task[u].state # "here"
         /\ UNCHANGED <<projects, refs>>
         /\ binding' = [binding EXCEPT ![o] = "applied"]
BY ManifestApplyRows, ManifestAssumption
   DEF ManifestApply, IdsAreFree, LivePlans, LiveTasks

LEMMA CompensateRows ==
  ASSUME TypeOK, NEW o \in Ops, Compensate(o)
  PROVE  /\ plan'[PlanOf[o]].state = "gone" /\ KeepsOtherPlans(PlanOf[o])
         /\ \A u \in Tasks :
              IF u \in TasksOf[o]
                THEN task'[u].state = "gone" /\ task'[u].plan = None
                ELSE LosesPlans(u, {PlanOf[o]}) /\ task'[u].project = task[u].project
<1>1. PlanOf[o] \in Plans
  BY ManifestAssumption
<1>2. plan'[PlanOf[o]].state = "gone" /\ KeepsOtherPlans(PlanOf[o])
  BY <1>1, RemovedTypes DEF Compensate, TypeOK, KeepsOtherPlans
<1>3. \A u \in Tasks : task'[u] = IF u \in TasksOf[o] THEN TaskRemoved
                                                      ELSE Unplanned(u, {PlanOf[o]})
  BY DEF Compensate
<1>. QED
  BY <1>2, <1>3, RemovedTypes, UnplannedType DEF LosesPlans

LEMMA CompensateEffect ==
  ASSUME TypeOK, NEW o \in Ops, Compensate(o)
  PROVE  /\ plan'[PlanOf[o]].state = "gone" /\ KeepsOtherPlans(PlanOf[o])
         /\ \A u \in Tasks :
              IF u \in TasksOf[o]
                THEN task'[u].state = "gone" /\ task'[u].plan = None
                ELSE LosesPlans(u, {PlanOf[o]}) /\ task'[u].project = task[u].project
         /\ UNCHANGED projects
         /\ refs' = refs \ (TasksOf[o] \cup {PlanOf[o]})
         /\ binding[o] = "applied"
         /\ binding' = [binding EXCEPT ![o] = "compensated"]
BY CompensateRows DEF Compensate, Compensable


-----------------------------------------------------------------------------
(* Nothing dangles *)

PlanThere(q) == plan[q].state = "here" => plan[q].project \in projects \cup {None}

TaskThere(u) ==
  task[u].state = "here" =>
    /\ task[u].project \in projects \cup {None}
    /\ task[u].plan # None =>
         task[u].plan \in Plans /\ plan[task[u].plan].state = "here"

Referred(x) ==
  \/ x \in Plans /\ plan[x].state = "here"
  \/ x \in Tasks /\ task[x].state = "here"

LEMMA There ==
  ASSUME TypeOK, NothingDangles
  PROVE  /\ \A q \in Plans : PlanThere(q)
         /\ \A u \in Tasks : TaskThere(u)
         /\ \A x \in refs : Referred(x)
BY DEF NothingDangles, LivePlans, LiveTasks, ValidPlan, ValidHome, PlanThere, TaskThere, Referred

LEMMA ThereNext ==
  ASSUME \A q \in Plans : PlanThere(q)',
         \A u \in Tasks : TaskThere(u)',
         \A x \in refs' : Referred(x)'
  PROVE  NothingDangles'
BY RowsAssumption
   DEF NothingDangles, LivePlans, LiveTasks, ValidPlan, ValidHome, PlanThere, TaskThere, Referred

LEMMA DanglesStep ==
  ASSUME TypeOK, NothingDangles, [Next]_vars
  PROVE  NothingDangles'
<1>1. CASE UNCHANGED vars
  BY <1>1 DEF vars, rows, NothingDangles, LivePlans, LiveTasks, ValidPlan, ValidHome
<1>2. ASSUME NEW pl \in Plans,
            DeletePlan(pl), UNCHANGED <<links, manifests>>
     PROVE  NothingDangles'
  <2>1. \A q \in Plans : PlanThere(q)'
    BY <1>2, There, RowTypes, DeletePlanEffect DEF PlanThere, TaskThere,
      Referred, KeepsOtherPlans, LosesPlans
  <2>2. \A u \in Tasks : TaskThere(u)'
    BY <1>2, There, RowTypes, DeletePlanEffect DEF PlanThere, TaskThere,
      Referred, KeepsOtherPlans, LosesPlans
  <2>3. \A x \in refs' : Referred(x)'
    BY <1>2, There, RowTypes, DeletePlanEffect DEF PlanThere, TaskThere,
      Referred, KeepsOtherPlans, LosesPlans
  <2>. QED
    BY <2>1, <2>2, <2>3, ThereNext
<1>3. ASSUME NEW pl \in Plans,
            BackfillSlug(pl), UNCHANGED <<links, manifests>>
     PROVE  NothingDangles'
  BY <1>3, RowTypes, ContentEffect DEF BackfillSlug, KeepsPlans,
    NothingDangles, LivePlans, LiveTasks, ValidPlan, ValidHome
<1>4. ASSUME NEW pl \in Plans, NEW e \in BOOLEAN,
            EditPlan(pl, e), UNCHANGED <<links, manifests>>
     PROVE  NothingDangles'
  BY <1>4, RowTypes, ContentEffect DEF EditPlan, KeepsPlans, NothingDangles,
    LivePlans, LiveTasks, ValidPlan, ValidHome
<1>5. ASSUME NEW pl \in Plans, NEW h \in Homes,
            CreatePlan(pl, h), UNCHANGED <<links, manifests>>
     PROVE  NothingDangles'
  <2>1. \A q \in Plans : PlanThere(q)'
    BY <1>5, There, RowTypes, CreatePlanEffect DEF PlanThere, TaskThere,
      Referred, PlanIn, KeepsOtherPlans
  <2>2. \A u \in Tasks : TaskThere(u)'
    BY <1>5, There, RowTypes, CreatePlanEffect DEF PlanThere, TaskThere,
      Referred, PlanIn, KeepsOtherPlans
  <2>3. \A x \in refs' : Referred(x)'
    BY <1>5, There, RowTypes, CreatePlanEffect DEF PlanThere, TaskThere,
      Referred, PlanIn, KeepsOtherPlans
  <2>. QED
    BY <2>1, <2>2, <2>3, ThereNext
<1>6. ASSUME NEW pl \in Plans, NEW h \in Homes,
            AttachPlan(pl, h), UNCHANGED <<links, manifests>>
     PROVE  NothingDangles'
  <2>1. \A q \in Plans : PlanThere(q)'
    BY <1>6, There, RowTypes, AttachPlanEffect DEF PlanThere, TaskThere,
      Referred, PlanIn, KeepsOtherPlans
  <2>2. \A u \in Tasks : TaskThere(u)'
    BY <1>6, There, RowTypes, AttachPlanEffect DEF PlanThere, TaskThere,
      Referred, PlanIn, KeepsOtherPlans
  <2>3. \A x \in refs' : Referred(x)'
    BY <1>6, There, RowTypes, AttachPlanEffect DEF PlanThere, TaskThere,
      Referred, PlanIn, KeepsOtherPlans
  <2>. QED
    BY <2>1, <2>2, <2>3, ThereNext
<1>7. ASSUME NEW h \in Projects,
            DeleteProject(h), UNCHANGED <<links, manifests>>
     PROVE  NothingDangles'
  <2>1. \A q \in Plans : PlanThere(q)'
    BY <1>7, There, RowTypes, DeleteProjectEffect, RemovedTypes DEF PlanThere,
      TaskThere, Referred, PlansIn, LivePlans, LosesPlans
  <2>2. \A u \in Tasks : TaskThere(u)'
    BY <1>7, There, RowTypes, DeleteProjectEffect, RemovedTypes DEF PlanThere,
      TaskThere, Referred, PlansIn, LivePlans, LosesPlans
  <2>3. \A x \in refs' : Referred(x)'
    BY <1>7, There, RowTypes, DeleteProjectEffect, RemovedTypes DEF PlanThere,
      TaskThere, Referred, PlansIn, LivePlans, LosesPlans
  <2>. QED
    BY <2>1, <2>2, <2>3, ThereNext
<1>8. ASSUME NEW t \in Tasks, NEW pl \in Plans \cup {None}, NEW h \in Homes,
            CreateTask(t, pl, h), UNCHANGED <<links, manifests>>
     PROVE  NothingDangles'
  <2>1. \A q \in Plans : PlanThere(q)'
    BY <1>8, There, RowTypes, CreateTaskEffect DEF PlanThere
  <2>2. \A u \in Tasks : TaskThere(u)'
    BY <1>8, There, CreateTaskEffect DEF TaskThere, TaskIn, KeepsOtherTasks
  <2>3. \A x \in refs' : Referred(x)'
    BY <1>8, There, RowTypes, CreateTaskEffect DEF PlanThere, TaskThere,
      Referred, TaskIn, KeepsOtherTasks
  <2>. QED
    BY <2>1, <2>2, <2>3, ThereNext
<1>9. ASSUME NEW t \in Tasks, NEW pl \in Plans \cup {None}, NEW h \in Homes,
            MoveTask(t, pl, h), UNCHANGED <<links, manifests>>
     PROVE  NothingDangles'
  <2>1. \A q \in Plans : PlanThere(q)'
    BY <1>9, There, RowTypes, MoveTaskEffect DEF PlanThere
  <2>2. \A u \in Tasks : TaskThere(u)'
    BY <1>9, There, MoveTaskEffect DEF TaskThere, TaskIn, KeepsOtherTasks
  <2>3. \A x \in refs' : Referred(x)'
    BY <1>9, There, RowTypes, MoveTaskEffect DEF PlanThere, TaskThere,
      Referred, TaskIn, KeepsOtherTasks
  <2>. QED
    BY <2>1, <2>2, <2>3, ThereNext
<1>10. ASSUME NEW t \in Tasks, NEW pl \in Plans \cup {None}, NEW h \in Homes,
               NEW e \in BOOLEAN,
             UpdateTask(t, pl, h, e), UNCHANGED <<links, manifests>>
      PROVE  NothingDangles'
  <2>1. \A q \in Plans : PlanThere(q)'
    BY <1>10, There, RowTypes, UpdateTaskEffect DEF PlanThere
  <2>2. \A u \in Tasks : TaskThere(u)'
    BY <1>10, There, UpdateTaskEffect DEF TaskThere, TaskIn, KeepsOtherTasks
  <2>3. \A x \in refs' : Referred(x)'
    BY <1>10, There, RowTypes, UpdateTaskEffect DEF PlanThere, TaskThere,
      Referred, TaskIn, KeepsOtherTasks
  <2>. QED
    BY <2>1, <2>2, <2>3, ThereNext
<1>11. ASSUME NEW p \in Procs,
             UpdateWrite(p), UNCHANGED <<links, manifests>>
      PROVE  NothingDangles'
  <2>1. \A q \in Plans : PlanThere(q)'
    BY <1>11, There, RowTypes, UpdateWriteEffect, EditFields DEF PlanThere,
      TaskThere, Referred, TaskIn, KeepsOtherTasks
  <2>2. \A u \in Tasks : TaskThere(u)'
    BY <1>11, There, RowTypes, UpdateWriteEffect, EditFields DEF PlanThere,
      TaskThere, Referred, TaskIn, KeepsOtherTasks
  <2>3. \A x \in refs' : Referred(x)'
    BY <1>11, There, RowTypes, UpdateWriteEffect, EditFields DEF PlanThere,
      TaskThere, Referred, TaskIn, KeepsOtherTasks
  <2>. QED
    BY <2>1, <2>2, <2>3, ThereNext
<1>12. ASSUME NEW p \in Procs,
             UpdateEnds(p), UNCHANGED <<links, manifests>>
      PROVE  NothingDangles'
  BY <1>12, RowTypes DEF UpdateEnds, NothingDangles, LivePlans, LiveTasks,
    ValidPlan, ValidHome
<1>13. ASSUME NEW p \in Procs, NEW t \in Tasks, NEW h \in Homes, NEW e \in
               BOOLEAN, NEW keeps \in SUBSET {"plan", "project"},
             UpdateRead(p, t, h, e, keeps), UNCHANGED <<links, manifests>>
      PROVE  NothingDangles'
  BY <1>13, RowTypes DEF UpdateRead, NothingDangles, LivePlans, LiveTasks,
    ValidPlan, ValidHome
<1>14. ASSUME NEW t \in Tasks,
             DeleteTask(t), UNCHANGED <<links, manifests>>
      PROVE  NothingDangles'
  <2>1. \A q \in Plans : PlanThere(q)'
    BY <1>14, There, RowTypes, DeleteTaskEffect DEF PlanThere, TaskThere,
      Referred, KeepsOtherTasks
  <2>2. \A u \in Tasks : TaskThere(u)'
    BY <1>14, There, RowTypes, DeleteTaskEffect DEF PlanThere, TaskThere,
      Referred, KeepsOtherTasks
  <2>3. \A x \in refs' : Referred(x)'
    BY <1>14, There, RowTypes, DeleteTaskEffect DEF PlanThere, TaskThere,
      Referred, KeepsOtherTasks
  <2>. QED
    BY <2>1, <2>2, <2>3, ThereNext
<1>15. ASSUME NEW x \in Plans \cup Tasks,
             Refer(x), UNCHANGED <<links, manifests>>
      PROVE  NothingDangles'
  BY <1>15, RowTypes DEF Refer, NothingDangles, LivePlans, LiveTasks,
    ValidPlan, ValidHome
<1>16. ASSUME NEW x \in Plans \cup Tasks,
             Unrefer(x), UNCHANGED <<links, manifests>>
      PROVE  NothingDangles'
  BY <1>16, RowTypes DEF Unrefer, NothingDangles, LivePlans, LiveTasks,
    ValidPlan, ValidHome
<1>17. ASSUME NEW k \in Keys, NEW pl \in Plans, NEW h \in Projects,
             Link(k, pl, h), UNCHANGED manifests
      PROVE  NothingDangles'
  <2>1. \A q \in Plans : PlanThere(q)'
    BY <1>17, There, RowTypes, LinkEffect DEF PlanThere, TaskThere, Referred,
      PlanIn, KeepsOtherPlans, Members, LiveTasks
  <2>2. \A u \in Tasks : TaskThere(u)'
    BY <1>17, There, RowTypes, LinkEffect DEF PlanThere, TaskThere, Referred,
      PlanIn, KeepsOtherPlans, Members, LiveTasks
  <2>3. \A x \in refs' : Referred(x)'
    BY <1>17, There, RowTypes, LinkEffect DEF PlanThere, TaskThere, Referred,
      PlanIn, KeepsOtherPlans, Members, LiveTasks
  <2>. QED
    BY <2>1, <2>2, <2>3, ThereNext
<1>18. ASSUME NEW r \in receipts,
             Rollback(r), UNCHANGED manifests
      PROVE  NothingDangles'
  <2>1. \A q \in Plans : PlanThere(q)'
    BY <1>18, There, RowTypes, RollbackEffect, ReceiptFields DEF PlanThere,
      TaskThere, Referred, PlanIn, KeepsOtherPlans, Members, LiveTasks
  <2>2. \A u \in Tasks : TaskThere(u)'
    BY <1>18, There, RowTypes, RollbackEffect, ReceiptFields DEF PlanThere,
      TaskThere, Referred, PlanIn, KeepsOtherPlans, Members, LiveTasks
  <2>3. \A x \in refs' : Referred(x)'
    BY <1>18, There, RowTypes, RollbackEffect, ReceiptFields DEF PlanThere,
      TaskThere, Referred, PlanIn, KeepsOtherPlans, Members, LiveTasks
  <2>. QED
    BY <2>1, <2>2, <2>3, ThereNext
<1>19. ASSUME NEW o \in Ops,
             ManifestApply(o), UNCHANGED links
      PROVE  NothingDangles'
  <2>1. \A q \in Plans : PlanThere(q)'
    BY <1>19, There, RowTypes, ManifestApplyEffect, ManifestAssumption DEF
      PlanThere, TaskThere, Referred, PlanIn, KeepsOtherPlans, TaskIn
  <2>2. \A u \in Tasks : TaskThere(u)'
    BY <1>19, There, RowTypes, ManifestApplyEffect, ManifestAssumption DEF
      PlanThere, TaskThere, Referred, PlanIn, KeepsOtherPlans, TaskIn
  <2>3. \A x \in refs' : Referred(x)'
    BY <1>19, There, RowTypes, ManifestApplyEffect, ManifestAssumption DEF
      PlanThere, TaskThere, Referred, PlanIn, KeepsOtherPlans, TaskIn
  <2>. QED
    BY <2>1, <2>2, <2>3, ThereNext
<1>20. ASSUME NEW o \in Ops,
             Compensate(o), UNCHANGED links
      PROVE  NothingDangles'
  <2>1. \A q \in Plans : PlanThere(q)'
    BY <1>20, There, RowTypes, CompensateEffect, ManifestAssumption DEF
      PlanThere, TaskThere, Referred, KeepsOtherPlans, LosesPlans
  <2>2. \A u \in Tasks : TaskThere(u)'
    BY <1>20, There, RowTypes, CompensateEffect, ManifestAssumption DEF
      PlanThere, TaskThere, Referred, KeepsOtherPlans, LosesPlans
  <2>3. \A x \in refs' : Referred(x)'
    BY <1>20, There, RowTypes, CompensateEffect, ManifestAssumption DEF
      PlanThere, TaskThere, Referred, KeepsOtherPlans, LosesPlans
  <2>. QED
    BY <2>1, <2>2, <2>3, ThereNext
<1>21. ASSUME NEW o \in Ops, NEW d \in Effects,
             MarkDelivered(o, d), UNCHANGED links
      PROVE  NothingDangles'
  BY <1>21, RowTypes DEF MarkDelivered, rows, NothingDangles, LivePlans,
    LiveTasks, ValidPlan, ValidHome
<1>22. ASSUME NEW t \in Tasks, NEW pl \in Plans \cup {None}, NEW h \in Homes,
             Adopt(t, pl, h), UNCHANGED <<links, manifests>>
      PROVE  NothingDangles'
  <2>1. \A q \in Plans : PlanThere(q)'
    BY <1>22, There, AdoptEffect DEF PlanThere
  <2>2. \A u \in Tasks : TaskThere(u)'
    BY <1>22, There, AdoptEffect DEF TaskThere, KeepsOtherTasks
  <2>3. \A x \in refs' : Referred(x)'
    BY <1>22, There, AdoptEffect DEF Referred, KeepsOtherTasks
  <2>. QED
    BY <2>1, <2>2, <2>3, ThereNext
<1>. QED
  BY <1>22, <1>1, <1>2, <1>3, <1>4, <1>5, <1>6, <1>7, <1>8, <1>9, <1>10, <1>11,
    <1>12, <1>13, <1>14, <1>15, <1>16, <1>17, <1>18, <1>19, <1>20, <1>21 DEF
    Next, OrdinaryCall, OrdinaryWrite, LinkCall, ManifestCall

-----------------------------------------------------------------------------
(* Rows that are not there *)

LEMMA AbsentStep ==
  ASSUME TypeOK, AbsentIsBlank, [Next]_vars
  PROVE  AbsentIsBlank'
<1>1. CASE UNCHANGED vars
  BY <1>1 DEF vars, rows, AbsentIsBlank
<1>2. ASSUME NEW pl \in Plans,
            DeletePlan(pl), UNCHANGED <<links, manifests>>
     PROVE  AbsentIsBlank'
  BY <1>2, RowTypes, DeletePlanEffect DEF AbsentIsBlank, KeepsOtherPlans,
    LosesPlans
<1>3. ASSUME NEW pl \in Plans,
            BackfillSlug(pl), UNCHANGED <<links, manifests>>
     PROVE  AbsentIsBlank'
  BY <1>3, RowTypes, ContentEffect DEF AbsentIsBlank, KeepsPlans
<1>4. ASSUME NEW pl \in Plans, NEW e \in BOOLEAN,
            EditPlan(pl, e), UNCHANGED <<links, manifests>>
     PROVE  AbsentIsBlank'
  BY <1>4, RowTypes, ContentEffect DEF AbsentIsBlank, KeepsPlans
<1>5. ASSUME NEW pl \in Plans, NEW h \in Homes,
            CreatePlan(pl, h), UNCHANGED <<links, manifests>>
     PROVE  AbsentIsBlank'
  BY <1>5, RowTypes, CreatePlanEffect DEF AbsentIsBlank, PlanIn,
    KeepsOtherPlans
<1>6. ASSUME NEW pl \in Plans, NEW h \in Homes,
            AttachPlan(pl, h), UNCHANGED <<links, manifests>>
     PROVE  AbsentIsBlank'
  BY <1>6, RowTypes, AttachPlanEffect DEF AbsentIsBlank, PlanIn,
    KeepsOtherPlans
<1>7. ASSUME NEW h \in Projects,
            DeleteProject(h), UNCHANGED <<links, manifests>>
     PROVE  AbsentIsBlank'
  BY <1>7, RowTypes, DeleteProjectEffect, RemovedTypes DEF AbsentIsBlank,
    PlansIn, LivePlans, LosesPlans
<1>8. ASSUME NEW t \in Tasks, NEW pl \in Plans \cup {None}, NEW h \in Homes,
            CreateTask(t, pl, h), UNCHANGED <<links, manifests>>
     PROVE  AbsentIsBlank'
  BY <1>8, RowTypes, CreateTaskEffect DEF AbsentIsBlank, TaskIn,
    KeepsOtherTasks
<1>9. ASSUME NEW t \in Tasks, NEW pl \in Plans \cup {None}, NEW h \in Homes,
            MoveTask(t, pl, h), UNCHANGED <<links, manifests>>
     PROVE  AbsentIsBlank'
  BY <1>9, RowTypes, MoveTaskEffect DEF AbsentIsBlank, TaskIn,
    KeepsOtherTasks
<1>10. ASSUME NEW t \in Tasks, NEW pl \in Plans \cup {None}, NEW h \in Homes,
               NEW e \in BOOLEAN,
             UpdateTask(t, pl, h, e), UNCHANGED <<links, manifests>>
      PROVE  AbsentIsBlank'
  BY <1>10, RowTypes, UpdateTaskEffect DEF AbsentIsBlank, TaskIn,
    KeepsOtherTasks
<1>11. ASSUME NEW p \in Procs,
             UpdateWrite(p), UNCHANGED <<links, manifests>>
      PROVE  AbsentIsBlank'
  BY <1>11, RowTypes, UpdateWriteEffect, EditFields DEF AbsentIsBlank,
    TaskIn, KeepsOtherTasks
<1>12. ASSUME NEW p \in Procs,
             UpdateEnds(p), UNCHANGED <<links, manifests>>
      PROVE  AbsentIsBlank'
  BY <1>12 DEF UpdateEnds, AbsentIsBlank
<1>13. ASSUME NEW p \in Procs, NEW t \in Tasks, NEW h \in Homes, NEW e \in
               BOOLEAN, NEW keeps \in SUBSET {"plan", "project"},
             UpdateRead(p, t, h, e, keeps), UNCHANGED <<links, manifests>>
      PROVE  AbsentIsBlank'
  BY <1>13 DEF UpdateRead, AbsentIsBlank
<1>14. ASSUME NEW t \in Tasks,
             DeleteTask(t), UNCHANGED <<links, manifests>>
      PROVE  AbsentIsBlank'
  BY <1>14, RowTypes, DeleteTaskEffect DEF AbsentIsBlank, KeepsOtherTasks
<1>15. ASSUME NEW x \in Plans \cup Tasks,
             Refer(x), UNCHANGED <<links, manifests>>
      PROVE  AbsentIsBlank'
  BY <1>15 DEF Refer, AbsentIsBlank
<1>16. ASSUME NEW x \in Plans \cup Tasks,
             Unrefer(x), UNCHANGED <<links, manifests>>
      PROVE  AbsentIsBlank'
  BY <1>16 DEF Unrefer, AbsentIsBlank
<1>17. ASSUME NEW k \in Keys, NEW pl \in Plans, NEW h \in Projects,
             Link(k, pl, h), UNCHANGED manifests
      PROVE  AbsentIsBlank'
  BY <1>17, RowTypes, LinkEffect DEF AbsentIsBlank, PlanIn, KeepsOtherPlans,
    Members, LiveTasks
<1>18. ASSUME NEW r \in receipts,
             Rollback(r), UNCHANGED manifests
      PROVE  AbsentIsBlank'
  BY <1>18, RowTypes, RollbackEffect, ReceiptFields DEF AbsentIsBlank,
    PlanIn, KeepsOtherPlans, Members, LiveTasks
<1>19. ASSUME NEW o \in Ops,
             ManifestApply(o), UNCHANGED links
      PROVE  AbsentIsBlank'
  BY <1>19, RowTypes, ManifestApplyEffect, ManifestAssumption DEF
    AbsentIsBlank, PlanIn, KeepsOtherPlans, TaskIn
<1>20. ASSUME NEW o \in Ops,
             Compensate(o), UNCHANGED links
      PROVE  AbsentIsBlank'
  BY <1>20, RowTypes, CompensateEffect, ManifestAssumption DEF AbsentIsBlank,
    KeepsOtherPlans, LosesPlans
<1>21. ASSUME NEW o \in Ops, NEW d \in Effects,
             MarkDelivered(o, d), UNCHANGED links
      PROVE  AbsentIsBlank'
  BY <1>21 DEF MarkDelivered, AbsentIsBlank, rows
<1>22. ASSUME NEW t \in Tasks, NEW pl \in Plans \cup {None}, NEW h \in Homes,
             Adopt(t, pl, h), UNCHANGED <<links, manifests>>
      PROVE  AbsentIsBlank'
  BY <1>22, AdoptEffect DEF AbsentIsBlank, KeepsOtherTasks
<1>. QED
  BY <1>22, <1>1, <1>2, <1>3, <1>4, <1>5, <1>6, <1>7, <1>8, <1>9, <1>10, <1>11,
    <1>12, <1>13, <1>14, <1>15, <1>16, <1>17, <1>18, <1>19, <1>20, <1>21 DEF
    Next, OrdinaryCall, OrdinaryWrite, LinkCall, ManifestCall

-----------------------------------------------------------------------------
(* Operations, their rows and their effects *)

LEMMA GraphsStep ==
  ASSUME TypeOK, GraphsTell, [Next]_vars
  PROVE  GraphsTell'
<1>1. CASE UNCHANGED vars
  BY <1>1 DEF vars, rows, manifests, GraphsTell
<1>2. ASSUME NEW pl \in Plans,
            DeletePlan(pl), UNCHANGED <<links, manifests>>
     PROVE  GraphsTell'
  BY <1>2, RowTypes, DeletePlanEffect, ManifestAssumption, RowsAssumption DEF
    GraphsTell, links, manifests, KeepsOtherPlans, LosesPlans
<1>3. ASSUME NEW pl \in Plans,
            BackfillSlug(pl), UNCHANGED <<links, manifests>>
     PROVE  GraphsTell'
  BY <1>3, RowTypes, ContentEffect, ManifestAssumption, RowsAssumption DEF
    GraphsTell, links, manifests, KeepsPlans
<1>4. ASSUME NEW pl \in Plans, NEW e \in BOOLEAN,
            EditPlan(pl, e), UNCHANGED <<links, manifests>>
     PROVE  GraphsTell'
  BY <1>4, RowTypes, ContentEffect, ManifestAssumption, RowsAssumption DEF
    GraphsTell, links, manifests, KeepsPlans
<1>5. ASSUME NEW pl \in Plans, NEW h \in Homes,
            CreatePlan(pl, h), UNCHANGED <<links, manifests>>
     PROVE  GraphsTell'
  BY <1>5, RowTypes, CreatePlanEffect, ManifestAssumption, RowsAssumption DEF
    GraphsTell, links, manifests, PlanIn, KeepsOtherPlans
<1>6. ASSUME NEW pl \in Plans, NEW h \in Homes,
            AttachPlan(pl, h), UNCHANGED <<links, manifests>>
     PROVE  GraphsTell'
  BY <1>6, RowTypes, AttachPlanEffect, ManifestAssumption, RowsAssumption DEF
    GraphsTell, links, manifests, PlanIn, KeepsOtherPlans
<1>7. ASSUME NEW h \in Projects,
            DeleteProject(h), UNCHANGED <<links, manifests>>
     PROVE  GraphsTell'
  BY <1>7, RowTypes, DeleteProjectEffect, RemovedTypes, ManifestAssumption,
    RowsAssumption DEF GraphsTell, links, manifests, PlansIn, LivePlans,
    LosesPlans
<1>8. ASSUME NEW t \in Tasks, NEW pl \in Plans \cup {None}, NEW h \in Homes,
            CreateTask(t, pl, h), UNCHANGED <<links, manifests>>
     PROVE  GraphsTell'
  BY <1>8, RowTypes, CreateTaskEffect, ManifestAssumption, RowsAssumption DEF
    GraphsTell, links, manifests, TaskIn, KeepsOtherTasks
<1>9. ASSUME NEW t \in Tasks, NEW pl \in Plans \cup {None}, NEW h \in Homes,
            MoveTask(t, pl, h), UNCHANGED <<links, manifests>>
     PROVE  GraphsTell'
  BY <1>9, RowTypes, MoveTaskEffect, ManifestAssumption, RowsAssumption DEF
    GraphsTell, links, manifests, TaskIn, KeepsOtherTasks
<1>10. ASSUME NEW t \in Tasks, NEW pl \in Plans \cup {None}, NEW h \in Homes,
               NEW e \in BOOLEAN,
             UpdateTask(t, pl, h, e), UNCHANGED <<links, manifests>>
      PROVE  GraphsTell'
  BY <1>10, RowTypes, UpdateTaskEffect, ManifestAssumption, RowsAssumption
    DEF GraphsTell, links, manifests, TaskIn, KeepsOtherTasks
<1>11. ASSUME NEW p \in Procs,
             UpdateWrite(p), UNCHANGED <<links, manifests>>
      PROVE  GraphsTell'
  BY <1>11, RowTypes, UpdateWriteEffect, EditFields, ManifestAssumption,
    RowsAssumption DEF GraphsTell, links, manifests, TaskIn, KeepsOtherTasks
<1>12. ASSUME NEW p \in Procs,
             UpdateEnds(p), UNCHANGED <<links, manifests>>
      PROVE  GraphsTell'
  BY <1>12 DEF UpdateEnds, GraphsTell, manifests
<1>13. ASSUME NEW p \in Procs, NEW t \in Tasks, NEW h \in Homes, NEW e \in
               BOOLEAN, NEW keeps \in SUBSET {"plan", "project"},
             UpdateRead(p, t, h, e, keeps), UNCHANGED <<links, manifests>>
      PROVE  GraphsTell'
  BY <1>13 DEF UpdateRead, GraphsTell, manifests
<1>14. ASSUME NEW t \in Tasks,
             DeleteTask(t), UNCHANGED <<links, manifests>>
      PROVE  GraphsTell'
  BY <1>14, RowTypes, DeleteTaskEffect, ManifestAssumption, RowsAssumption
    DEF GraphsTell, links, manifests, KeepsOtherTasks
<1>15. ASSUME NEW x \in Plans \cup Tasks,
             Refer(x), UNCHANGED <<links, manifests>>
      PROVE  GraphsTell'
  BY <1>15 DEF Refer, GraphsTell, manifests
<1>16. ASSUME NEW x \in Plans \cup Tasks,
             Unrefer(x), UNCHANGED <<links, manifests>>
      PROVE  GraphsTell'
  BY <1>16 DEF Unrefer, GraphsTell, manifests
<1>17. ASSUME NEW k \in Keys, NEW pl \in Plans, NEW h \in Projects,
             Link(k, pl, h), UNCHANGED manifests
      PROVE  GraphsTell'
  BY <1>17, RowTypes, LinkEffect, ManifestAssumption, RowsAssumption DEF
    GraphsTell, links, manifests, PlanIn, KeepsOtherPlans, Members, LiveTasks
<1>18. ASSUME NEW r \in receipts,
             Rollback(r), UNCHANGED manifests
      PROVE  GraphsTell'
  BY <1>18, RowTypes, RollbackEffect, ReceiptFields, ManifestAssumption,
    RowsAssumption DEF GraphsTell, links, manifests, PlanIn, KeepsOtherPlans,
    Members, LiveTasks
<1>19. ASSUME NEW o \in Ops,
             ManifestApply(o), UNCHANGED links
      PROVE  GraphsTell'
  <2>. SUFFICES ASSUME NEW q \in Ops
                PROVE  /\ binding'[q] = "none" => \A t \in TasksOf[q] : task'[t].state = "unused"
                       /\ binding'[q] = "compensated" =>
                            /\ plan'[PlanOf[q]].state = "gone"
                            /\ \A t \in TasksOf[q] : task'[t].state = "gone"
    BY DEF GraphsTell
  <2>1. CASE q = o
    BY <1>19, <2>1, ManifestApplyEffect DEF TypeOK
  <2>2. CASE q # o
    BY <1>19, <2>2, ManifestApplyEffect, ManifestAssumption DEF TypeOK, GraphsTell, KeepsOtherPlans
  <2>. QED
    BY <2>1, <2>2
<1>20. ASSUME NEW o \in Ops,
             Compensate(o), UNCHANGED links
      PROVE  GraphsTell'
  <2>. SUFFICES ASSUME NEW q \in Ops
                PROVE  /\ binding'[q] = "none" => \A t \in TasksOf[q] : task'[t].state = "unused"
                       /\ binding'[q] = "compensated" =>
                            /\ plan'[PlanOf[q]].state = "gone"
                            /\ \A t \in TasksOf[q] : task'[t].state = "gone"
    BY DEF GraphsTell
  <2>3. /\ TasksOf[q] \subseteq Tasks /\ PlanOf[q] \in Plans
        /\ q # o => PlanOf[q] # PlanOf[o] /\ TasksOf[q] \cap TasksOf[o] = {}
    BY ManifestAssumption
  <2>4. binding' = [binding EXCEPT ![o] = "compensated"] /\ binding \in [Ops -> BindingStates]
    BY <1>20, CompensateEffect DEF TypeOK
  <2>1. CASE q = o
    BY <1>20, <2>1, <2>3, <2>4, CompensateEffect
  <2>2. CASE q # o
    BY <1>20, <2>2, <2>3, <2>4, CompensateEffect DEF GraphsTell, KeepsOtherPlans, LosesPlans
  <2>. QED
    BY <2>1, <2>2
<1>21. ASSUME NEW o \in Ops, NEW d \in Effects,
             MarkDelivered(o, d), UNCHANGED links
      PROVE  GraphsTell'
  BY <1>21 DEF MarkDelivered, GraphsTell, rows
<1>22. ASSUME NEW t \in Tasks, NEW pl \in Plans \cup {None}, NEW h \in Homes,
             Adopt(t, pl, h), UNCHANGED <<links, manifests>>
      PROVE  GraphsTell'
  BY <1>22, RowTypes, AdoptEffect, ManifestAssumption, RowsAssumption
    DEF GraphsTell, links, manifests, KeepsOtherTasks
<1>. QED
  BY <1>22, <1>1, <1>2, <1>3, <1>4, <1>5, <1>6, <1>7, <1>8, <1>9, <1>10, <1>11,
    <1>12, <1>13, <1>14, <1>15, <1>16, <1>17, <1>18, <1>19, <1>20, <1>21 DEF
    Next, OrdinaryCall, OrdinaryWrite, LinkCall, ManifestCall

LEMMA OutboxStep ==
  ASSUME TypeOK, OutboxTells, [Next]_vars
  PROVE  OutboxTells'
<1>1. CASE UNCHANGED manifests
  BY <1>1 DEF manifests, OutboxTells
<1>2. ASSUME NEW o \in Ops, ManifestApply(o) PROVE OutboxTells'
  BY <1>2 DEF ManifestApply, TypeOK, OutboxTells, OutboxOf
<1>3. ASSUME NEW o \in Ops, Compensate(o) PROVE OutboxTells'
  BY <1>3 DEF Compensate, Compensable, Undelivered, Cancelled, TypeOK, OutboxTells, OutboxOf
<1>4. ASSUME NEW o \in Ops, NEW d \in Effects, MarkDelivered(o, d) PROVE OutboxTells'
  <2>1. binding[o] = "applied"
    BY <1>4 DEF MarkDelivered, OutboxTells, OutboxOf, TypeOK, BindingStates
  <2>2. /\ outbox' = [outbox EXCEPT ![o] = [outbox[o] EXCEPT ![d] = "delivered"]]
        /\ binding' = binding
    BY <1>4 DEF MarkDelivered
  <2>3. \A q \in Ops : outbox[q] \in [Effects -> OutboxStates]
    BY DEF TypeOK
  <2>4. \A q \in Ops, f \in Effects :
          outbox'[q][f] = IF q = o /\ f = d THEN "delivered" ELSE outbox[q][f]
    BY <2>2, <2>3 DEF TypeOK
  <2>. QED
    <3>. SUFFICES ASSUME NEW q \in Ops, NEW f \in Effects
                  PROVE  outbox'[q][f] \in OutboxOf(binding[q])
      BY <2>2 DEF OutboxTells
    <3>1. outbox[q][f] \in OutboxOf(binding[q])
      BY DEF OutboxTells
    <3>2. "delivered" \in OutboxOf("applied")
      BY DEF OutboxOf
    <3>. QED
      BY <2>1, <2>4, <3>1, <3>2
<1>. QED
  BY <1>1, <1>2, <1>3, <1>4 DEF Next, ManifestCall, vars

-----------------------------------------------------------------------------
(* What updateTask read *)

(* A write that brings no row back, gives a row a plan only raw or with a    *)
(* higher version and begins no edit keeps every edit telling.               *)
Careful(u) ==
  /\ task[u].state = "gone" => task'[u].state = "gone"
  /\ task[u].state = "here" /\ task'[u].state = "here" =>
       /\ task'[u].version >= task[u].version
       /\ task'[u].version > task[u].version \/ (Loose(task[u]) => Loose(task'[u]))
  /\ task[u].state = "here" => task'[u].state # "unused"

LEMMA CarefulKeeps ==
  ASSUME TypeOK, TypeOK', EditsTell,
         \A u \in Tasks : task[u].state # "unused" => Careful(u),
         \A p \in Procs : edit'[p] \in {edit[p], NoEdit}
  PROVE  EditsTell'
<1>. SUFFICES ASSUME NEW p \in Procs, edit'[p] # NoEdit
              PROVE  /\ edit'[p].task \in Tasks
                     /\ EditTells(edit'[p], task'[edit'[p].task])
  BY DEF EditsTell
<1>1. edit'[p] = edit[p] /\ edit[p].task \in Tasks
  BY DEF EditsTell
<1>. DEFINE u == edit[p].task
<1>2. EditTells(edit[p], task[u])
  BY <1>1 DEF EditsTell
<1>3. task[u].version \in Nat /\ task'[u].version \in Nat /\ edit[p].version \in Nat
  BY <1>1, RowTypes, EditFields DEF TypeOK, TaskRow
<1>4. task[u].state \in States /\ Careful(u)
  BY <1>1, <1>2, RowTypes DEF EditTells
<1>. HIDE DEF u
<1>5. EditTells(edit[p], task'[u])
  BY <1>2, <1>3, <1>4 DEF EditTells, Careful, States
<1>. QED
  BY <1>1, <1>5 DEF u


LEMMA CarefulStep ==
  ASSUME TypeOK, GraphsTell, [Next]_vars,
         \A p \in Procs, t \in Tasks, h \in Homes, e \in BOOLEAN,
            keeps \in SUBSET {"plan", "project"} : ~UpdateRead(p, t, h, e, keeps)
  PROVE  \A u \in Tasks : task[u].state # "unused" => Careful(u)
<1>1. CASE UNCHANGED vars
  BY <1>1, RowTypes DEF vars, rows, Careful, States
<1>2. ASSUME NEW pl \in Plans,
            DeletePlan(pl), UNCHANGED <<links, manifests>>
     PROVE  \A u \in Tasks : task[u].state # "unused" => Careful(u)
  BY <1>2, RowTypes, DeletePlanEffect DEF Careful, States, KeepsOtherPlans,
    LosesPlans
<1>3. ASSUME NEW pl \in Plans,
            BackfillSlug(pl), UNCHANGED <<links, manifests>>
     PROVE  \A u \in Tasks : task[u].state # "unused" => Careful(u)
  BY <1>3, RowTypes, ContentEffect DEF Careful, States, KeepsPlans
<1>4. ASSUME NEW pl \in Plans, NEW e \in BOOLEAN,
            EditPlan(pl, e), UNCHANGED <<links, manifests>>
     PROVE  \A u \in Tasks : task[u].state # "unused" => Careful(u)
  BY <1>4, RowTypes, ContentEffect DEF Careful, States, KeepsPlans
<1>5. ASSUME NEW pl \in Plans, NEW h \in Homes,
            CreatePlan(pl, h), UNCHANGED <<links, manifests>>
     PROVE  \A u \in Tasks : task[u].state # "unused" => Careful(u)
  BY <1>5, RowTypes, CreatePlanEffect DEF Careful, States, PlanIn,
    KeepsOtherPlans
<1>6. ASSUME NEW pl \in Plans, NEW h \in Homes,
            AttachPlan(pl, h), UNCHANGED <<links, manifests>>
     PROVE  \A u \in Tasks : task[u].state # "unused" => Careful(u)
  BY <1>6, RowTypes, AttachPlanEffect DEF Careful, States, PlanIn,
    KeepsOtherPlans
<1>7. ASSUME NEW h \in Projects,
            DeleteProject(h), UNCHANGED <<links, manifests>>
     PROVE  \A u \in Tasks : task[u].state # "unused" => Careful(u)
  BY <1>7, RowTypes, DeleteProjectEffect, RemovedTypes DEF Careful, States,
    PlansIn, LivePlans, LosesPlans
<1>8. ASSUME NEW t \in Tasks, NEW pl \in Plans \cup {None}, NEW h \in Homes,
            CreateTask(t, pl, h), UNCHANGED <<links, manifests>>
     PROVE  \A u \in Tasks : task[u].state # "unused" => Careful(u)
  BY <1>8, RowTypes, CreateTaskEffect DEF Careful, States, TaskIn,
    KeepsOtherTasks
<1>9. ASSUME NEW t \in Tasks, NEW pl \in Plans \cup {None}, NEW h \in Homes,
            MoveTask(t, pl, h), UNCHANGED <<links, manifests>>
     PROVE  \A u \in Tasks : task[u].state # "unused" => Careful(u)
  BY <1>9, RowTypes, MoveTaskEffect DEF Careful, States, TaskIn,
    KeepsOtherTasks
<1>10. ASSUME NEW t \in Tasks, NEW pl \in Plans \cup {None}, NEW h \in Homes,
               NEW e \in BOOLEAN,
             UpdateTask(t, pl, h, e), UNCHANGED <<links, manifests>>
      PROVE  \A u \in Tasks : task[u].state # "unused" => Careful(u)
  BY <1>10, RowTypes, UpdateTaskEffect DEF Careful, States, TaskIn,
    KeepsOtherTasks
<1>11. ASSUME NEW p \in Procs,
             UpdateWrite(p), UNCHANGED <<links, manifests>>
      PROVE  \A u \in Tasks : task[u].state # "unused" => Careful(u)
  BY <1>11, RowTypes, UpdateWriteEffect, EditFields DEF Careful, States,
    TaskIn, KeepsOtherTasks
<1>12. ASSUME NEW p \in Procs,
             UpdateEnds(p), UNCHANGED <<links, manifests>>
      PROVE  \A u \in Tasks : task[u].state # "unused" => Careful(u)
  BY <1>12, RowTypes DEF UpdateEnds, Careful, States
<1>13. ASSUME NEW t \in Tasks,
             DeleteTask(t), UNCHANGED <<links, manifests>>
      PROVE  \A u \in Tasks : task[u].state # "unused" => Careful(u)
  BY <1>13, RowTypes, DeleteTaskEffect DEF Careful, States, KeepsOtherTasks
<1>14. ASSUME NEW x \in Plans \cup Tasks,
             Refer(x), UNCHANGED <<links, manifests>>
      PROVE  \A u \in Tasks : task[u].state # "unused" => Careful(u)
  BY <1>14, RowTypes DEF Refer, Careful, States
<1>15. ASSUME NEW x \in Plans \cup Tasks,
             Unrefer(x), UNCHANGED <<links, manifests>>
      PROVE  \A u \in Tasks : task[u].state # "unused" => Careful(u)
  BY <1>15, RowTypes DEF Unrefer, Careful, States
<1>16. ASSUME NEW k \in Keys, NEW pl \in Plans, NEW h \in Projects,
             Link(k, pl, h), UNCHANGED manifests
      PROVE  \A u \in Tasks : task[u].state # "unused" => Careful(u)
  BY <1>16, RowTypes, LinkEffect DEF Careful, States, PlanIn,
    KeepsOtherPlans, Members, LiveTasks
<1>17. ASSUME NEW r \in receipts,
             Rollback(r), UNCHANGED manifests
      PROVE  \A u \in Tasks : task[u].state # "unused" => Careful(u)
  BY <1>17, RowTypes, RollbackEffect, ReceiptFields DEF Careful, States,
    PlanIn, KeepsOtherPlans, Members, LiveTasks
<1>18. ASSUME NEW o \in Ops,
             ManifestApply(o), UNCHANGED links
      PROVE  \A u \in Tasks : task[u].state # "unused" => Careful(u)
  BY <1>18, RowTypes, ManifestApplyEffect, ManifestAssumption DEF GraphsTell,
    Careful, States, PlanIn, KeepsOtherPlans, TaskIn
<1>19. ASSUME NEW o \in Ops,
             Compensate(o), UNCHANGED links
      PROVE  \A u \in Tasks : task[u].state # "unused" => Careful(u)
  BY <1>19, RowTypes, CompensateEffect, ManifestAssumption DEF Careful,
    States, KeepsOtherPlans, LosesPlans
<1>20. ASSUME NEW o \in Ops, NEW d \in Effects,
             MarkDelivered(o, d), UNCHANGED links
      PROVE  \A u \in Tasks : task[u].state # "unused" => Careful(u)
  BY <1>20, RowTypes DEF MarkDelivered, rows, Careful, States
<1>21. ASSUME NEW t \in Tasks, NEW pl \in Plans \cup {None}, NEW h \in Homes,
             Adopt(t, pl, h), UNCHANGED <<links, manifests>>
      PROVE  \A u \in Tasks : task[u].state # "unused" => Careful(u)
  BY <1>21, RowTypes, AdoptEffect DEF Careful, States, KeepsOtherTasks
<1>. QED
  BY <1>21, <1>1, <1>2, <1>3, <1>4, <1>5, <1>6, <1>7, <1>8, <1>9, <1>10, <1>11,
    <1>12, <1>13, <1>14, <1>15, <1>16, <1>17, <1>18, <1>19, <1>20 DEF Next,
    OrdinaryCall, OrdinaryWrite, LinkCall, ManifestCall

LEMMA EditsEndStep ==
  ASSUME TypeOK, [Next]_vars,
         \A p \in Procs, t \in Tasks, h \in Homes, e \in BOOLEAN,
            keeps \in SUBSET {"plan", "project"} : ~UpdateRead(p, t, h, e, keeps)
  PROVE  \A q \in Procs : edit'[q] \in {edit[q], NoEdit}
<1>1. CASE UNCHANGED vars
  BY <1>1 DEF vars, rows
<1>2. ASSUME NEW pl \in Plans,
            DeletePlan(pl), UNCHANGED <<links, manifests>>
     PROVE  \A q \in Procs : edit'[q] \in {edit[q], NoEdit}
  BY <1>2 DEF DeletePlan
<1>3. ASSUME NEW pl \in Plans,
            BackfillSlug(pl), UNCHANGED <<links, manifests>>
     PROVE  \A q \in Procs : edit'[q] \in {edit[q], NoEdit}
  BY <1>3 DEF BackfillSlug
<1>4. ASSUME NEW pl \in Plans, NEW e \in BOOLEAN,
            EditPlan(pl, e), UNCHANGED <<links, manifests>>
     PROVE  \A q \in Procs : edit'[q] \in {edit[q], NoEdit}
  BY <1>4 DEF EditPlan
<1>5. ASSUME NEW pl \in Plans, NEW h \in Homes,
            CreatePlan(pl, h), UNCHANGED <<links, manifests>>
     PROVE  \A q \in Procs : edit'[q] \in {edit[q], NoEdit}
  BY <1>5 DEF CreatePlan
<1>6. ASSUME NEW pl \in Plans, NEW h \in Homes,
            AttachPlan(pl, h), UNCHANGED <<links, manifests>>
     PROVE  \A q \in Procs : edit'[q] \in {edit[q], NoEdit}
  BY <1>6 DEF AttachPlan
<1>7. ASSUME NEW h \in Projects,
            DeleteProject(h), UNCHANGED <<links, manifests>>
     PROVE  \A q \in Procs : edit'[q] \in {edit[q], NoEdit}
  BY <1>7 DEF DeleteProject
<1>8. ASSUME NEW t \in Tasks, NEW pl \in Plans \cup {None}, NEW h \in Homes,
            CreateTask(t, pl, h), UNCHANGED <<links, manifests>>
     PROVE  \A q \in Procs : edit'[q] \in {edit[q], NoEdit}
  BY <1>8 DEF CreateTask
<1>9. ASSUME NEW t \in Tasks, NEW pl \in Plans \cup {None}, NEW h \in Homes,
            MoveTask(t, pl, h), UNCHANGED <<links, manifests>>
     PROVE  \A q \in Procs : edit'[q] \in {edit[q], NoEdit}
  BY <1>9 DEF MoveTask
<1>10. ASSUME NEW t \in Tasks, NEW pl \in Plans \cup {None}, NEW h \in Homes,
               NEW e \in BOOLEAN,
             UpdateTask(t, pl, h, e), UNCHANGED <<links, manifests>>
      PROVE  \A q \in Procs : edit'[q] \in {edit[q], NoEdit}
  BY <1>10 DEF UpdateTask
<1>11. ASSUME NEW p \in Procs,
             UpdateWrite(p), UNCHANGED <<links, manifests>>
      PROVE  \A q \in Procs : edit'[q] \in {edit[q], NoEdit}
  BY <1>11 DEF UpdateWrite, TypeOK
<1>12. ASSUME NEW p \in Procs,
             UpdateEnds(p), UNCHANGED <<links, manifests>>
      PROVE  \A q \in Procs : edit'[q] \in {edit[q], NoEdit}
  BY <1>12 DEF UpdateEnds, TypeOK
<1>13. ASSUME NEW t \in Tasks,
             DeleteTask(t), UNCHANGED <<links, manifests>>
      PROVE  \A q \in Procs : edit'[q] \in {edit[q], NoEdit}
  BY <1>13 DEF DeleteTask
<1>14. ASSUME NEW x \in Plans \cup Tasks,
             Refer(x), UNCHANGED <<links, manifests>>
      PROVE  \A q \in Procs : edit'[q] \in {edit[q], NoEdit}
  BY <1>14 DEF Refer
<1>15. ASSUME NEW x \in Plans \cup Tasks,
             Unrefer(x), UNCHANGED <<links, manifests>>
      PROVE  \A q \in Procs : edit'[q] \in {edit[q], NoEdit}
  BY <1>15 DEF Unrefer
<1>16. ASSUME NEW k \in Keys, NEW pl \in Plans, NEW h \in Projects,
             Link(k, pl, h), UNCHANGED manifests
      PROVE  \A q \in Procs : edit'[q] \in {edit[q], NoEdit}
  BY <1>16 DEF Link
<1>17. ASSUME NEW r \in receipts,
             Rollback(r), UNCHANGED manifests
      PROVE  \A q \in Procs : edit'[q] \in {edit[q], NoEdit}
  BY <1>17 DEF Rollback
<1>18. ASSUME NEW o \in Ops,
             ManifestApply(o), UNCHANGED links
      PROVE  \A q \in Procs : edit'[q] \in {edit[q], NoEdit}
  BY <1>18 DEF ManifestApply
<1>19. ASSUME NEW o \in Ops,
             Compensate(o), UNCHANGED links
      PROVE  \A q \in Procs : edit'[q] \in {edit[q], NoEdit}
  BY <1>19 DEF Compensate
<1>20. ASSUME NEW o \in Ops, NEW d \in Effects,
             MarkDelivered(o, d), UNCHANGED links
      PROVE  \A q \in Procs : edit'[q] \in {edit[q], NoEdit}
  BY <1>20 DEF MarkDelivered, rows
<1>21. ASSUME NEW t \in Tasks, NEW pl \in Plans \cup {None}, NEW h \in Homes,
             Adopt(t, pl, h), UNCHANGED <<links, manifests>>
      PROVE  \A q \in Procs : edit'[q] \in {edit[q], NoEdit}
  BY <1>21 DEF Adopt
<1>. QED
  BY <1>21, <1>1, <1>2, <1>3, <1>4, <1>5, <1>6, <1>7, <1>8, <1>9, <1>10, <1>11,
    <1>12, <1>13, <1>14, <1>15, <1>16, <1>17, <1>18, <1>19, <1>20 DEF Next,
    OrdinaryCall, OrdinaryWrite, LinkCall, ManifestCall

LEMMA EditsStep ==
  ASSUME TypeOK, TypeOK', GraphsTell, EditsTell, [Next]_vars
  PROVE  EditsTell'
<1>1. ASSUME NEW p \in Procs, NEW t \in Tasks, NEW h \in Homes, NEW e \in BOOLEAN,
             NEW keeps \in SUBSET {"plan", "project"}, UpdateRead(p, t, h, e, keeps)
      PROVE  EditsTell'
  <2>1. task[t].state = "here" /\ Loose(task[t]) /\ task[t].version \in Nat
    BY <1>1, RowTypes DEF UpdateRead, LiveTasks, Loose
  <2>. DEFINE w == [task |-> t, version |-> task[t].version,
                    project |-> h, edited |-> e, keeps |-> keeps]
  <2>2. EditTells(w, task[t]) /\ w.task = t
    BY <2>1 DEF EditTells
  <2>3. edit' = [edit EXCEPT ![p] = w] /\ task' = task
    BY <1>1 DEF UpdateRead
  <2>. HIDE DEF w
  <2>. QED
    BY <2>2, <2>3 DEF EditsTell, TypeOK
<1>2. CASE \A p \in Procs, t \in Tasks, h \in Homes, e \in BOOLEAN,
              keeps \in SUBSET {"plan", "project"} : ~UpdateRead(p, t, h, e, keeps)
  BY <1>2, CarefulStep, EditsEndStep, CarefulKeeps
<1>. QED
  BY <1>1, <1>2

-----------------------------------------------------------------------------
(* The invariant *)

(* The inductive invariant holds in every reachable state. *)
THEOREM PlanAuthoritiesInvariant == Spec => []IInv
<1>1. Init => IInv
  <2>. SUFFICES ASSUME Init PROVE IInv
    OBVIOUS
  <2>1. PlanAs("unused", None, FALSE, FALSE) \in PlanRow
    BY PlanAsType DEF States, Homes
  <2>2. TaskAs("unused", None, None, 0, FALSE) \in TaskRow
    BY DEF TaskAs, TaskRow, States, Homes
  <2>3. /\ PlanAs("unused", None, FALSE, FALSE).state = "unused"
        /\ TaskAs("unused", None, None, 0, FALSE).state = "unused"
        /\ TaskAs("unused", None, None, 0, FALSE).plan = None
    BY DEF PlanAs, TaskAs
  <2>4. TypeOK
    BY <2>1, <2>2, NoEditType DEF Init, RowsInit, LinksInit, ManifestInit, TypeOK,
       BindingStates, OutboxStates
  <2>5. NothingDangles
    BY <2>3 DEF Init, RowsInit, NothingDangles, LivePlans, LiveTasks
  <2>6. GraphsTell /\ OutboxTells
    BY <2>3, ManifestAssumption
       DEF Init, RowsInit, ManifestInit, GraphsTell, OutboxTells, OutboxOf
  <2>7. AbsentIsBlank /\ EditsTell
    BY <2>3 DEF Init, RowsInit, AbsentIsBlank, EditsTell
  <2>. QED
    BY <2>4, <2>5, <2>6, <2>7 DEF IInv
<1>2. IInv /\ [Next]_vars => IInv'
  <2>. SUFFICES ASSUME IInv, [Next]_vars PROVE IInv'
    OBVIOUS
  <2>1. TypeOK /\ NothingDangles /\ GraphsTell /\ OutboxTells /\ AbsentIsBlank /\ EditsTell
    BY DEF IInv
  <2>2. TypeOK'
    BY <2>1, TypeStep
  <2>3. NothingDangles' /\ GraphsTell' /\ OutboxTells' /\ AbsentIsBlank'
    BY <2>1, DanglesStep, GraphsStep, OutboxStep, AbsentStep
  <2>4. EditsTell'
    BY <2>1, <2>2, EditsStep
  <2>. QED
    BY <2>2, <2>3, <2>4 DEF IInv
<1>. QED
  BY <1>1, <1>2, PTL DEF Spec

(* TypeOK of PlanAuthorities holds for any constants. *)
THEOREM PlanAuthoritiesTypeOK == Spec => []TypeOK
BY PlanAuthoritiesInvariant, PTL DEF IInv

(* No cascade, rollback or compensation leaves a row that names a plan or a  *)
(* project that is not there, for any constants.                             *)
THEOREM NothingEverDangles == Spec => []NothingDangles
BY PlanAuthoritiesInvariant, PTL DEF IInv

(* A compensated operation stays undone as a whole, for any operations.      *)
THEOREM CompensationIsFinal == Spec => []CompensatedIsUndone
<1>1. IInv => CompensatedIsUndone
  <2>. SUFFICES ASSUME IInv, NEW o \in Ops
                PROVE  /\ (\E d \in Effects : outbox[o][d] = "delivered") => binding[o] = "applied"
                       /\ binding[o] = "compensated" =>
                            /\ \A d \in Effects : outbox[o][d] = "cancelled"
                            /\ PlanOf[o] \notin LivePlans /\ TasksOf[o] \cap LiveTasks = {}
    BY DEF CompensatedIsUndone
  <2>1. binding[o] \in {"none", "applied", "compensated"}
    BY DEF IInv, TypeOK, BindingStates
  <2>2. \A d \in Effects : outbox[o][d] \in OutboxOf(binding[o])
    BY DEF IInv, OutboxTells
  <2>3. (\E d \in Effects : outbox[o][d] = "delivered") => binding[o] = "applied"
    BY <2>1, <2>2 DEF OutboxOf
  <2>4. ASSUME binding[o] = "compensated"
        PROVE  /\ \A d \in Effects : outbox[o][d] = "cancelled"
               /\ PlanOf[o] \notin LivePlans /\ TasksOf[o] \cap LiveTasks = {}
    BY <2>2, <2>4 DEF OutboxOf, IInv, GraphsTell, LivePlans, LiveTasks
  <2>. QED
    BY <2>3, <2>4
<1>. QED
  BY <1>1, PlanAuthoritiesInvariant, PTL


-----------------------------------------------------------------------------
(* Containment *)

LEMMA Contained ==
  ASSUME TypeOK, AbsentIsBlank, [Next]_vars, NEW o \in Ops, Compensates(o)
  PROVE  /\ \A t \in Tasks \ TasksOf[o] : task'[t] = task[t]
         /\ \A pl \in Plans \ {PlanOf[o]} : plan'[pl] = plan[pl]
         /\ refs' = refs
<1>1. binding[o] = "applied" /\ binding'[o] = "compensated"
  BY DEF Compensates
<1>2. ASSUME NEW q \in Ops, ManifestApply(q) PROVE FALSE
  BY <1>1, <1>2 DEF ManifestApply, TypeOK
<1>3. ASSUME NEW q \in Ops, Compensate(q) PROVE q = o
  BY <1>1, <1>3 DEF Compensate, TypeOK
<1>4. ASSUME NEW q \in Ops, NEW d \in Effects, MarkDelivered(q, d) PROVE FALSE
  BY <1>1, <1>4 DEF MarkDelivered
<1>5. Compensate(o)
  BY <1>1, <1>2, <1>3, <1>4 DEF Next, ManifestCall, manifests, vars
<1>6. ~ForeignReference(o)
  BY <1>5 DEF Compensate, Compensable
<1>7. refs' = refs
  BY <1>5, <1>6 DEF Compensate, ForeignReference
<1>8. ASSUME NEW pl \in Plans \ {PlanOf[o]} PROVE plan'[pl] = plan[pl]
  BY <1>5, CompensateEffect DEF KeepsOtherPlans
<1>9. ASSUME NEW t \in Tasks \ TasksOf[o] PROVE task'[t] = task[t]
  <2>1. task[t].plan # PlanOf[o]
    BY <1>6, ManifestAssumption, RowsAssumption
       DEF ForeignReference, Members, LiveTasks, AbsentIsBlank
  <2>2. task'[t] = Unplanned(t, {PlanOf[o]})
    BY <1>5 DEF Compensate
  <2>. QED
    BY <2>1, <2>2 DEF Unplanned
<1>. QED
  BY <1>7, <1>8, <1>9

(* A compensation changes no row outside the graph it takes back.            *)
THEOREM CompensationStaysContained == Spec => CompensationIsContained
<1>1. IInv /\ [Next]_vars =>
        [\A o \in Ops : Compensates(o) =>
           /\ \A t \in Tasks \ TasksOf[o] : task'[t] = task[t]
           /\ \A pl \in Plans \ {PlanOf[o]} : plan'[pl] = plan[pl]
           /\ refs' = refs]_vars
  BY Contained DEF IInv
<1>. QED
  BY <1>1, PlanAuthoritiesInvariant, PTL DEF Spec, CompensationIsContained


-----------------------------------------------------------------------------
(* Membership *)

ByHand(t) ==
  \/ \E pl \in Plans \cup {None}, h \in Homes : MoveTask(t, pl, h) \/ Adopt(t, pl, h)
  \/ \E h \in Projects : AttachPlan(task[t].plan, h)
  \/ task[t].raw /\ \E p \in Procs : edit[p].task = t /\ UpdateWrite(p)
  \/ \E r \in receipts : Rollback(r) /\ t \in r.members /\ r.priors[t] # r.prior

LEMMA MembersStay ==
  ASSUME TypeOK, NothingDangles, EditsTell, [Next]_vars,
         NEW t \in Tasks, Follows(t), ~Follows(t)'
  PROVE  ByHand(t)
<1>1. /\ task'[t].state = "here" /\ task'[t].plan # None
      /\ plan'[task'[t].plan].project \notin {None, task'[t].project}
  BY DEF Follows, Conforms, LinkedProject, LiveTasks
<1>2. task[t].state = "here" /\ task[t].plan # None =>
        plan[task[t].plan].project \in {None, task[t].project}
  BY DEF Follows, Conforms, LinkedProject, LiveTasks
<1>3. task[t].state = "here" /\ task[t].plan # None =>
        task[t].plan \in Plans /\ plan[task[t].plan].state = "here"
  BY There DEF TaskThere
<1>4. ASSUME NEW pl \in Plans,
            DeletePlan(pl), UNCHANGED <<links, manifests>>
     PROVE  ByHand(t)
  BY <1>4, <1>1, <1>2, <1>3, RowTypes, DeletePlanEffect DEF KeepsOtherPlans,
    LosesPlans
<1>5. ASSUME NEW pl \in Plans,
            BackfillSlug(pl), UNCHANGED <<links, manifests>>
     PROVE  ByHand(t)
  BY <1>5, <1>1, <1>2, <1>3, RowTypes, ContentEffect DEF KeepsPlans
<1>6. ASSUME NEW pl \in Plans, NEW e \in BOOLEAN,
            EditPlan(pl, e), UNCHANGED <<links, manifests>>
     PROVE  ByHand(t)
  BY <1>6, <1>1, <1>2, <1>3, RowTypes, ContentEffect DEF KeepsPlans
<1>7. ASSUME NEW pl \in Plans, NEW h \in Homes,
            CreatePlan(pl, h), UNCHANGED <<links, manifests>>
     PROVE  ByHand(t)
  BY <1>7, <1>1, <1>2, <1>3, RowTypes, CreatePlanEffect DEF PlanIn,
    KeepsOtherPlans
<1>8. ASSUME NEW pl \in Plans, NEW h \in Homes,
            AttachPlan(pl, h), UNCHANGED <<links, manifests>>
     PROVE  ByHand(t)
  <2>1. task[t].plan = pl
    BY <1>8, <1>1, <1>2, <1>3, AttachPlanEffect, RowTypes DEF KeepsOtherPlans
  <2>2. h \in Projects
    BY <1>8, AttachPlanEffect DEF TypeOK
  <2>. QED
    BY <1>8, <2>1, <2>2 DEF ByHand
<1>9. ASSUME NEW h \in Projects,
            DeleteProject(h), UNCHANGED <<links, manifests>>
     PROVE  ByHand(t)
  BY <1>9, <1>1, <1>2, <1>3, RowTypes, DeleteProjectEffect, RemovedTypes DEF
    PlansIn, LivePlans, LosesPlans
<1>10. ASSUME NEW u \in Tasks, NEW pl \in Plans \cup {None}, NEW h \in Homes,
             CreateTask(u, pl, h), UNCHANGED <<links, manifests>>
      PROVE  ByHand(t)
  BY <1>10, <1>1, <1>2, <1>3, RowTypes, CreateTaskEffect DEF TaskIn,
    KeepsOtherTasks, Conforms, LinkedProject
<1>11. ASSUME NEW u \in Tasks, NEW pl \in Plans \cup {None}, NEW h \in Homes,
             MoveTask(u, pl, h), UNCHANGED <<links, manifests>>
      PROVE  ByHand(t)
  <2>1. u = t
    BY <1>11, <1>1, <1>2, MoveTaskEffect DEF KeepsOtherTasks
  <2>. QED
    BY <1>11, <2>1 DEF ByHand
<1>12. ASSUME NEW u \in Tasks, NEW pl \in Plans \cup {None}, NEW h \in Homes,
               NEW e \in BOOLEAN,
             UpdateTask(u, pl, h, e), UNCHANGED <<links, manifests>>
      PROVE  ByHand(t)
  BY <1>12, <1>1, <1>2, <1>3, RowTypes, UpdateTaskEffect DEF TaskIn,
    KeepsOtherTasks, Conforms, LinkedProject
<1>13. ASSUME NEW p \in Procs,
             UpdateWrite(p), UNCHANGED <<links, manifests>>
      PROVE  ByHand(t)
  <2>1. edit[p].task = t
    BY <1>13, <1>1, <1>2, UpdateWriteEffect DEF KeepsOtherTasks
  <2>2. task'[t].plan = PlanAfter(p) /\ PlanAfter(p) \in {task[t].plan, None}
    BY <1>13, <2>1, UpdateWriteEffect DEF TaskIn
  <2>3. Loose(task[t])
    BY <1>13, <2>1, UpdateWriteEffect DEF EditsTell, EditTells
  <2>. QED
    BY <1>13, <1>1, <2>1, <2>2, <2>3 DEF ByHand, Loose
<1>14. ASSUME NEW p \in Procs,
             UpdateEnds(p), UNCHANGED <<links, manifests>>
      PROVE  ByHand(t)
  BY <1>14, <1>1, <1>2 DEF UpdateEnds
<1>15. ASSUME NEW p \in Procs, NEW u \in Tasks, NEW h \in Homes, NEW e \in
               BOOLEAN, NEW keeps \in SUBSET {"plan", "project"},
             UpdateRead(p, u, h, e, keeps), UNCHANGED <<links, manifests>>
      PROVE  ByHand(t)
  BY <1>15, <1>1, <1>2 DEF UpdateRead
<1>16. ASSUME NEW u \in Tasks,
             DeleteTask(u), UNCHANGED <<links, manifests>>
      PROVE  ByHand(t)
  BY <1>16, <1>1, <1>2, <1>3, RowTypes, DeleteTaskEffect DEF KeepsOtherTasks
<1>17. ASSUME NEW x \in Plans \cup Tasks,
             Refer(x), UNCHANGED <<links, manifests>>
      PROVE  ByHand(t)
  BY <1>17, <1>1, <1>2 DEF Refer
<1>18. ASSUME NEW x \in Plans \cup Tasks,
             Unrefer(x), UNCHANGED <<links, manifests>>
      PROVE  ByHand(t)
  BY <1>18, <1>1, <1>2 DEF Unrefer
<1>19. ASSUME NEW k \in Keys, NEW pl \in Plans, NEW h \in Projects,
             Link(k, pl, h), UNCHANGED manifests
      PROVE  ByHand(t)
  BY <1>19, <1>1, <1>2, <1>3, RowTypes, LinkEffect DEF PlanIn,
    KeepsOtherPlans, Members, LiveTasks
<1>20. ASSUME NEW r \in receipts,
             Rollback(r), UNCHANGED manifests
      PROVE  ByHand(t)
  <2>1. t \in r.members /\ r.priors[t] # r.prior
    BY <1>20, <1>1, <1>2, <1>3, RollbackEffect, ReceiptFields, RowTypes
       DEF PlanIn, KeepsOtherPlans, Members, LiveTasks
  <2>. QED
    BY <1>20, <2>1 DEF ByHand
<1>21. ASSUME NEW o \in Ops,
             ManifestApply(o), UNCHANGED links
      PROVE  ByHand(t)
  BY <1>21, <1>1, <1>2, <1>3, RowTypes, ManifestApplyEffect,
    ManifestAssumption DEF PlanIn, KeepsOtherPlans, TaskIn
<1>22. ASSUME NEW o \in Ops,
             Compensate(o), UNCHANGED links
      PROVE  ByHand(t)
  BY <1>22, <1>1, <1>2, <1>3, RowTypes, CompensateEffect, ManifestAssumption
    DEF KeepsOtherPlans, LosesPlans
<1>23. ASSUME NEW o \in Ops, NEW d \in Effects,
             MarkDelivered(o, d), UNCHANGED links
      PROVE  ByHand(t)
  BY <1>23, <1>1, <1>2 DEF MarkDelivered, rows
<1>24. CASE UNCHANGED vars
  BY <1>1, <1>2, <1>24 DEF vars, rows
<1>25. ASSUME NEW u \in Tasks, NEW pl \in Plans \cup {None}, NEW h \in Homes,
             Adopt(u, pl, h), UNCHANGED <<links, manifests>>
      PROVE  ByHand(t)
  <2>1. u = t
    BY <1>25, <1>1, <1>2, AdoptEffect DEF KeepsOtherTasks
  <2>. QED
    BY <1>25, <2>1 DEF ByHand
<1>. QED
  BY <1>25, <1>4, <1>5, <1>6, <1>7, <1>8, <1>9, <1>10, <1>11, <1>12, <1>13, <1>14,
    <1>15, <1>16, <1>17, <1>18, <1>19, <1>20, <1>21, <1>22, <1>23, <1>24 DEF
    Next, OrdinaryCall, OrdinaryWrite, LinkCall, ManifestCall

(* Tasks leave the project of their plan only by the writers that look at no *)
(* project, by an update behind a raw plan_id, which its version check does  *)
(* not see, and by an exact rollback, for any constants.                     *)
THEOREM MembersStayInTheirProject == Spec => MembershipIsKept
<1>1. IInv /\ [Next]_vars =>
        [\A t \in Tasks : Follows(t) /\ ~Follows(t)' =>
           \/ \E pl \in Plans \cup {None}, h \in Homes : MoveTask(t, pl, h) \/ Adopt(t, pl, h)
           \/ \E h \in Projects : AttachPlan(task[t].plan, h)
           \/ task[t].raw /\ \E p \in Procs : edit[p].task = t /\ UpdateWrite(p)
           \/ \E r \in receipts :
                Rollback(r) /\ t \in r.members /\ r.priors[t] # r.prior]_vars
  BY MembersStay DEF IInv, ByHand
<1>. QED
  BY <1>1, PlanAuthoritiesInvariant, PTL DEF Spec, MembershipIsKept
==============================================================================
