----------------------- MODULE TaskDependenciesProofs -----------------------
(***************************************************************************)
(* Proofs about TaskDependencies, for any sets of tasks and processes.     *)
(***************************************************************************)
EXTENDS TaskDependencies, FiniteSetTheorems, TLAPS

\* One process adds edges by addDependency, and none imports or merges.
OneAdder ==
    /\ \A p \in Procs : Calls[p] \cap {"import", "merge"} = {}
    /\ \A p, q \in Procs : "add" \in Calls[p] /\ "add" \in Calls[q] => p = q

\* Only a caller of addDependency walks the graph.
AddersWalk == \A p \in Procs : op[p].kind = "add" => "add" \in Calls[p]

\* A walk has not met its task; what it visited was there, and leads only to what
\* it visited or is going to visit.
WalkInv ==
    \A p \in Procs : op[p].kind = "add" =>
        /\ op[p].task \notin op[p].visited
        /\ op[p].on \in op[p].visited \cup op[p].queue
        /\ \A n \in op[p].visited \cup op[p].queue : status[n] # "absent"
        /\ \A n \in op[p].visited : Prerequisites(n) \subseteq op[p].visited \cup op[p].queue

\* A status is written by updateTask or failTask.
Overwrites(p, t) == Fail(p, t) \/ \E s \in TaskStatuses : Update(p, t, s)

USE DEF Exists, Gone

LEMMA StatusIsSet ==
    ASSUME NEW p \in Procs, NEW t \in Tasks, Overwrites(p, t)
    PROVE  \E s \in TaskStatuses : SetStatus(t, s)
  BY DEF Overwrites, Fail, Update, TaskStatuses, Statuses

LEMMA IdleKind == Idle.kind = "idle" /\ Idle \in Op
  BY DEF Idle, Op

LEMMA OpKinds ==
    ASSUME NEW o \in Op
    PROVE  /\ o.kind = "add" => /\ o \in [kind : {"add"}, task : Tasks, on : Tasks,
                                         queue : SUBSET Tasks, visited : SUBSET Tasks]
           /\ o.kind = "announce" => o \in [kind : {"announce"}, task : Tasks]
  BY DEF Op, Idle

LEMMA TypeInit == Init => TypeOK
  BY IdleKind, DependencyAssumption DEF Init, TypeOK, Statuses

LEMMA TypeStep == TypeOK /\ [Next]_vars => TypeOK'
<1> SUFFICES ASSUME TypeOK, [Next]_vars
             PROVE  TypeOK'
  OBVIOUS
<1> USE DEF TypeOK
<1>1. ASSUME NEW p \in Procs, Done(p)
      PROVE  op' \in [Procs -> Op]
  BY <1>1, IdleKind DEF Done
<1>2. CASE UNCHANGED vars
  BY <1>2 DEF vars
<1>3. ASSUME NEW p \in Procs, AddRefuse(p) PROVE TypeOK'
  BY <1>1, <1>3 DEF AddRefuse
<1>4. ASSUME NEW p \in Procs, AddVisit(p) PROVE TypeOK'
  <2>1. op[p] \in [kind : {"add"}, task : Tasks, on : Tasks,
                   queue : SUBSET Tasks, visited : SUBSET Tasks]
    BY <1>4, OpKinds DEF AddVisit
  <2>2. PICK n \in op[p].queue :
            op' = [op EXCEPT ![p].visited = @ \cup {n}, ![p].queue = Queued(p, n)]
    BY <1>4 DEF AddVisit
  <2>3. Queued(p, n) \subseteq Tasks
    BY <2>1 DEF Queued, Prerequisites
  <2> DEFINE q == Queued(p, n)
  <2>4. q \in SUBSET Tasks /\ op' = [op EXCEPT ![p].visited = @ \cup {n}, ![p].queue = q]
    BY <2>2, <2>3
  <2> HIDE DEF q
  <2>5. op'[p] = [op[p] EXCEPT !.visited = @ \cup {n}, !.queue = q]
    BY <2>4
  <2>6. op'[p] \in [kind : {"add"}, task : Tasks, on : Tasks,
                    queue : SUBSET Tasks, visited : SUBSET Tasks]
    BY <2>1, <2>4, <2>5
  <2>7. op' \in [Procs -> Op]
    BY <2>4, <2>6 DEF Op
  <2>8. QED
    BY <1>4, <2>7 DEF AddVisit
<1>5. ASSUME NEW p \in Procs, AddInsert(p) PROVE TypeOK'
  <2>1. op[p].task \in Tasks /\ op[p].on \in Tasks
    BY <1>5, OpKinds DEF AddInsert
  <2>2. QED
    BY <1>1, <1>5, <2>1 DEF AddInsert, Insertable
<1>6. ASSUME NEW p \in Procs, AnnounceUnblocked(p) PROVE TypeOK'
  BY <1>1, <1>6 DEF AnnounceUnblocked
<1>7. ASSUME NEW p \in Procs, Claim(p) PROVE TypeOK'
  BY <1>7 DEF Claim, Startable, Statuses
<1>8. ASSUME NEW p \in Procs, NEW t \in Tasks, Complete(p, t) PROVE TypeOK'
  <2>1. op' \in [Procs -> Op]
    BY <1>8 DEF Complete, Op
  <2>2. QED
    BY <1>8, <2>1 DEF Complete, Statuses, Unblocked, Dependents
<1>9. ASSUME NEW p \in Procs, NEW t \in Tasks, DeleteTask(p, t) PROVE TypeOK'
  BY <1>9 DEF DeleteTask, Cascade, Statuses
<1>10. ASSUME NEW p \in Procs, NEW t \in Tasks, Overwrites(p, t) PROVE TypeOK'
  BY <1>10, StatusIsSet DEF SetStatus, OwedAfter, TaskStatuses, Statuses
<1>11. ASSUME NEW p \in Procs, NEW t \in Tasks, NEW d \in Tasks, AddBegin(p, t, d)
       PROVE  TypeOK'
  <2>1. op' \in [Procs -> Op]
    BY <1>11 DEF AddBegin, Op
  <2>2. QED
    BY <1>11, <2>1 DEF AddBegin
<1>12. ASSUME NEW p \in Procs, NEW t \in Tasks, NEW d \in Tasks, RemoveDependency(p, t, d)
       PROVE  TypeOK'
  BY <1>12 DEF RemoveDependency
<1>13. ASSUME NEW p \in Procs, NEW t \in Tasks, NEW d \in Tasks, ImportDependency(p, t, d)
       PROVE  TypeOK'
  BY <1>13 DEF ImportDependency, Insertable
<1>14. ASSUME NEW p \in Procs, NEW t \in Tasks, NEW d \in Tasks, Merge(p, t, d)
       PROVE  TypeOK'
  BY <1>14 DEF Merge, Moved, Statuses
<1>15. ASSUME NEW p \in Procs, NEW t \in Tasks, NEW d \in Tasks, Decompose(p, t, d)
       PROVE  TypeOK'
  BY <1>15 DEF Decompose, Statuses
<1>16. QED
  BY <1>2, <1>3, <1>4, <1>5, <1>6, <1>7, <1>8, <1>9, <1>10, <1>11, <1>12, <1>13,
     <1>14, <1>15 DEF Next, Continue, Overwrites

\* Rows and half-done calls keep their types, and no edge outlives the rows it joins
\* (the foreign keys of task_dependencies).
THEOREM TypeCorrect == Spec => []TypeOK
  BY TypeInit, TypeStep, PTL DEF Spec
-----------------------------------------------------------------------------
(***************************************************************************)
(* The graph stays acyclic.                                                *)
(***************************************************************************)

\* Which calls write what: the graph only loses edges, or gains the one edge of a
\* finished walk, or the one edge between two rows that were not there.
LEMMA GraphStep ==
    ASSUME TypeOK, OneAdder, AddersWalk, [Next]_vars
    PROVE  \/ deps' \subseteq deps /\ UNCHANGED status
           \/ deps' \subseteq deps /\ \E t \in Tasks, s \in Statuses \ {"absent"} :
                 status' = [status EXCEPT ![t] = s]
           \/ \E p \in Procs : AddInsert(p)
           \/ \E p \in Procs, t, d \in Tasks : Decompose(p, t, d)
<1>1. ASSUME NEW p \in Procs, NEW t \in Tasks, NEW d \in Tasks,
             ImportDependency(p, t, d) \/ Merge(p, t, d)
      PROVE  FALSE
  BY <1>1 DEF ImportDependency, Merge, Calling, OneAdder
<1>2. ASSUME NEW p \in Procs, NEW t \in Tasks,
             Complete(p, t) \/ DeleteTask(p, t) \/ Overwrites(p, t)
      PROVE  /\ deps' \subseteq deps
             /\ \E u \in Tasks, s \in Statuses \ {"absent"} :
                   status' = [status EXCEPT ![u] = s]
  <2>1. CASE Complete(p, t) \/ DeleteTask(p, t)
    BY <2>1 DEF Complete, DeleteTask, Cascade, Statuses
  <2>2. CASE Overwrites(p, t)
    BY <2>2, StatusIsSet DEF SetStatus, TaskStatuses, Statuses
  <2>3. QED
    BY <1>2, <2>1, <2>2
<1>3. ASSUME NEW p \in Procs, Claim(p)
      PROVE  /\ deps' \subseteq deps
             /\ \E u \in Tasks, s \in Statuses \ {"absent"} :
                   status' = [status EXCEPT ![u] = s]
  BY <1>3 DEF Claim, Statuses
<1>4. ASSUME NEW p \in Procs, NEW t \in Tasks, NEW d \in Tasks,
             AddBegin(p, t, d) \/ RemoveDependency(p, t, d)
      PROVE  deps' \subseteq deps /\ UNCHANGED status
  BY <1>4 DEF AddBegin, RemoveDependency
<1>5. ASSUME NEW p \in Procs, AddRefuse(p) \/ AddVisit(p) \/ AnnounceUnblocked(p)
      PROVE  deps' \subseteq deps /\ UNCHANGED status
  BY <1>5 DEF AddRefuse, AddVisit, AnnounceUnblocked
<1>6. CASE UNCHANGED vars
  BY <1>6 DEF vars
<1>7. QED
  BY <1>1, <1>2, <1>3, <1>4, <1>5, <1>6 DEF Next, Continue, Overwrites

LEMMA AddersStep ==
    ASSUME TypeOK, AddersWalk, [Next]_vars
    PROVE  AddersWalk'
<1> USE DEF AddersWalk
<1>1. op \in [Procs -> Op]
  BY DEF TypeOK
<1>2. ASSUME NEW p \in Procs, Done(p)
      PROVE  AddersWalk'
  BY <1>1, <1>2, IdleKind DEF Done
<1>3. CASE op' = op
  BY <1>3
<1>4. ASSUME NEW p \in Procs, AddVisit(p)
      PROVE  AddersWalk'
  <2>1. op[p].kind = "add"
    BY <1>4 DEF AddVisit
  <2>2. op' \in [Procs -> Op] /\ \A q \in Procs : q # p => op'[q] = op[q]
    BY <1>1, <1>4, TypeStep DEF AddVisit, TypeOK
  <2>3. QED
    BY <2>1, <2>2
<1>5. ASSUME NEW p \in Procs, NEW t \in Tasks, Complete(p, t)
      PROVE  AddersWalk'
  BY <1>1, <1>5 DEF Complete
<1>6. ASSUME NEW p \in Procs, NEW t \in Tasks, NEW d \in Tasks, AddBegin(p, t, d)
      PROVE  AddersWalk'
  BY <1>1, <1>6 DEF AddBegin, Calling
<1>7. QED
  BY <1>2, <1>3, <1>4, <1>5, <1>6 DEF Next, Continue, vars, AddRefuse, AddInsert,
     AnnounceUnblocked, Claim, DeleteTask, Fail, Update, SetStatus, RemoveDependency,
     ImportDependency, Merge, Decompose

\* What the others do leaves a walk as it was: rows stay, and an edge that is new
\* starts at a row that was not there.
LEMMA WalkSurvives ==
    ASSUME TypeOK, WalkInv, NEW p \in Procs, op'[p] = op[p],
           \A t \in Tasks : status[t] # "absent" => status'[t] # "absent",
           \A e \in deps' : e \in deps \/ status[e[1]] = "absent",
           op[p].kind = "add"
    PROVE  /\ \A n \in op[p].visited \cup op[p].queue : status'[n] # "absent"
           /\ \A n \in op[p].visited :
                 Prerequisites(n)' \subseteq op[p].visited \cup op[p].queue
<1>1. op[p].visited \subseteq Tasks /\ op[p].queue \subseteq Tasks
  BY OpKinds DEF TypeOK
<1>2. \A n \in op[p].visited : Prerequisites(n)' \subseteq Prerequisites(n)
  BY <1>1 DEF WalkInv, Prerequisites
<1>3. QED
  BY <1>1, <1>2 DEF WalkInv

LEMMA WalkStep ==
    ASSUME TypeOK, OneAdder, AddersWalk, WalkInv, [Next]_vars
    PROVE  WalkInv'
<1> SUFFICES ASSUME NEW p \in Procs, op'[p].kind = "add"
             PROVE  /\ op'[p].task \notin op'[p].visited
                    /\ op'[p].on \in op'[p].visited \cup op'[p].queue
                    /\ \A n \in op'[p].visited \cup op'[p].queue : status'[n] # "absent"
                    /\ \A n \in op'[p].visited :
                          Prerequisites(n)' \subseteq op'[p].visited \cup op'[p].queue
  BY DEF WalkInv
<1>1. op \in [Procs -> Op] /\ status \in [Tasks -> Statuses]
  BY DEF TypeOK
<1>2. CASE op'[p] = op[p]
  <2>1. ASSUME NEW q \in Procs, AddInsert(q)
        PROVE  q = p
    BY <1>2, <2>1 DEF AddInsert, AddersWalk, OneAdder
  <2>2. ~ \E q \in Procs : AddInsert(q)
    <3>1. ~ AddInsert(p)
      BY <1>1, <1>2, IdleKind DEF AddInsert, Done
    <3>2. QED
      BY <2>1, <3>1
  <2>3. /\ \A t \in Tasks : status[t] # "absent" => status'[t] # "absent"
        /\ \A e \in deps' : e \in deps \/ status[e[1]] = "absent"
    <3>1. ASSUME NEW q \in Procs, NEW t \in Tasks, NEW d \in Tasks, Decompose(q, t, d)
          PROVE  /\ \A u \in Tasks : status[u] # "absent" => status'[u] # "absent"
                 /\ \A e \in deps' : e \in deps \/ status[e[1]] = "absent"
      BY <1>1, <3>1 DEF Decompose
    <3>2. QED
      BY <1>1, <2>2, <3>1, GraphStep
  <2>4. QED
    BY <1>2, <2>3, WalkSurvives DEF WalkInv
<1>3. CASE op'[p] # op[p]
  <2>1. \/ AddVisit(p)
        \/ \E t, d \in Tasks : AddBegin(p, t, d)
    <3>1. ASSUME NEW q \in Procs, Done(q)
          PROVE  FALSE
      BY <1>1, <1>3, <3>1, IdleKind DEF Done
    <3>2. ASSUME NEW q \in Procs, NEW t \in Tasks, Complete(q, t)
          PROVE  FALSE
      BY <1>1, <1>3, <3>2 DEF Complete
    <3>3. op' # op
      BY <1>3
    <3>4. ASSUME NEW q \in Procs, AddVisit(q)
          PROVE  q = p
      BY <1>1, <1>3, <3>4 DEF AddVisit
    <3>5. ASSUME NEW q \in Procs, NEW t \in Tasks, NEW d \in Tasks, AddBegin(q, t, d)
          PROVE  q = p
      BY <1>1, <1>3, <3>5 DEF AddBegin
    <3>6. QED
      BY <3>1, <3>2, <3>3, <3>4, <3>5 DEF Next, Continue, vars, AddRefuse, AddInsert,
         AnnounceUnblocked, Claim, DeleteTask, Fail, Update, SetStatus, RemoveDependency,
         ImportDependency, Merge, Decompose
  <2>2. CASE AddVisit(p)
    <3>1. PICK n \in op[p].queue :
              /\ n # op[p].task
              /\ op' = [op EXCEPT ![p].visited = @ \cup {n}, ![p].queue = Queued(p, n)]
      BY <2>2 DEF AddVisit, Reached
    <3>2. op[p] \in [kind : {"add"}, task : Tasks, on : Tasks,
                     queue : SUBSET Tasks, visited : SUBSET Tasks]
      BY <1>1, <2>2, OpKinds DEF AddVisit
    <3> DEFINE q == Queued(p, n)
    <3>3. op' = [op EXCEPT ![p].visited = @ \cup {n}, ![p].queue = q]
      BY <3>1
    <3>4. /\ q \cup op[p].visited \cup {n}
               = op[p].queue \cup op[p].visited \cup Prerequisites(n)
          /\ Prerequisites(n) \subseteq Tasks
      BY <3>1 DEF Queued, Prerequisites
    <3> HIDE DEF q
    <3>5. op'[p] = [op[p] EXCEPT !.visited = @ \cup {n}, !.queue = q]
      BY <1>1, <3>3
    <3>6. /\ op'[p].visited = op[p].visited \cup {n} /\ op'[p].queue = q
          /\ op'[p].task = op[p].task /\ op'[p].on = op[p].on
      BY <3>2, <3>5
    <3>7. /\ op[p].kind = "add" /\ UNCHANGED <<status, deps>>
      BY <2>2 DEF AddVisit
    <3>8. \A m \in Prerequisites(n) : status[m] # "absent"
      BY DEF Prerequisites, TypeOK
    <3>9. \A m : Prerequisites(m)' = Prerequisites(m)
      BY <3>7 DEF Prerequisites
    <3>10. QED
      BY <3>1, <3>4, <3>6, <3>7, <3>8, <3>9 DEF WalkInv
  <2>3. CASE \E t, d \in Tasks : AddBegin(p, t, d)
    <3>1. PICK t \in Tasks, d \in Tasks : AddBegin(p, t, d)
      BY <2>3
    <3>2. op'[p] = [kind |-> "add", task |-> t, on |-> d, queue |-> {d}, visited |-> {}]
      BY <1>1, <3>1 DEF AddBegin
    <3>3. status' = status /\ status[d] # "absent"
      BY <3>1 DEF AddBegin
    <3>4. QED
      BY <3>2, <3>3
  <2>4. QED
    BY <2>1, <2>2, <2>3
<1>4. QED
  BY <1>2, <1>3

LEMMA FewerEdges ==
    ASSUME Acyclic, deps' \subseteq deps
    PROVE  Acyclic'
  BY DEF Acyclic

\* An edge out of a task that what was visited does not contain and does not lead
\* to closes no cycle.
LEMMA InsertKeepsAcyclic ==
    ASSUME TypeOK, WalkInv, Acyclic, NEW p \in Procs, AddInsert(p)
    PROVE  Acyclic'
<1> DEFINE o == op[p]
<1>1. o.task \notin o.visited /\ o.on \in o.visited
  BY DEF AddInsert, WalkInv
<1>2. \A n \in o.visited : \A d \in Tasks : <<n, d>> \in deps => d \in o.visited
  BY DEF AddInsert, WalkInv, Prerequisites
<1>3. o.visited \subseteq Tasks
  BY OpKinds DEF AddInsert, TypeOK
<1>4. deps' \subseteq deps \cup {<<o.task, o.on>>}
  BY DEF AddInsert
<1> HIDE DEF o
<1> SUFFICES ASSUME NEW group \in SUBSET Tasks, group # {}
             PROVE  \E t \in group : \A d \in group : <<t, d>> \notin deps'
  BY DEF Acyclic
<1>5. CASE group \cap o.visited = {}
  <2>1. PICK t \in group : \A d \in group : <<t, d>> \notin deps
    BY DEF Acyclic
  <2>2. \A d \in group : <<t, d>> \notin deps'
    BY <1>1, <1>4, <1>5, <2>1
  <2>3. QED
    BY <2>2
<1>6. CASE group \cap o.visited # {}
  <2>1. PICK t \in group \cap o.visited :
            \A d \in group \cap o.visited : <<t, d>> \notin deps
    BY <1>6 DEF Acyclic
  <2>2. \A d \in group : <<t, d>> \notin deps
    BY <1>2, <2>1
  <2>3. \A d \in group : <<t, d>> \notin deps'
    BY <1>1, <1>4, <2>1, <2>2
  <2>4. QED
    BY <2>1, <2>3
<1>7. QED
  BY <1>5, <1>6

\* Nor does an edge between two rows that were not there.
LEMMA DecomposeKeepsAcyclic ==
    ASSUME TypeOK, Acyclic, NEW p \in Procs, NEW s \in Tasks, NEW l \in Tasks,
           Decompose(p, s, l)
    PROVE  Acyclic'
<1>1. deps' = deps \cup {<<l, s>>} /\ s # l
  BY DEF Decompose
<1>2. \A d \in Tasks : <<s, d>> \notin deps
  BY DEF Decompose, TypeOK
<1> SUFFICES ASSUME NEW group \in SUBSET Tasks, group # {}
             PROVE  \E t \in group : \A d \in group : <<t, d>> \notin deps'
  BY DEF Acyclic
<1>3. CASE s \in group
  <2>1. \A d \in group : <<s, d>> \notin deps'
    BY <1>1, <1>2
  <2>2. QED
    BY <1>3, <2>1
<1>4. CASE s \notin group
  <2>1. PICK t \in group : \A d \in group : <<t, d>> \notin deps
    BY DEF Acyclic
  <2>2. \A d \in group : <<t, d>> \notin deps'
    BY <1>1, <1>4, <2>1
  <2>3. QED
    BY <2>2
<1>5. QED
  BY <1>3, <1>4

LEMMA AcyclicStep ==
    ASSUME TypeOK, OneAdder, AddersWalk, WalkInv, Acyclic, [Next]_vars
    PROVE  Acyclic'
  BY GraphStep, FewerEdges, InsertKeepsAcyclic, DecomposeKeepsAcyclic

\* The walks stay true to the graph, and the graph acyclic.
LEMMA WalksAndGraph ==
    ASSUME OneAdder PROVE Spec => [](TypeOK /\ AddersWalk /\ WalkInv /\ Acyclic)
<1> DEFINE Inv == TypeOK /\ AddersWalk /\ WalkInv /\ Acyclic
<1>1. Init => Inv
  <2> SUFFICES ASSUME Init PROVE Inv
    OBVIOUS
  <2>1. AddersWalk /\ WalkInv
    BY IdleKind DEF Init, AddersWalk, WalkInv
  <2>2. Acyclic
    BY DEF Init, Acyclic
  <2>3. QED
    BY TypeInit, <2>1, <2>2
<1>2. Inv /\ [Next]_vars => Inv'
  BY TypeStep, AddersStep, WalkStep, AcyclicStep
<1>3. QED
  BY <1>1, <1>2, PTL DEF Spec

LEMMA WalksAlways == ASSUME OneAdder PROVE Spec => []WalkInv
  BY WalksAndGraph, PTL

\* With one process adding edges, addDependency's walk over many statements keeps
\* the graph acyclic, whatever the others remove, delete, decompose or finish
\* between two of its statements.
THEOREM AcyclicAlways == ASSUME OneAdder PROVE Spec => []Acyclic
  BY WalksAndGraph, PTL

-----------------------------------------------------------------------------
(***************************************************************************)
(* The last completion announces the task.                                 *)
(***************************************************************************)

\* A task that is owed an announcement was created.
OwedExisted == \A t \in owed : status[t] # "absent"

LEMMA OwedStep ==
    ASSUME TypeOK, OwedExisted, [Next]_vars
    PROVE  OwedExisted'
<1>1. op \in [Procs -> Op] /\ status \in [Tasks -> Statuses] /\ owed \subseteq Tasks
  BY DEF TypeOK
<1>2. ASSUME NEW p \in Procs, Continue(p)
      PROVE  OwedExisted'
  BY <1>2 DEF Continue, AddRefuse, AddVisit, AddInsert, AnnounceUnblocked, OwedExisted
<1>3. ASSUME NEW p \in Procs, Claim(p)
      PROVE  OwedExisted'
  BY <1>1, <1>3 DEF Claim, OwedExisted
<1>4. ASSUME NEW p \in Procs, NEW t \in Tasks, Complete(p, t)
      PROVE  OwedExisted'
  BY <1>1, <1>4 DEF Complete, Unblocked, Dependents, OwedExisted
<1>5. ASSUME NEW p \in Procs, NEW t \in Tasks, DeleteTask(p, t) \/ Overwrites(p, t)
      PROVE  OwedExisted'
  <2>1. CASE DeleteTask(p, t)
    BY <1>1, <2>1 DEF DeleteTask, OwedExisted
  <2>2. CASE Overwrites(p, t)
    BY <1>1, <2>2, StatusIsSet DEF SetStatus, OwedAfter, TaskStatuses, OwedExisted
  <2>3. QED
    BY <1>5, <2>1, <2>2
<1>6. ASSUME NEW p \in Procs, NEW t \in Tasks, NEW d \in Tasks,
             AddBegin(p, t, d) \/ ImportDependency(p, t, d) \/ RemoveDependency(p, t, d)
      PROVE  OwedExisted'
  BY <1>6 DEF AddBegin, ImportDependency, RemoveDependency, OwedExisted
<1>7. ASSUME NEW p \in Procs, NEW t \in Tasks, NEW d \in Tasks, Decompose(p, t, d)
      PROVE  OwedExisted'
  BY <1>1, <1>7 DEF Decompose, OwedExisted
<1>8. ASSUME NEW p \in Procs, NEW t \in Tasks, NEW d \in Tasks, Merge(p, t, d)
      PROVE  OwedExisted'
  BY <1>1, <1>8 DEF Merge, OwedExisted
<1>9. CASE UNCHANGED vars
  BY <1>9 DEF vars, OwedExisted
<1>10. QED
  BY <1>2, <1>3, <1>4, <1>5, <1>6, <1>7, <1>8, <1>9 DEF Next, Overwrites

LEMMA CompleteAnnounces ==
    ASSUME TypeOK, LastCompletionAnnounces, NEW q \in Procs, NEW x \in Tasks, Complete(q, x)
    PROVE  LastCompletionAnnounces'
<1> SUFFICES ASSUME NEW t \in owed', status'[t] = "pending", Dispatchable(t)'
             PROVE  \E p \in Procs : op'[p].kind = "announce"
                                     /\ op'[p].task \in Prerequisites(t)'
  BY DEF LastCompletionAnnounces
<1>1. /\ op'[q] = [kind |-> "announce", task |-> x] /\ op[q] = Idle
      /\ \A p \in Procs : p # q => op'[p] = op[p]
      /\ status' = [status EXCEPT ![x] = "completed"]
      /\ deps' = deps /\ owed' = owed \cup Unblocked(x)
  BY DEF Complete, Calling, TypeOK
<1>2. Prerequisites(t)' = Prerequisites(t) /\ t \in Tasks
  BY <1>1 DEF Prerequisites, TypeOK, Unblocked, Dependents
<1>3. CASE x \in Prerequisites(t)
  BY <1>1, <1>2, <1>3
<1>4. CASE x \notin Prerequisites(t)
  <2>1. t \in owed /\ status[t] = "pending" /\ Dispatchable(t)
    BY <1>1, <1>2, <1>4 DEF Dispatchable, Unblocked, Dependents, Prerequisites, TypeOK
  <2>2. PICK p \in Procs : op[p].kind = "announce" /\ op[p].task \in Prerequisites(t)
    BY <2>1 DEF LastCompletionAnnounces
  <2>3. p # q
    BY <1>1, <2>2, IdleKind
  <2>4. QED
    BY <1>1, <1>2, <2>2, <2>3
<1>5. QED
  BY <1>3, <1>4

LEMMA AnnounceKeeps ==
    ASSUME TypeOK, LastCompletionAnnounces, NEW q \in Procs, AnnounceUnblocked(q)
    PROVE  LastCompletionAnnounces'
<1> SUFFICES ASSUME NEW t \in owed', status'[t] = "pending", Dispatchable(t)'
             PROVE  \E p \in Procs : op'[p].kind = "announce"
                                     /\ op'[p].task \in Prerequisites(t)'
  BY DEF LastCompletionAnnounces
<1>1. /\ UNCHANGED <<status, deps>> /\ owed' = owed \ Unblocked(op[q].task)
      /\ \A p \in Procs : p # q => op'[p] = op[p]
  BY DEF AnnounceUnblocked, Done, Announced, TypeOK
<1>2. /\ t \in owed /\ t \in Tasks /\ t \notin Unblocked(op[q].task)
      /\ status[t] = "pending" /\ Dispatchable(t) /\ Prerequisites(t)' = Prerequisites(t)
  BY <1>1 DEF Dispatchable, Prerequisites, TypeOK
<1>3. PICK p \in Procs : op[p].kind = "announce" /\ op[p].task \in Prerequisites(t)
  BY <1>2 DEF LastCompletionAnnounces
<1>4. p # q
  BY <1>2, <1>3 DEF Unblocked, Dependents, Prerequisites, Dispatchable
<1>5. QED
  BY <1>1, <1>2, <1>3, <1>4

\* Whoever loses an edge, or the task it depended on, is owed nothing any more.
LEMMA LosingKeeps ==
    ASSUME TypeOK, LastCompletionAnnounces, op' = op, owed' \subseteq owed,
           \A t \in owed' : Prerequisites(t)' = Prerequisites(t),
           \A t \in owed' : status'[t] = "pending" => status[t] = "pending",
           \A t \in Tasks : status'[t] \in Finished => status[t] \in Finished
    PROVE  LastCompletionAnnounces'
<1> SUFFICES ASSUME NEW t \in owed', status'[t] = "pending", Dispatchable(t)'
             PROVE  \E p \in Procs : op'[p].kind = "announce"
                                     /\ op'[p].task \in Prerequisites(t)'
  BY DEF LastCompletionAnnounces
<1>1. Dispatchable(t)
  BY DEF Dispatchable, Prerequisites
<1>2. PICK p \in Procs : op[p].kind = "announce" /\ op[p].task \in Prerequisites(t)
  BY <1>1 DEF LastCompletionAnnounces
<1>3. QED
  BY <1>2

\* Where statuses and edges change, only those stay owed whose edges, and whose
\* prerequisites' being finished or not, are as they were.
LEMMA OverwriteKeeps ==
    ASSUME TypeOK, LastCompletionAnnounces, NEW p \in Procs, NEW x \in Tasks, Overwrites(p, x)
    PROVE  LastCompletionAnnounces'
<1>1. PICK s \in TaskStatuses : SetStatus(x, s)
  BY StatusIsSet
<1>2. /\ status' = [status EXCEPT ![x] = s] /\ deps' = deps /\ op' = op
      /\ owed' = OwedAfter(x, s)
      /\ status \in [Tasks -> Statuses] /\ owed \subseteq Tasks
  BY <1>1 DEF SetStatus, TypeOK
<1>3. ASSUME NEW t \in owed', status'[t] = "pending", Dispatchable(t)'
      PROVE  \E q \in Procs : op'[q].kind = "announce" /\ op'[q].task \in Prerequisites(t)'
  <2>1. t \in owed /\ t \in Tasks /\ Prerequisites(t)' = Prerequisites(t)
    BY <1>2, <1>3 DEF OwedAfter, Prerequisites
  <2>2. status[t] = "pending"
    BY <1>2, <1>3, <2>1 DEF OwedAfter
  <2>3. x \in Prerequisites(t) => (s \in Finished <=> status[x] \in Finished)
    BY <1>2, <1>3, <2>1 DEF OwedAfter, Dependents, Prerequisites
  <2>4. Dispatchable(t)
    BY <1>2, <1>3, <2>1, <2>3 DEF Dispatchable, Prerequisites
  <2>5. QED
    BY <1>2, <2>1, <2>2, <2>4 DEF LastCompletionAnnounces
<1>4. QED
  BY <1>3 DEF LastCompletionAnnounces

LEMMA MergeKeeps ==
    ASSUME TypeOK, LastCompletionAnnounces,
           NEW p \in Procs, NEW x \in Tasks, NEW d \in Tasks, Merge(p, x, d)
    PROVE  LastCompletionAnnounces'
<1>1. /\ status' = [status EXCEPT ![d] = "cancelled"] /\ deps' = Moved(x, d) /\ op' = op
      /\ owed' = owed \ ({d} \cup Dependents(d)) /\ x # d
      /\ status \in [Tasks -> Statuses] /\ owed \subseteq Tasks
      /\ deps \subseteq Tasks \X Tasks
  BY DEF Merge, TypeOK
<1>2. ASSUME NEW t \in owed', status'[t] = "pending", Dispatchable(t)'
      PROVE  \E q \in Procs : op'[q].kind = "announce" /\ op'[q].task \in Prerequisites(t)'
  <2>1. t \in owed /\ t \in Tasks /\ t # d /\ status[t] = "pending" /\ d \notin Prerequisites(t)
    BY <1>1, <1>2 DEF Dependents, Prerequisites
  <2>2. ASSUME NEW u \in Prerequisites(t) PROVE u \in Prerequisites(t)'
    <3>1. <<t, u>> \in deps /\ u \in Tasks /\ u # d
      BY <2>1, <2>2 DEF Prerequisites
    <3>2. t # u
      BY <3>1 DEF TypeOK
    <3>3. QED
      BY <1>1, <2>1, <3>1, <3>2 DEF Moved, Prerequisites
  <2>3. Dispatchable(t)
    BY <1>1, <1>2, <2>1, <2>2 DEF Dispatchable, Prerequisites
  <2>4. QED
    BY <1>1, <2>1, <2>2, <2>3 DEF LastCompletionAnnounces
<1>3. QED
  BY <1>2 DEF LastCompletionAnnounces

LEMMA RemoveKeeps ==
    ASSUME TypeOK, LastCompletionAnnounces,
           NEW p \in Procs, NEW x \in Tasks, NEW d \in Tasks, RemoveDependency(p, x, d)
    PROVE  LastCompletionAnnounces'
<1>1. /\ deps' = deps \ {<<x, d>>} /\ owed' = owed \ {x} /\ UNCHANGED <<status, op>>
  BY DEF RemoveDependency
<1>2. ASSUME NEW t \in owed' PROVE Prerequisites(t)' = Prerequisites(t)
  BY <1>1, <1>2 DEF Prerequisites
<1>3. QED
  BY <1>1, <1>2, LosingKeeps

LEMMA DeleteKeeps ==
    ASSUME TypeOK, LastCompletionAnnounces, NEW p \in Procs, NEW x \in Tasks, DeleteTask(p, x)
    PROVE  LastCompletionAnnounces'
<1>1. /\ status' = [status EXCEPT ![x] = "deleted"] /\ deps' = Cascade(x)
      /\ owed' = owed \ Dependents(x) /\ op' = op
      /\ status \in [Tasks -> Statuses] /\ owed \subseteq Tasks
  BY DEF DeleteTask, TypeOK
<1> SUFFICES ASSUME NEW t \in owed', status'[t] = "pending", Dispatchable(t)'
             PROVE  \E q \in Procs : op'[q].kind = "announce"
                                     /\ op'[q].task \in Prerequisites(t)'
  BY DEF LastCompletionAnnounces
<1>2. t # x /\ t \in owed /\ t \in Tasks /\ x \notin Prerequisites(t) /\ status[t] = "pending"
  BY <1>1 DEF Dependents, Prerequisites
<1>3. Prerequisites(t)' = Prerequisites(t)
  BY <1>1, <1>2 DEF Prerequisites, Cascade
<1>4. Dispatchable(t)
  BY <1>1, <1>2, <1>3 DEF Dispatchable, Prerequisites
<1>5. QED
  BY <1>1, <1>2, <1>3, <1>4 DEF LastCompletionAnnounces

\* The subtasks are new and wait in a row, so nobody owes them anything.
LEMMA DecomposeKeeps ==
    ASSUME TypeOK, OwedExisted, LastCompletionAnnounces,
           NEW p \in Procs, NEW x \in Tasks, NEW y \in Tasks, Decompose(p, x, y)
    PROVE  LastCompletionAnnounces'
<1>1. /\ status' = [status EXCEPT ![x] = "pending", ![y] = "pending"]
      /\ deps' = deps \cup {<<y, x>>} /\ UNCHANGED <<op, owed>>
      /\ status[x] = "absent" /\ status[y] = "absent"
      /\ status \in [Tasks -> Statuses]
  BY DEF Decompose, TypeOK
<1>2. x \notin owed /\ y \notin owed
  BY <1>1 DEF OwedExisted
<1>3. ASSUME NEW t \in owed'
      PROVE  /\ Prerequisites(t)' = Prerequisites(t)
             /\ status'[t] = "pending" => status[t] = "pending"
  BY <1>1, <1>2, <1>3 DEF Prerequisites, TypeOK
<1>4. ASSUME NEW t \in Tasks, status'[t] \in Finished
      PROVE  status[t] \in Finished
  BY <1>1, <1>4 DEF Finished
<1>5. QED
  BY <1>1, <1>3, <1>4, LosingKeeps

\* Everything else makes no task ready and ends no announcement.
LEMMA OthersKeep ==
    ASSUME TypeOK, LastCompletionAnnounces, deps \subseteq deps', owed' = owed,
           \A p \in Procs : op[p].kind = "announce" => op'[p] = op[p],
           \A t \in Tasks : /\ status'[t] = "pending" => status[t] = "pending"
                            /\ status'[t] \in Finished => status[t] \in Finished
    PROVE  LastCompletionAnnounces'
<1> SUFFICES ASSUME NEW t \in owed, status'[t] = "pending", Dispatchable(t)'
             PROVE  \E p \in Procs : op'[p].kind = "announce"
                                     /\ op'[p].task \in Prerequisites(t)'
  BY DEF LastCompletionAnnounces
<1>1. Prerequisites(t) \subseteq Prerequisites(t)' /\ t \in Tasks
  BY DEF Prerequisites, TypeOK
<1>2. Dispatchable(t)
  BY <1>1 DEF Dispatchable, Prerequisites
<1>3. PICK p \in Procs : op[p].kind = "announce" /\ op[p].task \in Prerequisites(t)
  BY <1>1, <1>2 DEF LastCompletionAnnounces
<1>4. QED
  BY <1>1, <1>3

LEMMA AnnounceStep ==
    ASSUME TypeOK, OwedExisted, LastCompletionAnnounces, [Next]_vars
    PROVE  LastCompletionAnnounces'
<1>1. op \in [Procs -> Op] /\ status \in [Tasks -> Statuses]
  BY DEF TypeOK
<1>2. ASSUME NEW p \in Procs, Continue(p), ~AnnounceUnblocked(p)
      PROVE  LastCompletionAnnounces'
  <2>1. op[p].kind # "announce" /\ \A q \in Procs : q # p => op'[q] = op[q]
    BY <1>1, <1>2 DEF Continue, AddRefuse, AddVisit, AddInsert, Done
  <2>2. deps \subseteq deps' /\ UNCHANGED <<status, owed>>
    BY <1>2 DEF Continue, AddRefuse, AddVisit, AddInsert
  <2>3. QED
    BY <2>1, <2>2, OthersKeep
<1>3. ASSUME NEW p \in Procs, Claim(p)
      PROVE  LastCompletionAnnounces'
  BY <1>1, <1>3, OthersKeep DEF Claim, Startable, Finished
<1>4. ASSUME NEW p \in Procs, NEW t \in Tasks, Overwrites(p, t)
      PROVE  LastCompletionAnnounces'
  BY <1>4, OverwriteKeeps
<1>5. ASSUME NEW p \in Procs, NEW t \in Tasks, NEW d \in Tasks,
             AddBegin(p, t, d) \/ ImportDependency(p, t, d)
      PROVE  LastCompletionAnnounces'
  <2>1. op[p] = Idle /\ \A q \in Procs : q # p => op'[q] = op[q]
    BY <1>1, <1>5 DEF AddBegin, ImportDependency, Calling
  <2>2. deps \subseteq deps' /\ UNCHANGED <<status, owed>>
    BY <1>5 DEF AddBegin, ImportDependency
  <2>3. QED
    BY <2>1, <2>2, OthersKeep, IdleKind
<1>6. ASSUME NEW p \in Procs, NEW t \in Tasks, NEW d \in Tasks,
             Merge(p, t, d)
      PROVE  LastCompletionAnnounces'
  BY <1>6, MergeKeeps
<1>7. CASE UNCHANGED vars
  BY <1>7, OthersKeep DEF vars
<1>8. QED
  BY <1>2, <1>3, <1>4, <1>5, <1>6, <1>7, AnnounceKeeps, CompleteAnnounces, RemoveKeeps,
     DeleteKeeps, DecomposeKeeps DEF Next, Continue, Overwrites

\* However the completions of its prerequisites interleave, with each other and with
\* every other call, somebody announces a task that completeTask made ready.
THEOREM LastCompletionAnnouncesAlways == Spec => []LastCompletionAnnounces
<1>1. Init => OwedExisted /\ LastCompletionAnnounces
  BY DEF Init, OwedExisted, LastCompletionAnnounces
<1>2. TypeOK /\ OwedExisted /\ LastCompletionAnnounces /\ [Next]_vars
         => OwedExisted' /\ LastCompletionAnnounces'
  BY OwedStep, AnnounceStep
<1>3. QED
  BY <1>1, <1>2, TypeCorrect, PTL DEF Spec

-----------------------------------------------------------------------------
(***************************************************************************)
(* What an acyclic graph is good for: no chain of prerequisites closes,    *)
(* and there is always something to work on.                               *)
(***************************************************************************)

\* Along no chain of prerequisites, however long, does a task come back to itself.
NoClosedChain ==
    \A n \in Nat \ {0} : \A f \in [0..n -> Tasks] :
        (\A i \in 0..(n - 1) : <<f[i], f[i + 1]>> \in deps) => f[0] # f[n]

LEMMA AcyclicChains == Acyclic => NoClosedChain
<1> SUFFICES ASSUME Acyclic, NEW n \in Nat \ {0}, NEW f \in [0..n -> Tasks],
                    \A i \in 0..(n - 1) : <<f[i], f[i + 1]>> \in deps,
                    f[0] = f[n]
             PROVE  FALSE
  BY DEF NoClosedChain
<1> DEFINE group == {f[i] : i \in 0..n}
<1>1. group \subseteq Tasks /\ f[0] \in group
  OBVIOUS
<1>2. PICK t \in group : \A d \in group : <<t, d>> \notin deps
  BY <1>1 DEF Acyclic
<1>3. PICK i \in 0..n : t = f[i]
  BY <1>2
<1>4. CASE i < n
  <2>1. i \in 0..(n - 1) /\ f[i + 1] \in group
    BY <1>4
  <2>2. QED
    BY <1>2, <1>3, <2>1
<1>5. CASE i = n
  <2>1. 0 \in 0..(n - 1) /\ f[0 + 1] \in group /\ t = f[0]
    BY <1>3, <1>5
  <2>2. QED
    BY <1>2, <2>1
<1>6. QED
  BY <1>4, <1>5

\* With one process adding edges, no task waits for itself along any chain of
\* prerequisites: wouldCreateCycle looks for no more than a path, and that is enough.
THEOREM NoTaskWaitsForItself == ASSUME OneAdder PROVE Spec => []NoClosedChain
  BY AcyclicAlways, AcyclicChains, PTL

\* Nobody writes a status but by claiming and completing.
OnlyWork == \A p \in Procs : Calls[p] \cap {"update", "fail"} = {}

\* The statuses left are those of work that goes on.
WorkStatuses == \A t \in Tasks : status[t] \notin {"cancelled", "failed"}

LEMMA WorkStatusesStep ==
    ASSUME TypeOK, OneAdder, OnlyWork, WorkStatuses, [Next]_vars
    PROVE  WorkStatuses'
<1> USE DEF TypeOK, WorkStatuses
<1>1. CASE UNCHANGED status
  BY <1>1
<1>2. ASSUME NEW p \in Procs, NEW t \in Tasks, NEW d \in Tasks,
             Merge(p, t, d) \/ Overwrites(p, t)
      PROVE  FALSE
  BY <1>2 DEF Merge, Overwrites, Fail, Update, Calling, OneAdder, OnlyWork
<1>3. ASSUME NEW p \in Procs, Claim(p) PROVE WorkStatuses'
  BY <1>3 DEF Claim
<1>4. ASSUME NEW p \in Procs, NEW t \in Tasks, Complete(p, t) \/ DeleteTask(p, t)
      PROVE  WorkStatuses'
  BY <1>4 DEF Complete, DeleteTask
<1>5. ASSUME NEW p \in Procs, NEW t \in Tasks, NEW d \in Tasks, Decompose(p, t, d)
      PROVE  WorkStatuses'
  BY <1>5 DEF Decompose
<1>6. QED
  BY <1>1, <1>2, <1>3, <1>4, <1>5
     DEF Next, Continue, AddRefuse, AddVisit, AddInsert, AnnounceUnblocked, AddBegin,
         RemoveDependency, ImportDependency, Overwrites, vars

LEMMA SomethingToDo ==
    ASSUME TypeOK, Acyclic, WorkStatuses
    PROVE  NeverStuck
<1> SUFFICES ASSUME \E t \in Tasks : Exists(t) /\ status[t] # "completed",
                    \A t \in Tasks : status[t] # "in_progress"
             PROVE  \E t \in Tasks : Startable(t)
  BY DEF NeverStuck
<1> DEFINE waiting == {t \in Tasks : status[t] = "pending"}
<1>1. \A t \in Tasks : status[t] \in {"pending", "completed", "absent", "deleted"}
  BY DEF TypeOK, Statuses, WorkStatuses
<1>2. waiting \subseteq Tasks /\ waiting # {}
  BY <1>1
<1>3. PICK t \in waiting : \A d \in waiting : <<t, d>> \notin deps
  BY <1>2 DEF Acyclic
<1>4. ASSUME NEW d \in Prerequisites(t) PROVE status[d] = "completed"
  <2>1. d \in Tasks /\ Exists(d)
    BY DEF Prerequisites, TypeOK
  <2>2. d \notin waiting
    BY <1>3 DEF Prerequisites
  <2>3. QED
    BY <1>1, <2>1, <2>2
<1>5. Startable(t)
  BY <1>3, <1>4 DEF Startable
<1>6. QED
  BY <1>3, <1>5

\* The core of EverythingFinishes, of any tasks and processes: as long as nobody
\* updates or fails tasks and one process adds edges, an unfinished task means that
\* one is in hand or the next claim finds one, whatever is deleted under it.
THEOREM NeverStuckAlways == ASSUME OneAdder, OnlyWork PROVE Spec => []NeverStuck
<1>1. Init => WorkStatuses
  BY DEF Init, WorkStatuses
<1>2. TypeOK /\ WorkStatuses /\ [Next]_vars => WorkStatuses'
  BY WorkStatusesStep
<1>3. TypeOK /\ Acyclic /\ WorkStatuses => NeverStuck
  BY SomethingToDo
<1>4. QED
  BY <1>1, <1>2, <1>3, TypeCorrect, AcyclicAlways, PTL DEF Spec

-----------------------------------------------------------------------------
(***************************************************************************)
(* Walks end.                                                              *)
(***************************************************************************)

\* What a walk is going to visit it has not visited.
WalksAhead == \A p \in Procs : op[p].kind = "add" => op[p].queue \cap op[p].visited = {}

\* A step of a process leaves the walk of another alone and moves its own.
LEMMA WalkMoves ==
    ASSUME TypeOK, [Next]_vars, NEW p \in Procs, op'[p].kind = "add", op'[p] # op[p]
    PROVE  \/ op[p] = Idle /\ op'[p].visited = {}
           \/ /\ op[p].kind = "add" /\ op'[p].visited \subseteq Tasks
              /\ \E n \in op[p].queue :
                   /\ op'[p].visited = op[p].visited \cup {n}
                   /\ op'[p].queue = Queued(p, n)
<1> USE DEF TypeOK
<1>1. ASSUME NEW q \in Procs, Done(q) PROVE FALSE
  BY <1>1, IdleKind DEF Done
<1>2. ASSUME NEW q \in Procs, NEW t \in Tasks, Complete(q, t) PROVE FALSE
  BY <1>2 DEF Complete
<1>3. op' # op
  OBVIOUS
<1>4. ASSUME NEW q \in Procs, NEW t \in Tasks, NEW d \in Tasks, AddBegin(q, t, d)
      PROVE  op[p] = Idle /\ op'[p].visited = {}
  BY <1>4 DEF AddBegin, Calling
<1>5. ASSUME NEW q \in Procs, AddVisit(q)
      PROVE  /\ op[p].kind = "add" /\ op'[p].visited \subseteq Tasks
             /\ \E n \in op[p].queue :
                   /\ op'[p].visited = op[p].visited \cup {n}
                   /\ op'[p].queue = Queued(p, n)
  <2>1. PICK n \in op[q].queue :
          op' = [op EXCEPT ![q].visited = @ \cup {n}, ![q].queue = Queued(q, n)]
    BY <1>5 DEF AddVisit
  <2>2. p = q
    BY <2>1
  <2>3. op[p] \in [kind : {"add"}, task : Tasks, on : Tasks,
                   queue : SUBSET Tasks, visited : SUBSET Tasks]
    BY <1>5, <2>2, OpKinds DEF AddVisit
  <2> DEFINE ahead == Queued(p, n)
  <2>4. op' = [op EXCEPT ![p].visited = @ \cup {n}, ![p].queue = ahead]
    BY <2>1, <2>2
  <2> HIDE DEF ahead
  <2>5. op'[p] = [op[p] EXCEPT !.visited = @ \cup {n}, !.queue = ahead]
    BY <2>4
  <2>6. op'[p].visited = op[p].visited \cup {n} /\ op'[p].queue = ahead
    BY <2>3, <2>5
  <2>7. QED
    BY <2>2, <2>3, <2>6 DEF ahead
<1>6. QED
  BY <1>1, <1>2, <1>3, <1>4, <1>5
     DEF Next, Continue, AddRefuse, AddInsert, AnnounceUnblocked, Claim, DeleteTask,
         Fail, Update, SetStatus, RemoveDependency, ImportDependency, Merge, Decompose, vars

LEMMA WalksAheadStep ==
    ASSUME TypeOK, WalksAhead, [Next]_vars
    PROVE  WalksAhead'
<1> SUFFICES ASSUME NEW p \in Procs, op'[p].kind = "add"
             PROVE  op'[p].queue \cap op'[p].visited = {}
  BY DEF WalksAhead
<1>1. CASE op'[p] = op[p]
  BY <1>1 DEF WalksAhead
<1>2. CASE op'[p] # op[p]
  BY <1>2, WalkMoves DEF Queued
<1>3. QED
  BY <1>1, <1>2

\* The core of AddReturns, of any finite set of tasks: each step of a walk leaves
\* fewer tasks to visit, whatever imports and merges make of the graph meanwhile.
THEOREM WalksGoForwardAlways == ASSUME IsFiniteSet(Tasks) PROVE Spec => WalksGoForward
<1>1. Init => WalksAhead
  BY IdleKind DEF Init, WalksAhead
<1>2. TypeOK /\ WalksAhead /\ [Next]_vars => WalksAhead'
  BY WalksAheadStep
<1>3. ASSUME TypeOK, WalksAhead, [Next]_vars, NEW p \in Procs,
             op[p].kind = "add", op'[p].kind = "add", op'[p] # op[p]
      PROVE  Unvisited(op'[p]) < Unvisited(op[p])
  <2>1. PICK n \in op[p].queue : op'[p].visited = op[p].visited \cup {n}
    BY <1>3, IdleKind, WalkMoves
  <2>2. n \in Tasks /\ n \notin op[p].visited
    BY <1>3, OpKinds DEF TypeOK, WalksAhead
  <2> DEFINE S == Tasks \ op[p].visited
  <2>3. Tasks \ op'[p].visited = S \ {n} /\ n \in S
    BY <2>1, <2>2
  <2> HIDE DEF S
  <2>4. IsFiniteSet(S)
    BY FS_Subset DEF S
  <2>5. Cardinality(S) \in Nat /\ Cardinality(S \ {n}) = Cardinality(S) - 1
    BY <2>3, <2>4, FS_CardinalityType, FS_RemoveElement
  <2>6. Unvisited(op'[p]) = Cardinality(S \ {n}) /\ Unvisited(op[p]) = Cardinality(S)
    BY <2>3 DEF Unvisited, S
  <2>7. QED
    BY <2>5, <2>6
<1>4. TypeOK /\ WalksAhead /\ [Next]_vars =>
        [\A p \in Procs : op[p].kind = "add" /\ op'[p].kind = "add" /\ op'[p] # op[p]
              => Unvisited(op'[p]) < Unvisited(op[p])]_vars
  BY <1>3
<1>5. QED
  BY <1>1, <1>2, <1>4, TypeCorrect, PTL DEF Spec, WalksGoForward

-----------------------------------------------------------------------------
(***************************************************************************)
(* addDependency implements the atomic check and insert of TaskDag.        *)
(***************************************************************************)

LEMMA InsertLinks ==
    ASSUME TypeOK, WalkInv, NEW p \in Procs, AddInsert(p)
    PROVE  [Dag!Next]_(Dag!vars)
<1> DEFINE t == op[p].task
           d == op[p].on
           nodes == {u \in Tasks : Exists(u)}
           S == op[p].visited \cap nodes
<1>1. /\ t \in Tasks /\ d \in Tasks /\ op[p].visited \subseteq Tasks
      /\ op[p].queue = {} /\ op[p].kind = "add" /\ UNCHANGED status
  BY OpKinds DEF AddInsert, TypeOK
<1>2. /\ t \notin op[p].visited /\ d \in op[p].visited
      /\ \A n \in op[p].visited : Prerequisites(n) \subseteq op[p].visited
  BY <1>1 DEF WalkInv
<1>3. CASE Insertable(t, d)
  <2>1. t \in nodes /\ d \in nodes /\ deps' = deps \cup {<<t, d>>}
    BY <1>1, <1>3 DEF AddInsert, Insertable
  <2>2. ASSUME NEW e \in deps, e[1] \in S PROVE e[2] \in S
    <3>1. e = <<e[1], e[2]>> /\ e[1] \in Tasks /\ e[2] \in Tasks /\ Exists(e[2])
      BY DEF TypeOK
    <3>2. e[2] \in Prerequisites(e[1])
      BY <3>1 DEF Prerequisites
    <3>3. QED
      BY <1>2, <2>2, <3>1, <3>2
  <2>3. S \in SUBSET nodes /\ d \in S /\ t \notin S
    BY <1>2, <2>1
  <2>4. Dag!LeadsAway(d, t)
    BY <2>2, <2>3 DEF Dag!LeadsAway
  <2>5. Dag!Link(t, d)
    BY <1>1, <2>1, <2>4 DEF Dag!Link
  <2>6. QED
    BY <2>1, <2>5 DEF Dag!Next
<1>4. CASE ~Insertable(t, d)
  BY <1>1, <1>4 DEF AddInsert, Dag!vars
<1>5. QED
  BY <1>3, <1>4

LEMMA DagStep ==
    ASSUME TypeOK, OneAdder, WalkInv, [Next]_vars
    PROVE  [Dag!Next]_(Dag!vars)
<1>1. CASE UNCHANGED <<status, deps>>
  BY <1>1 DEF Dag!vars
<1>2. ASSUME NEW p \in Procs, AddInsert(p) PROVE [Dag!Next]_(Dag!vars)
  BY <1>2, InsertLinks
<1>3. ASSUME NEW p \in Procs, NEW t \in Tasks, NEW d \in Tasks,
             ImportDependency(p, t, d) \/ Merge(p, t, d)
      PROVE  FALSE
  BY <1>3 DEF ImportDependency, Merge, Calling, OneAdder
<1>4. ASSUME NEW t \in Tasks, Exists(t), NEW s \in Statuses \ Gone,
             status' = [status EXCEPT ![t] = s], deps' = deps
      PROVE  UNCHANGED Dag!vars
  <2>1. \A u \in Tasks : /\ Exists(u)' <=> Exists(u)
                         /\ status'[u] # "absent" <=> status[u] # "absent"
    BY <1>4 DEF TypeOK
  <2>2. QED
    BY <1>4, <2>1 DEF Dag!vars
<1>5. ASSUME NEW p \in Procs, Claim(p) PROVE UNCHANGED Dag!vars
  <2>1. PICK t \in Tasks : Startable(t) /\ status' = [status EXCEPT ![t] = "in_progress"]
    BY <1>5 DEF Claim
  <2>2. Exists(t) /\ "in_progress" \in Statuses \ Gone
    BY <2>1 DEF Startable, Statuses
  <2>3. deps' = deps
    BY <1>5 DEF Claim
  <2>4. QED
    BY <1>4, <2>1, <2>2, <2>3
<1>6. ASSUME NEW p \in Procs, NEW t \in Tasks, Complete(p, t) \/ Overwrites(p, t)
      PROVE  UNCHANGED Dag!vars
  <2>1. CASE Complete(p, t)
    BY <1>4, <2>1 DEF Complete, Statuses
  <2>2. CASE Overwrites(p, t)
    BY <1>4, <2>2, StatusIsSet DEF SetStatus, TaskStatuses
  <2>3. QED
    BY <1>6, <2>1, <2>2
<1>7. ASSUME NEW p \in Procs, NEW t \in Tasks, DeleteTask(p, t) PROVE Dag!Remove(t)
  BY <1>7 DEF DeleteTask, Cascade, TypeOK, Dag!Remove
<1>8. ASSUME NEW p \in Procs, NEW t \in Tasks, NEW d \in Tasks, RemoveDependency(p, t, d)
      PROVE  Dag!Unlink
  BY <1>8 DEF RemoveDependency, Dag!Unlink
<1>9. ASSUME NEW p \in Procs, NEW first \in Tasks, NEW second \in Tasks,
             Decompose(p, first, second)
      PROVE  Dag!Split
  <2>1. /\ first # second /\ status[first] = "absent" /\ status[second] = "absent"
        /\ status' = [status EXCEPT ![first] = "pending", ![second] = "pending"]
        /\ deps' = deps \cup {<<second, first>>}
    BY <1>9 DEF Decompose
  <2>2. {t \in Tasks : Exists(t)}' = {t \in Tasks : Exists(t)} \cup {first, second}
    BY <2>1 DEF TypeOK
  <2>3. /\ {t \in Tasks : status[t] # "absent"}'
             = {t \in Tasks : status[t] # "absent"} \cup {first, second}
        /\ {first, second} \cap {t \in Tasks : status[t] # "absent"} = {}
    BY <2>1 DEF TypeOK
  <2>4. QED
    BY <2>1, <2>2, <2>3 DEF Dag!Split
<1>10. ASSUME NEW p \in Procs, NEW t \in Tasks, DeleteTask(p, t)
       PROVE  t \in {u \in Tasks : Exists(u)}
  BY <1>10 DEF DeleteTask
<1>11. QED
  BY <1>1, <1>2, <1>3, <1>5, <1>6, <1>7, <1>8, <1>9, <1>10
     DEF Next, Continue, vars, AddRefuse, AddVisit, AnnounceUnblocked, AddBegin, Overwrites, Dag!Next

\* With one process adding edges, addDependency's walk and insert take effect in one
\* step: when the edge goes in, no chain leads from the prerequisite back to the task.
THEOREM AddsImplementOneStep == ASSUME OneAdder PROVE Spec => AddsLikeOneStep
<1>1. Init => Dag!Init
  <2> SUFFICES ASSUME Init PROVE Dag!Init
    OBVIOUS
  <2>1. \A t \in Tasks : Exists(t) <=> status[t] # "absent"
    BY DEF Init
  <2>2. QED
    BY <2>1 DEF Init, Dag!Init
<1>2. TypeOK /\ WalkInv /\ [Next]_vars => [Dag!Next]_(Dag!vars)
  BY DagStep
<1>3. QED
  BY <1>1, <1>2, TypeCorrect, WalksAlways, PTL DEF Spec, AddsLikeOneStep, Dag!Spec
=============================================================================
