--------------------- MODULE ProjectRegistrationProofs ---------------------
(* Proofs about ProjectRegistration: receipts, bindings and rows agree, and  *)
(* an inverse removes only what it created, for any steps, sources, names,   *)
(* processes and versions and any limits.                                    *)
EXTENDS ProjectRegistration, TLAPS

-----------------------------------------------------------------------------
(* The inductive invariant *)

WasRegistered(i) ==
  \E b \in bindings : b.call.kind = "project" /\ b.state # "terminal" /\ b.object = i

(* What a plan promises until it is committed. *)
PlanOK(r, plan) ==
  /\ plan.do \in {"answer", "refuse", "accept", "remove"}
  /\ plan.object \in Nat /\ plan.reason \in Reasons
  /\ plan.do \in {"answer", "refuse"} => plan.outcome \in {"duplicate", "terminal"}
  /\ plan.do = "accept" =>
       /\ plan.outcome = "accepted" /\ r.dir = "forward"
       /\ r.kind = "task_list" => WasRegistered(r.target)
  /\ plan.do = "remove" =>
       /\ plan.outcome = "accepted" /\ r.dir = "inverse" /\ plan.object = r.target
       /\ {"row", "dependents"} \subseteq DOMAIN plan.seen
       /\ \A o \in plan.seen["row"] : ~o.edited
       /\ plan.seen["dependents"] = {}

CallOK(c) ==
  c # Idle =>
    /\ c.at \in {"resolve", "plan", "commit"}
    /\ c.request \in Request
    /\ c.failed \in BOOLEAN
    /\ c.plan.do \in {"none", "answer", "refuse", "accept", "remove"}
    /\ c.at = "commit" => PlanOK(c.request, c.plan)

CallsOK == \A p \in Procs : CallOK(call[p])

IdsAreFresh ==
  /\ \A o \in objects : o.id < nextId
  /\ \A b \in bindings : b.state # "terminal" => b.object < nextId

OneRowPerId == \A o, q \in objects : o.id = q.id => o = q

OneOwnerPerObject ==
  \A b, c \in bindings :
    b.state # "terminal" /\ c.state # "terminal" /\ b.object = c.object => b = c

RemovedIsGone == \A b \in bindings : b.state = "removed" => Row(b.object) = {}

InverseHasBinding ==
  \A x \in AcceptedReceipts("inverse") : \E b \in bindings :
    b.state = "removed" /\ b.call.kind = x.call.kind /\ b.object = x.object

Owners == OneOwnerPerObject /\ InverseHasBinding

Rows == IdsAreFresh /\ OneRowPerId /\ RemovedIsGone

IInv == TypeOK /\ CallsOK /\ Rows /\ Owners /\ RegistryAgrees

-----------------------------------------------------------------------------
(* Plans *)

(* Every plan a call can make is one that may be committed. *)
LEMMA PlannedOK ==
  ASSUME TypeOK, NEW r \in Request, NEW failed \in BOOLEAN
  PROVE  PlanOK(r, Planned(r, failed))
<1>1. ASSUME NEW reason \in Reasons, NEW seen
      PROVE  PlanOK(r, Terminal(reason, seen)) /\ PlanOK(r, Refuse(reason, seen))
  BY DEF PlanOK, Terminal, Refuse, Plan, Reasons
<1>2. ASSUME NEW b \in bindings PROVE PlanOK(r, Claimed(r, b))
  <2>1. b.object \in Nat
    BY DEF TypeOK, Binding
  <2>2. PlanOK(r, Plan("answer", Nothing, "duplicate", b.object, "none"))
    BY <2>1 DEF PlanOK, Plan, Reasons
  <2>. QED
    BY <1>1, <2>2 DEF Claimed, Reasons
<1>3. ASSUME r.dir = "forward" PROVE PlanOK(r, CreateProject(r)) \/ r.kind # "project"
  <2>1. ASSUME NEW seen, r.kind = "project"
        PROVE  PlanOK(r, Plan("accept", seen, "accepted", 0, "none"))
    BY <1>3, <2>1 DEF PlanOK, Plan, Reasons
  <2>. QED
    BY <1>1, <2>1 DEF CreateProject, Reasons
<1>4. ASSUME r.dir = "forward" PROVE PlanOK(r, CreateTaskList(r))
  <2>1. ASSUME NEW seen, ParentRegistered(r)
        PROVE  PlanOK(r, Plan("accept", seen, "accepted", 0, "none"))
    BY <1>4, <2>1 DEF PlanOK, Plan, ParentRegistered, WasRegistered, Reasons
  <2>. QED
    BY <1>1, <2>1 DEF CreateTaskList, Reasons
<1>5. ASSUME r.dir = "forward" PROVE PlanOK(r, Create(r))
  <2>1. r.kind \in {"project", "task_list"}
    BY DEF Request, Kinds
  <2>2. CASE BindingFor(r.kind, r.target) # {}
    <3>1. (CHOOSE b \in BindingFor(r.kind, r.target) : TRUE) \in bindings
      BY <2>2 DEF BindingFor
    <3>. QED
      BY <1>2, <2>2, <3>1 DEF Create
  <2>3. CASE BindingFor(r.kind, r.target) = {}
    BY <1>3, <1>4, <1>5, <2>1, <2>3 DEF Create
  <2>. QED
    BY <2>2, <2>3
<1>6. ASSUME r.dir = "inverse" PROVE PlanOK(r, Compensate(r))
  <2>1. CASE /\ Owned(r) # {} /\ Row(r.target) # {}
             /\ ~\E o \in Row(r.target) : o.edited
             /\ Observe("dependents", r) = {}
    <3>. DEFINE seen == Seen({"row", "dependents"}, r)
    <3>1. r.target \in Nat
      BY <2>1 DEF Owned, TypeOK, Binding
    <3>2. /\ DOMAIN seen = {"row", "dependents"}
          /\ seen["row"] = Observe("row", r)
          /\ seen["dependents"] = Observe("dependents", r)
      BY DEF Seen
    <3>3. Observe("row", r) = Row(r.target)
      BY DEF Observe
    <3>. HIDE DEF seen
    <3>4. PlanOK(r, Plan("remove", seen, "accepted", r.target, "none"))
      BY <1>6, <2>1, <3>1, <3>2, <3>3 DEF PlanOK, Plan, Reasons
    <3>5. Compensate(r) = Plan("remove", seen, "accepted", r.target, "none")
      BY <2>1 DEF Compensate, Watched, seen, Reasons
    <3>. QED
      BY <3>4, <3>5
  <2>. QED
    BY <1>1, <2>1 DEF Compensate, Reasons
<1>. QED
  BY <1>1, <1>5, <1>6 DEF Planned, WriteFailed, Request, Reasons

LEMMA ResolutionOK ==
  ASSUME TypeOK, NEW r \in Request, NEW a \in receipts
  PROVE  PlanOK(r, Resolution(r, a))
<1>1. a.object \in Nat
  BY DEF TypeOK, Receipt
<1>. QED
  BY <1>1 DEF Resolution, Duplicate, Terminal, Plan, PlanOK, Reasons

LEMMA AskedIsRequest ==
  ASSUME TypeOK, NEW p \in Procs, NEW r \in Asked(p)
  PROVE  r \in Request
<1>1. \A x \in receipts : x.object \in Nat /\ x.call \in Request
  BY DEF TypeOK, Receipt
<1>2. ASSUME NEW x \in receipts
      PROVE  [x.call EXCEPT !.dir = "inverse", !.target = x.object] \in Request
  BY <1>1 DEF Request
<1>3. VersionOf[p] \in {VersionOf[q] : q \in Procs}
  OBVIOUS
<1>4. ASSUME NEW s \in Steps, NEW n \in Names, NEW k \in Kinds, NEW t \in Sources \cup Nat
      PROVE  Forward(p, s, k, t, n) \in Request
  BY <1>3 DEF Forward, Request
<1>5. "project" \in Kinds /\ "task_list" \in Kinds
  BY DEF Kinds
<1>6. CASE r \in AskedProjects(p)
  BY <1>4, <1>5, <1>6 DEF AskedProjects
<1>7. CASE r \in AskedLists(p)
  BY <1>1, <1>4, <1>5, <1>7 DEF AskedLists
<1>8. CASE r \in AskedInverses(p)
  BY <1>2, <1>8 DEF AskedInverses
<1>. QED
  BY <1>6, <1>7, <1>8 DEF Asked

-----------------------------------------------------------------------------
(* Steps of a call that write no table *)

LEMMA UnplannedOK ==
  ASSUME NEW r \in Request, NEW at \in {"resolve", "plan"}, NEW failed \in BOOLEAN, NEW tries
  PROVE  CallOK(Call(r, at, failed, tries, NoPlan))
BY DEF CallOK, Call, NoPlan, Plan

LEMMA PlannedCallOK ==
  ASSUME NEW r \in Request, NEW failed \in BOOLEAN, NEW tries, NEW plan, PlanOK(r, plan)
  PROVE  CallOK(Call(r, "commit", failed, tries, plan))
<1>1. plan.do \in {"none", "answer", "refuse", "accept", "remove"}
  BY DEF PlanOK
<1>. QED
  BY <1>1 DEF CallOK, Call

LEMMA IdleOK == CallOK(Idle)
BY DEF CallOK

Quiet(p, c) ==
  /\ CallOK(c)
  /\ call' = [call EXCEPT ![p] = c]
  /\ UNCHANGED <<objects, nextId, receipts, bindings>>

CallStep(p) ==
  Begin(p) \/ Resolve(p) \/ PlanCall(p) \/ Conflict(p) \/ WriteFault(p) \/ Crash(p)

LEMMA CallStepIsQuiet ==
  ASSUME TypeOK, CallsOK, NEW p \in Procs, CallStep(p)
  PROVE  \E c : Quiet(p, c)
<1>1. CallOK(call[p])
  BY DEF CallsOK
<1>2. ASSUME call[p] # Idle
      PROVE  call[p].request \in Request /\ call[p].failed \in BOOLEAN
  BY <1>1, <1>2 DEF CallOK
<1>3. \A at \in {"resolve", "plan", "commit"} : call[p].at = at => call[p] # Idle
  BY DEF Idle
<1>4. CASE Begin(p)
  <2>1. PICK r \in Asked(p) :
          call' = [call EXCEPT ![p] = Call(r, "resolve", FALSE, 0, NoPlan)]
    BY <1>4 DEF Begin
  <2>2. CallOK(Call(r, "resolve", FALSE, 0, NoPlan))
    BY <2>1, AskedIsRequest, UnplannedOK
  <2>. QED
    BY <1>4, <2>1, <2>2 DEF Begin, Quiet
<1>5. CASE Resolve(p)
  <2>. DEFINE r == call[p].request
              f == call[p].failed
              n == call[p].tries
  <2>1. r \in Request /\ f \in BOOLEAN
    BY <1>2, <1>3, <1>5 DEF Resolve
  <2>2. CASE call' = [call EXCEPT ![p] = Idle]
    BY <1>5, <2>2, IdleOK DEF Resolve, Quiet
  <2>3. ASSUME NEW a \in AcceptedForStep(r),
               call' = [call EXCEPT ![p] = Call(r, "commit", f, n, Resolution(r, a))]
        PROVE  \E c : Quiet(p, c)
    <3>1. CallOK(Call(r, "commit", f, n, Resolution(r, a)))
      BY <2>1, ResolutionOK, PlannedCallOK DEF AcceptedForStep
    <3>. QED
      BY <1>5, <2>3, <3>1 DEF Resolve, Quiet
  <2>4. CASE call' = [call EXCEPT ![p] = Call(r, "plan", f, n, NoPlan)]
    <3>1. CallOK(Call(r, "plan", f, n, NoPlan))
      BY <2>1, UnplannedOK
    <3>. QED
      BY <1>5, <2>4, <3>1 DEF Resolve, Quiet
  <2>. QED
    BY <1>5, <2>2, <2>3, <2>4 DEF Resolve
<1>6. CASE PlanCall(p)
  <2>. DEFINE r == call[p].request
              f == call[p].failed
              n == call[p].tries
  <2>1. r \in Request /\ f \in BOOLEAN
    BY <1>2, <1>3, <1>6 DEF PlanCall
  <2>2. CallOK(Call(r, "commit", f, n, Planned(r, f)))
    BY <2>1, PlannedOK, PlannedCallOK
  <2>. QED
    BY <1>6, <2>2 DEF PlanCall, Quiet
<1>7. CASE Conflict(p)
  <2>. DEFINE r == call[p].request
              f == call[p].failed
              n == call[p].tries + 1
  <2>1. r \in Request /\ f \in BOOLEAN
    BY <1>2, <1>3, <1>7 DEF Conflict
  <2>2. CallOK(Call(r, "resolve", f, n, NoPlan))
    BY <2>1, UnplannedOK
  <2>. QED
    BY <1>7, <2>2, IdleOK DEF Conflict, Quiet
<1>8. CASE WriteFault(p)
  <2>1. call[p].request \in Request
    BY <1>2, <1>3, <1>8 DEF WriteFault
  <2>2. CallOK(Call(call[p].request, "resolve", TRUE, 0, NoPlan))
    BY <2>1, UnplannedOK
  <2>. QED
    BY <1>8, <2>2 DEF WriteFault, Quiet
<1>9. CASE Crash(p)
  BY <1>9, IdleOK DEF Crash, Quiet
<1>. QED
  BY <1>4, <1>5, <1>6, <1>7, <1>8, <1>9 DEF CallStep

(* A call's plan outlives every step that leaves registered targets         *)
(* registered.                                                              *)
LEMMA CallsSurvive ==
  ASSUME CallsOK, TypeOK, NEW p \in Procs, NEW c, CallOK(c),
         call' = [call EXCEPT ![p] = c] \/ call' = call,
         \A i : WasRegistered(i) => WasRegistered(i)'
  PROVE  CallsOK'
<1>1. \A r, plan : PlanOK(r, plan) => PlanOK(r, plan)'
  BY DEF PlanOK
<1>2. \A d : CallOK(d) => CallOK(d)'
  BY <1>1 DEF CallOK
<1>. QED
  BY <1>2 DEF CallsOK, TypeOK

LEMMA TypesAgain ==
  ASSUME CallsOK', DOMAIN call' = Procs,
         objects' \in SUBSET Object, nextId' \in Nat,
         receipts' \in SUBSET Receipt, bindings' \in SUBSET Binding
  PROVE  TypeOK'
BY DEF CallsOK, CallOK, TypeOK

LEMMA QuietKeeps ==
  ASSUME IInv, NEW p \in Procs, NEW c, Quiet(p, c)
  PROVE  IInv'
<1>1. CallsOK'
  <2>1. \A i : WasRegistered(i) => WasRegistered(i)'
    BY DEF Quiet, WasRegistered
  <2>. QED
    BY <2>1, CallsSurvive DEF IInv, Quiet
<1>2. TypeOK'
  BY <1>1, TypesAgain DEF IInv, Quiet, TypeOK
<1>3. Rows' /\ Owners'
  BY DEF IInv, Quiet, Rows, Owners, IdsAreFresh, OneRowPerId, RemovedIsGone, Row,
         OneOwnerPerObject, InverseHasBinding, AcceptedReceipts
<1>4. RegistryAgrees'
  BY DEF IInv, Quiet, RegistryAgrees, OneBindingPerTarget, AcceptedOnce, SameStep,
         ReceiptHasBinding, BindingHasReceipt, AcceptedReceipts
<1>. QED
  BY <1>1, <1>2, <1>3, <1>4 DEF IInv

-----------------------------------------------------------------------------
(* Ordinary writes *)

(* An ordinary write adds at most a row with the next id and otherwise keeps *)
(* the ids there are.                                                        *)
Ordinary ==
  /\ objects' \in SUBSET Object /\ nextId' \in Nat /\ nextId <= nextId'
  /\ \A o \in objects' : (\E q \in objects : q.id = o.id) \/ (o.id = nextId /\ nextId < nextId')
  /\ \A o, q \in objects' : o.id = q.id => o = q
  /\ UNCHANGED <<receipts, bindings, call>>

LEMMA OrdinaryWriteIsOrdinary ==
  ASSUME TypeOK, Rows, OrdinaryWrite
  PROVE  Ordinary
<1>1. /\ objects \in SUBSET Object /\ nextId \in Nat
      /\ \A o \in objects : o.id \in Nat /\ o.id < nextId
      /\ \A o, q \in objects : o.id = q.id => o = q
  BY DEF TypeOK, Rows, IdsAreFresh, OneRowPerId, Object
<1>2. nextId + 1 \in Nat /\ nextId < nextId + 1 /\ nextId <= nextId + 1 /\ nextId <= nextId
  BY <1>1
<1>3. ASSUME NEW kind \in Kinds, NEW of \in Sources \cup Nat, OrdinaryCreate(kind, of)
      PROVE  Ordinary
  <2>. DEFINE new == [id |-> nextId, kind |-> kind, of |-> of,
                      edited |-> FALSE, used |-> FALSE]
  <2>1. objects' = objects \cup {new} /\ nextId' = nextId + 1
        /\ UNCHANGED <<receipts, bindings, call>>
    BY <1>3 DEF OrdinaryCreate, Write
  <2>2. new \in Object /\ new.id = nextId
    BY <1>1 DEF Object
  <2>3. \A o \in objects : o.id # new.id
    BY <1>1, <2>2
  <2>. HIDE DEF new
  <2>. QED
    BY <1>1, <1>2, <2>1, <2>2, <2>3 DEF Ordinary
<1>4. ASSUME NEW o \in objects, NEW new \in Object, new.id = o.id, nextId' = nextId,
             Write((objects \ {o}) \cup {new})
      PROVE  Ordinary
  <2>1. objects' = (objects \ {o}) \cup {new} /\ UNCHANGED <<receipts, bindings, call>>
    BY <1>4 DEF Write
  <2>. QED
    BY <1>1, <1>2, <1>4, <2>1 DEF Ordinary
<1>5. ASSUME NEW o \in objects, OrdinaryDelete(o) PROVE Ordinary
  <2>1. /\ objects' = {Orphaned(x, o.id) : x \in objects \ {o}} /\ nextId' = nextId
        /\ UNCHANGED <<receipts, bindings, call>>
    BY <1>5 DEF OrdinaryDelete, Write
  <2>2. ASSUME NEW x \in objects
        PROVE  Orphaned(x, o.id) \in Object /\ Orphaned(x, o.id).id = x.id
    <3>1. x \in Object
      BY <1>1
    <3>. QED
      BY <3>1 DEF Orphaned, Object
  <2>. QED
    BY <1>1, <1>2, <2>1, <2>2 DEF Ordinary
<1>6. ASSUME NEW o \in objects, Edit(o) \/ Use(o) PROVE Ordinary
  <2>1. [o EXCEPT !.edited = TRUE] \in Object /\ [o EXCEPT !.edited = TRUE].id = o.id
    BY <1>1 DEF Object
  <2>2. [o EXCEPT !.used = ~@] \in Object /\ [o EXCEPT !.used = ~@].id = o.id
    BY <1>1 DEF Object
  <2>. QED
    BY <1>4, <1>6, <2>1, <2>2 DEF Edit, Use
<1>7. "project" \in Kinds /\ "task_list" \in Kinds
  BY DEF Kinds
<1>. QED
  BY <1>1, <1>3, <1>5, <1>6, <1>7 DEF OrdinaryWrite

LEMMA OrdinaryKeeps ==
  ASSUME IInv, Ordinary
  PROVE  IInv'
<1>1. TypeOK /\ nextId \in Nat /\ nextId' \in Nat /\ nextId <= nextId'
      /\ (\A o \in objects : o.id \in Nat) /\ (\A b \in bindings : b.object \in Nat)
  BY DEF IInv, TypeOK, Object, Binding, Ordinary
<1>2. CallsOK'
  BY DEF IInv, CallsOK, CallOK, PlanOK, WasRegistered, Ordinary
<1>3. TypeOK'
  BY <1>2, TypesAgain DEF IInv, Ordinary, TypeOK
<1>4. IdsAreFresh'
  <2>1. ASSUME NEW o \in objects' PROVE o.id < nextId'
    <3>1. CASE \E q \in objects : q.id = o.id
      BY <1>1, <3>1 DEF IInv, Rows, IdsAreFresh
    <3>2. CASE o.id = nextId /\ nextId < nextId'
      BY <3>2
    <3>. QED
      BY <3>1, <3>2 DEF Ordinary
  <2>2. ASSUME NEW b \in bindings, b.state # "terminal" PROVE b.object < nextId'
    BY <1>1, <2>2 DEF IInv, Rows, IdsAreFresh
  <2>. QED
    BY <2>1, <2>2 DEF IdsAreFresh, Ordinary
<1>5. RemovedIsGone'
  <2>. SUFFICES ASSUME NEW b \in bindings, b.state = "removed", NEW o \in objects', o.id = b.object
                PROVE  FALSE
    BY DEF RemovedIsGone, Row, Ordinary
  <2>1. b.object < nextId /\ \A q \in objects : q.id # b.object
    BY DEF IInv, Rows, IdsAreFresh, RemovedIsGone, Row
  <2>. QED
    BY <1>1, <2>1 DEF Ordinary
<1>6. OneRowPerId'
  BY DEF OneRowPerId, Ordinary
<1>7. Owners'
  BY DEF IInv, Ordinary, Owners, OneOwnerPerObject, InverseHasBinding, AcceptedReceipts
<1>8. RegistryAgrees'
  BY DEF IInv, Ordinary, RegistryAgrees, OneBindingPerTarget, AcceptedOnce, SameStep,
         ReceiptHasBinding, BindingHasReceipt, AcceptedReceipts
<1>. QED
  BY <1>2, <1>3, <1>4, <1>5, <1>6, <1>7, <1>8 DEF IInv, Rows

-----------------------------------------------------------------------------
(* Commits *)

Req(p) == call[p].request

LEMMA CommitFacts ==
  ASSUME IInv, NEW p \in Procs, Commit(p)
  PROVE  /\ Req(p) \in Request /\ PlanOK(Req(p), call[p].plan) /\ Valid(call[p])
         /\ Written(call[p]) \in Receipt
         /\ Written(call[p]).call = Req(p)
         /\ Written(call[p]).outcome = call[p].plan.outcome
         /\ Written(call[p]).object =
              IF call[p].plan.do = "accept" THEN nextId ELSE call[p].plan.object
         /\ receipts' = receipts \cup {Written(call[p])}
         /\ call' = [call EXCEPT ![p] = Idle]
<1>1. call[p] # Idle /\ CallOK(call[p])
  BY DEF IInv, CallsOK, Commit, Idle
<1>2. Req(p) \in Request /\ PlanOK(Req(p), call[p].plan)
  BY <1>1 DEF CallOK, Commit, Req
<1>3. call[p].plan.outcome \in {"accepted", "duplicate", "terminal"}
  BY <1>2 DEF PlanOK
<1>4. nextId \in Nat /\ call[p].plan.object \in Nat /\ call[p].plan.reason \in Reasons
  BY <1>2 DEF PlanOK, IInv, TypeOK
<1>. QED
  BY <1>2, <1>3, <1>4 DEF Commit, Written, Receipt, Req

(* Whatever the call was, its answer keeps what receipts alone promise. *)
LEMMA CallsAfterCommit ==
  ASSUME IInv, NEW p \in Procs, Commit(p), \A i : WasRegistered(i) => WasRegistered(i)'
  PROVE  CallsOK'
BY CommitFacts, CallsSurvive, IdleOK DEF IInv

LEMMA TypesAfterCommit ==
  ASSUME IInv, NEW p \in Procs, Commit(p), CallsOK',
         objects' \in SUBSET Object, nextId' \in Nat, bindings' \in SUBSET Binding
  PROVE  TypeOK'
<1>1. receipts' \in SUBSET Receipt
  BY CommitFacts DEF IInv, TypeOK
<1>2. DOMAIN call' = Procs
  BY CommitFacts DEF IInv, TypeOK
<1>. QED
  BY <1>1, <1>2, TypesAgain

(* A receipt that accepts nothing, with or without a refused binding. *)
LEMMA AnswerKeeps ==
  ASSUME IInv, NEW p \in Procs, Commit(p), call[p].plan.do \in {"answer", "refuse"}
  PROVE  IInv'
<1>. DEFINE r == Req(p)
            b0 == Bound(r, "terminal", 0)
<1>1. /\ objects' = objects /\ nextId' = nextId
      /\ bindings' = bindings \/ (bindings' = bindings \cup {b0} /\ Unclaimed(r))
  BY CommitFacts DEF Commit, RefuseWrites, Valid, Req
<1>2. r \in Request
  BY CommitFacts
<1>3. /\ b0 \in Binding /\ b0.state = "terminal" /\ b0.call = r
  BY <1>2 DEF Bound, Binding
<1>4. \A dir : AcceptedReceipts(dir)' = AcceptedReceipts(dir)
  <2>1. Written(call[p]).outcome # "accepted"
    BY CommitFacts DEF PlanOK
  <2>. QED
    BY <2>1, CommitFacts DEF AcceptedReceipts
<1>. HIDE DEF r, b0
<1>5. CallsOK'
  <2>1. \A i : WasRegistered(i) => WasRegistered(i)'
    BY <1>1 DEF WasRegistered
  <2>. QED
    BY <2>1, CallsAfterCommit
<1>6. TypeOK'
  BY <1>1, <1>3, <1>5, TypesAfterCommit DEF IInv, TypeOK
<1>7. Rows'
  BY <1>1, <1>3 DEF IInv, Rows, IdsAreFresh, OneRowPerId, RemovedIsGone, Row
<1>8. Owners'
  BY <1>1, <1>3, <1>4 DEF IInv, Owners, OneOwnerPerObject, InverseHasBinding
<1>9. OneBindingPerTarget'
  BY <1>1, <1>3 DEF IInv, RegistryAgrees, OneBindingPerTarget, Unclaimed, BindingFor
<1>10. AcceptedOnce'
  <2>1. Written(call[p]).outcome # "accepted"
    BY CommitFacts DEF PlanOK
  <2>. QED
    BY <2>1, CommitFacts DEF IInv, RegistryAgrees, AcceptedOnce, SameStep
<1>11. ReceiptHasBinding'
  BY <1>1, <1>4 DEF IInv, RegistryAgrees, ReceiptHasBinding
<1>12. BindingHasReceipt'
  BY <1>1, <1>3, <1>4 DEF IInv, RegistryAgrees, BindingHasReceipt
<1>. QED
  BY <1>5, <1>6, <1>7, <1>8, <1>9, <1>10, <1>11, <1>12 DEF IInv, RegistryAgrees

(* The new receipt is the only accepted one of its step. *)
LEMMA AcceptedOnceAfterCommit ==
  ASSUME IInv, NEW p \in Procs, Commit(p), Fresh(Req(p))
  PROVE  AcceptedOnce'
<1>1. \A x \in receipts : x.outcome = "accepted" => ~SameStep(x.call, Req(p))
  BY DEF Fresh, AcceptedForStep
<1>2. Written(call[p]).call = Req(p) /\ receipts' = receipts \cup {Written(call[p])}
  BY CommitFacts
<1>. QED
  BY <1>1, <1>2 DEF IInv, RegistryAgrees, AcceptedOnce, SameStep

(* A create. *)
LEMMA AcceptKeeps ==
  ASSUME IInv, NEW p \in Procs, Commit(p), call[p].plan.do = "accept"
  PROVE  IInv'
<1>. DEFINE r == Req(p)
            x0 == Written(call[p])
            b0 == Bound(r, "accepted", nextId)
            o0 == [id |-> nextId, kind |-> r.kind, of |-> r.target,
                   edited |-> FALSE, used |-> FALSE]
<1>1. /\ objects' = objects \cup {o0} /\ nextId' = nextId + 1
      /\ bindings' = bindings \cup {b0}
      /\ Unclaimed(r) /\ Fresh(r)
  BY CommitFacts DEF Commit, AcceptWrites, Valid, Req
<1>2. r \in Request /\ r.dir = "forward"
  BY CommitFacts DEF PlanOK
<1>3. /\ nextId \in Nat /\ nextId + 1 \in Nat /\ nextId < nextId + 1
      /\ \A o \in objects : o.id \in Nat
      /\ \A b \in bindings : b.object \in Nat
  BY DEF IInv, TypeOK, Object, Binding
<1>4. b0 \in Binding /\ b0.state = "accepted" /\ b0.call = r /\ b0.object = nextId
  BY <1>2, <1>3 DEF Bound, Binding
<1>5. o0 \in Object /\ o0.id = nextId
  BY <1>2, <1>3 DEF Object, Request
<1>6. /\ receipts' = receipts \cup {x0}
      /\ x0.call = r /\ x0.outcome = "accepted" /\ x0.object = nextId
  BY CommitFacts DEF PlanOK
<1>. HIDE DEF r, x0, b0, o0
<1>7. /\ AcceptedReceipts("forward")' = AcceptedReceipts("forward") \cup {x0}
      /\ AcceptedReceipts("inverse")' = AcceptedReceipts("inverse")
  BY <1>2, <1>6 DEF AcceptedReceipts
<1>8. /\ \A o \in objects : o.id < nextId
      /\ \A b \in bindings : b.state # "terminal" => b.object < nextId
  BY DEF IInv, Rows, IdsAreFresh
<1>9. CallsOK'
  <2>1. \A i : WasRegistered(i) => WasRegistered(i)'
    BY <1>1 DEF WasRegistered
  <2>. QED
    BY <2>1, CallsAfterCommit
<1>10. TypeOK'
  BY <1>1, <1>3, <1>4, <1>5, <1>9, TypesAfterCommit DEF IInv, TypeOK
<1>11. Rows'
  <2>1. IdsAreFresh'
    BY <1>1, <1>3, <1>4, <1>5, <1>8 DEF IdsAreFresh
  <2>2. OneRowPerId'
    BY <1>1, <1>3, <1>5, <1>8 DEF IInv, Rows, OneRowPerId
  <2>3. RemovedIsGone'
    BY <1>1, <1>3, <1>4, <1>5, <1>8 DEF IInv, Rows, RemovedIsGone, Row
  <2>. QED
    BY <2>1, <2>2, <2>3 DEF Rows
<1>12. Owners'
  BY <1>1, <1>3, <1>4, <1>7, <1>8 DEF IInv, Owners, OneOwnerPerObject, InverseHasBinding
<1>13. OneBindingPerTarget'
  BY <1>1, <1>4 DEF IInv, RegistryAgrees, OneBindingPerTarget, Unclaimed, BindingFor
<1>14. AcceptedOnce'
  BY <1>1, AcceptedOnceAfterCommit DEF r
<1>15. ReceiptHasBinding'
  <2>1. \A y \in AcceptedReceipts("inverse") : y.object # nextId
    BY <1>3, <1>8 DEF IInv, Owners, InverseHasBinding
  <2>. QED
    BY <1>1, <1>4, <1>6, <1>7, <2>1 DEF IInv, RegistryAgrees, ReceiptHasBinding
<1>16. BindingHasReceipt'
  BY <1>1, <1>4, <1>6, <1>7 DEF IInv, RegistryAgrees, BindingHasReceipt
<1>. QED
  BY <1>9, <1>10, <1>11, <1>12, <1>13, <1>14, <1>15, <1>16 DEF IInv, RegistryAgrees

(* An inverse removes one binding's object: the one it owns. *)
LEMMA RemoveFacts ==
  ASSUME IInv, NEW p \in Procs, Commit(p), call[p].plan.do = "remove"
  PROVE  \E b \in bindings, c \in Binding :
           /\ b.state = "accepted" /\ b.call.kind = Req(p).kind
           /\ b.call.step = Req(p).step /\ b.object = Req(p).target
           /\ c.state = "removed" /\ c.call = b.call /\ c.object = b.object
           /\ bindings' = (bindings \ {b}) \cup {c}
           /\ objects' = objects \ Row(Req(p).target) /\ nextId' = nextId
<1>. DEFINE r == Req(p)
<1>1. RemoveWrites(r) /\ Owned(r) # {}
  BY CommitFacts DEF Commit, Valid, Req
<1>. HIDE DEF r
<1>2. PICK b \in Owned(r) : TRUE
  BY <1>1
<1>3. /\ b \in bindings /\ b.state = "accepted" /\ b.call.kind = r.kind
      /\ b.call.step = r.step /\ b.object = r.target
  BY <1>2 DEF Owned
<1>4. Owned(r) = {b}
  BY <1>2, <1>3 DEF Owned, IInv, Owners, OneOwnerPerObject
<1>5. b \in Binding
  BY <1>3 DEF IInv, TypeOK
<1>. DEFINE c == [b EXCEPT !.state = "removed"]
<1>6. c \in Binding /\ c.state = "removed" /\ c.call = b.call /\ c.object = b.object
  BY <1>5 DEF Binding
<1>7. /\ bindings' = (bindings \ {b}) \cup {c}
      /\ objects' = objects \ Row(r.target) /\ nextId' = nextId
  BY <1>1, <1>4 DEF RemoveWrites
<1>. QED
  BY <1>3, <1>6, <1>7 DEF r

LEMMA RemoveKeeps ==
  ASSUME IInv, NEW p \in Procs, Commit(p), call[p].plan.do = "remove"
  PROVE  IInv'
<1>. DEFINE r == Req(p)
            x0 == Written(call[p])
<1>1. PICK b \in bindings, c \in Binding :
        /\ b.state = "accepted" /\ b.call.kind = r.kind
        /\ b.call.step = r.step /\ b.object = r.target
        /\ c.state = "removed" /\ c.call = b.call /\ c.object = b.object
        /\ bindings' = (bindings \ {b}) \cup {c}
        /\ objects' = objects \ Row(r.target) /\ nextId' = nextId
  BY RemoveFacts
<1>2. r.dir = "inverse" /\ Fresh(r)
  BY CommitFacts DEF PlanOK, Valid, Req
<1>3. /\ receipts' = receipts \cup {x0}
      /\ x0.call = r /\ x0.outcome = "accepted" /\ x0.object = r.target
  BY CommitFacts DEF PlanOK, Req
<1>. HIDE DEF r, x0
<1>4. /\ AcceptedReceipts("forward")' = AcceptedReceipts("forward")
      /\ AcceptedReceipts("inverse")' = AcceptedReceipts("inverse") \cup {x0}
  BY <1>2, <1>3 DEF AcceptedReceipts
<1>5. CallsOK'
  <2>1. \A i : WasRegistered(i) => WasRegistered(i)'
    BY <1>1 DEF WasRegistered
  <2>. QED
    BY <2>1, CallsAfterCommit
<1>6. TypeOK'
  BY <1>1, <1>5, TypesAfterCommit DEF IInv, TypeOK
<1>7. Rows'
  <2>1. IdsAreFresh' /\ OneRowPerId'
    BY <1>1 DEF IInv, Rows, IdsAreFresh, OneRowPerId
  <2>2. RemovedIsGone'
    BY <1>1 DEF IInv, Rows, RemovedIsGone, Row
  <2>. QED
    BY <2>1, <2>2 DEF Rows
<1>8. Owners'
  <2>1. OneOwnerPerObject'
    BY <1>1 DEF IInv, Owners, OneOwnerPerObject
  <2>2. InverseHasBinding'
    <3>1. ASSUME NEW x \in AcceptedReceipts("inverse")
          PROVE  \E d \in bindings' :
                   d.state = "removed" /\ d.call.kind = x.call.kind /\ d.object = x.object
      <4>1. PICK d \in bindings :
              d.state = "removed" /\ d.call.kind = x.call.kind /\ d.object = x.object
        BY DEF IInv, Owners, InverseHasBinding
      <4>. QED
        BY <1>1, <4>1
    <3>2. c \in bindings' /\ c.call.kind = x0.call.kind /\ c.object = x0.object
      BY <1>1, <1>3
    <3>. QED
      BY <1>1, <1>4, <3>1, <3>2 DEF InverseHasBinding
  <2>. QED
    BY <2>1, <2>2 DEF Owners
<1>9. OneBindingPerTarget'
  BY <1>1 DEF IInv, RegistryAgrees, OneBindingPerTarget
<1>10. AcceptedOnce'
  BY <1>2, AcceptedOnceAfterCommit DEF r
<1>11. ReceiptHasBinding'
  <2>. SUFFICES ASSUME NEW x \in AcceptedReceipts("forward")
                PROVE  \E d \in bindings' :
                         /\ d.call = x.call /\ d.object = x.object
                         /\ d.state = IF \E y \in AcceptedReceipts("inverse") \cup {x0} :
                                           y.call.kind = x.call.kind /\ y.object = x.object
                                        THEN "removed" ELSE "accepted"
    BY <1>4 DEF ReceiptHasBinding
  <2>1. PICK d \in bindings :
          /\ d.call = x.call /\ d.object = x.object
          /\ d.state = IF \E y \in AcceptedReceipts("inverse") :
                            y.call.kind = x.call.kind /\ y.object = x.object
                         THEN "removed" ELSE "accepted"
    BY DEF IInv, RegistryAgrees, ReceiptHasBinding
  <2>2. CASE d = b
    <3>1. c \in bindings' /\ c.call = x.call /\ c.object = x.object /\ c.state = "removed"
      BY <1>1, <2>1, <2>2
    <3>2. x0.call.kind = x.call.kind /\ x0.object = x.object
      BY <1>1, <1>3, <2>1, <2>2
    <3>. QED
      BY <3>1, <3>2
  <2>3. CASE d # b
    <3>1. d.object # b.object
      BY <1>1, <2>1, <2>3 DEF IInv, Owners, OneOwnerPerObject
    <3>2. x0.object # x.object
      BY <1>1, <1>3, <2>1, <3>1
    <3>3. d \in bindings'
      BY <1>1, <2>3
    <3>. QED
      BY <2>1, <3>2, <3>3
  <2>. QED
    BY <2>2, <2>3
<1>12. BindingHasReceipt'
  <2>. SUFFICES ASSUME NEW d \in bindings', d.state # "terminal"
                PROVE  \E x \in AcceptedReceipts("forward") : x.call = d.call /\ x.object = d.object
    BY <1>4 DEF BindingHasReceipt
  <2>1. PICK e \in bindings : e.call = d.call /\ e.object = d.object /\ e.state # "terminal"
    BY <1>1
  <2>. QED
    BY <2>1 DEF IInv, RegistryAgrees, BindingHasReceipt
<1>. QED
  BY <1>5, <1>6, <1>7, <1>8, <1>9, <1>10, <1>11, <1>12 DEF IInv, RegistryAgrees

LEMMA CommitKeeps ==
  ASSUME IInv, NEW p \in Procs, Commit(p)
  PROVE  IInv'
<1>1. call[p].plan.do \in {"answer", "refuse", "accept", "remove"}
  BY DEF Commit
<1>. QED
  BY <1>1, AnswerKeeps, AcceptKeeps, RemoveKeeps

-----------------------------------------------------------------------------
(* The invariant of the specification *)

(* The inductive invariant holds: see its parts above.                       *)
THEOREM RegistrationInvariant == Spec => []IInv
<1>1. Init => IInv
  BY DEF Init, IInv, TypeOK, CallsOK, CallOK, Rows, IdsAreFresh, OneRowPerId, RemovedIsGone,
         Owners, OneOwnerPerObject, InverseHasBinding, AcceptedReceipts, RegistryAgrees,
         OneBindingPerTarget, AcceptedOnce, ReceiptHasBinding, BindingHasReceipt
<1>2. IInv /\ [Next]_vars => IInv'
  <2>. SUFFICES ASSUME IInv, [Next]_vars PROVE IInv'
    OBVIOUS
  <2>1. ASSUME NEW p \in Procs, CallStep(p) PROVE IInv'
    BY <2>1, CallStepIsQuiet, QuietKeeps DEF IInv
  <2>2. ASSUME NEW p \in Procs, Commit(p) PROVE IInv'
    BY <2>2, CommitKeeps
  <2>3. CASE OrdinaryWrite
    BY <2>3, OrdinaryWriteIsOrdinary, OrdinaryKeeps DEF IInv
  <2>4. CASE UNCHANGED vars
    BY <2>4 DEF vars, IInv, TypeOK, CallsOK, CallOK, PlanOK, WasRegistered, Rows, IdsAreFresh,
         OneRowPerId, RemovedIsGone, Row, Owners, OneOwnerPerObject, InverseHasBinding,
         AcceptedReceipts, RegistryAgrees, OneBindingPerTarget, AcceptedOnce, SameStep,
         ReceiptHasBinding, BindingHasReceipt
  <2>. QED
    BY <2>1, <2>2, <2>3, <2>4 DEF Next, Serve, CallStep
<1>. QED
  BY <1>1, <1>2, PTL DEF Spec

(* The tables and the calls keep their types.                                *)
THEOREM RegistrationTypeOK == Spec => []TypeOK
<1>1. IInv => TypeOK
  BY DEF IInv
<1>. QED
  BY <1>1, RegistrationInvariant, PTL

(* Receipts and bindings tell one story, through failed writes, crashes,     *)
(* repeated calls and other processes.                                       *)
THEOREM RegistryAlwaysAgrees == Spec => []RegistryAgrees
<1>1. IInv => RegistryAgrees
  BY DEF IInv
<1>. QED
  BY <1>1, RegistrationInvariant, PTL

(* Only a commit writes a receipt.                                           *)
LEMMA ReceiptsOnlyByCommit ==
  ASSUME IInv, [Next]_vars, receipts' # receipts
  PROVE  \E p \in Procs : Commit(p)
<1>1. ~(UNCHANGED vars) /\ ~OrdinaryWrite
  BY DEF vars, OrdinaryWrite, OrdinaryCreate, Edit, Use, OrdinaryDelete, Write
<1>2. ASSUME NEW p \in Procs, CallStep(p) PROVE receipts' = receipts
  BY <1>2, CallStepIsQuiet DEF IInv, Quiet
<1>. QED
  BY <1>1, <1>2 DEF Next, Serve, CallStep

(* An inverse that is accepted takes away one row: its own, unedited, with   *)
(* nothing that refers to it.                                                *)
LEMMA InverseTakesItsOwn ==
  ASSUME IInv, [Next]_vars
  PROVE  UntouchedOnly
<1>. SUFFICES ASSUME NEW x \in AcceptedReceipts("inverse")' \ AcceptedReceipts("inverse")
              PROVE  /\ \E o \in objects :
                          /\ o.id = x.object /\ ~o.edited /\ ~o.used
                          /\ objects' = objects \ {o}
                     /\ \E a \in AcceptedReceipts("forward") :
                          a.object = x.object /\ a.call.step = x.call.step
                     /\ ~\E o \in objects :
                          o.kind = "task_list" /\ x.call.kind = "project" /\ o.of = x.object
  BY DEF UntouchedOnly
<1>1. PICK p \in Procs : Commit(p)
  BY ReceiptsOnlyByCommit DEF AcceptedReceipts
<1>. DEFINE r == Req(p)
            plan == call[p].plan
<1>2. x = Written(call[p]) /\ x.outcome = "accepted" /\ x.call.dir = "inverse"
  BY <1>1, CommitFacts DEF AcceptedReceipts
<1>3. /\ plan.do = "remove" /\ x.call = r /\ x.object = r.target
      /\ {"row", "dependents"} \subseteq DOMAIN plan.seen
      /\ \A o \in plan.seen["row"] : ~o.edited
      /\ plan.seen["dependents"] = {}
  BY <1>1, <1>2, CommitFacts DEF PlanOK
<1>4. RowsUnchanged(call[p]) /\ Row(r.target) # {}
  BY <1>1, <1>3, CommitFacts DEF Valid, Req
<1>5. plan.seen["row"] = Row(r.target)
  BY <1>3, <1>4 DEF RowsUnchanged, Observe, Req
<1>6. Observe("dependents", r) = {}
  BY <1>3, <1>4 DEF RowsUnchanged, Req
<1>7. PICK b \in bindings :
        /\ b.state = "accepted" /\ b.call.step = r.step /\ b.object = r.target
        /\ objects' = objects \ Row(r.target)
  BY <1>1, <1>3, RemoveFacts
<1>8. PICK o \in Row(r.target) : TRUE
  BY <1>4
<1>9. o \in objects /\ o.id = r.target /\ Row(r.target) = {o} /\ ~o.edited
  BY <1>3, <1>5, <1>8 DEF Row, IInv, Rows, OneRowPerId
<1>10. /\ ~\E q \in objects : q.id = r.target /\ q.used
       /\ ~\E q \in objects : q.kind = "task_list" /\ r.kind = "project" /\ q.of = r.target
  BY <1>6 DEF Observe
<1>11. ~o.used
  BY <1>9, <1>10
<1>12. PICK a \in AcceptedReceipts("forward") : a.call = b.call /\ a.object = b.object
  BY <1>7 DEF IInv, RegistryAgrees, BindingHasReceipt
<1>. QED
  BY <1>3, <1>7, <1>9, <1>10, <1>11, <1>12

(* Whatever ordinary writers do between the plan of an inverse and its       *)
(* commit, it removes one object, unedited, unreferenced and its own.        *)
THEOREM InverseIsExact == Spec => InverseRemovesUntouched
<1>1. IInv /\ [Next]_vars => [UntouchedOnly]_vars
  BY InverseTakesItsOwn
<1>. QED
  BY <1>1, RegistrationInvariant, PTL DEF Spec, InverseRemovesUntouched

(* A list is accepted for a project that is there and registered at that     *)
(* moment, although the plan read both earlier.                              *)
THEOREM ListsHaveParents == Spec => ListsHaveRegisteredParents
<1>1. IInv /\ [Next]_vars => [ParentThere]_vars
  <2>. SUFFICES ASSUME IInv, [Next]_vars,
                       NEW x \in AcceptedReceipts("forward")' \ AcceptedReceipts("forward"),
                       x.call.kind = "task_list"
                PROVE  ParentRegistered(x.call) /\ Row(x.call.target) # {}
    BY DEF ParentThere
  <2>1. PICK p \in Procs : Commit(p)
    BY ReceiptsOnlyByCommit DEF AcceptedReceipts
  <2>2. x.call = Req(p) /\ call[p].plan.outcome = "accepted" /\ Req(p).dir = "forward"
    BY <2>1, CommitFacts DEF AcceptedReceipts
  <2>3. call[p].plan.do = "accept" /\ WasRegistered(Req(p).target)
    BY <2>1, <2>2, CommitFacts DEF PlanOK
  <2>4. Row(x.call.target) # {}
    BY <2>1, <2>2, <2>3, CommitFacts DEF Valid, Insertable, Req
  <2>5. PICK b \in bindings :
          b.call.kind = "project" /\ b.state # "terminal" /\ b.object = x.call.target
    BY <2>2, <2>3 DEF WasRegistered
  <2>6. b.state = "accepted"
    BY <2>4, <2>5 DEF IInv, Rows, RemovedIsGone, TypeOK, Binding
  <2>. QED
    BY <2>4, <2>5, <2>6 DEF ParentRegistered
<1>. QED
  BY <1>1, RegistrationInvariant, PTL DEF Spec, ListsHaveRegisteredParents

-----------------------------------------------------------------------------
(* The authority implements CreateOnce *)

Told(x) ==
  [step |-> x.call.step, kind |-> x.call.kind, target |-> x.call.target, id |-> x.object]

(* Registrations are the bindings that were accepted, whatever became of     *)
(* them, and their ids are used up.                                          *)
LEMMA RegistrationsAreBound ==
  ASSUME IInv
  PROVE  /\ Registrations = {Told(x) : x \in AcceptedReceipts("forward")}
         /\ \A g \in Registrations : g.id < nextId /\ \E b \in bindings :
              /\ b.state # "terminal" /\ b.object = g.id
              /\ b.call.kind = g.kind /\ b.call.target = g.target
         /\ \A b \in bindings : b.state # "terminal" => \E g \in Registrations :
              /\ g.id = b.object /\ g.step = b.call.step
              /\ g.kind = b.call.kind /\ g.target = b.call.target
         /\ \A i \in Withdrawn : \E b \in bindings : b.state = "removed" /\ b.object = i
<1>1. Registrations = {Told(x) : x \in AcceptedReceipts("forward")}
  BY DEF Registrations, Told
<1>2. ASSUME NEW x \in AcceptedReceipts("forward")
      PROVE  \E b \in bindings : b.state # "terminal" /\ b.object = x.object /\ b.call = x.call
  BY DEF IInv, RegistryAgrees, ReceiptHasBinding
<1>3. \A b \in bindings : b.state # "terminal" => b.object < nextId
  BY DEF IInv, Rows, IdsAreFresh
<1>4. ASSUME NEW b \in bindings, b.state # "terminal"
      PROVE  \E x \in AcceptedReceipts("forward") : x.call = b.call /\ x.object = b.object
  BY <1>4 DEF IInv, RegistryAgrees, BindingHasReceipt
<1>5. \A i \in Withdrawn : \E b \in bindings : b.state = "removed" /\ b.object = i
  BY DEF IInv, Owners, InverseHasBinding, Withdrawn
<1>6. ASSUME NEW g \in Registrations
      PROVE  g.id < nextId /\ \E b \in bindings :
               /\ b.state # "terminal" /\ b.object = g.id
               /\ b.call.kind = g.kind /\ b.call.target = g.target
  <2>1. PICK x \in AcceptedReceipts("forward") : g = Told(x)
    BY <1>1
  <2>2. g.id = x.object /\ g.kind = x.call.kind /\ g.target = x.call.target
    BY <2>1 DEF Told
  <2>3. PICK b \in bindings : b.state # "terminal" /\ b.object = x.object /\ b.call = x.call
    BY <1>2
  <2>. QED
    BY <1>3, <2>2, <2>3
<1>7. ASSUME NEW b \in bindings, b.state # "terminal"
      PROVE  \E g \in Registrations :
               /\ g.id = b.object /\ g.step = b.call.step
               /\ g.kind = b.call.kind /\ g.target = b.call.target
  <2>1. PICK x \in AcceptedReceipts("forward") : x.call = b.call /\ x.object = b.object
    BY <1>4, <1>7
  <2>2. Told(x) \in Registrations
    BY <1>1
  <2>. QED
    BY <2>1, <2>2 DEF Told
<1>. QED
  BY <1>1, <1>5, <1>6, <1>7

(* As long as no receipt accepts anything, what the registry shows is the    *)
(* work of others.                                                           *)
LEMMA OthersWrite ==
  ASSUME IInv, OneRowPerId',
         \A dir : AcceptedReceipts(dir)' = AcceptedReceipts(dir),
         \A o \in objects' : (\E q \in objects : q.id = o.id) \/ o.id = nextId
  PROVE  Registry!Others
<1>1. Registrations' = Registrations /\ Withdrawn' = Withdrawn
  BY DEF Registrations, Withdrawn
<1>2. nextId \in Nat
  BY DEF IInv, TypeOK
<1>3. \A g \in Registrations : g.id # nextId
  BY <1>2, RegistrationsAreBound
<1>. QED
  BY <1>1, <1>3 DEF Registry!Others, OneRowPerId

LEMMA AcceptRegisters ==
  ASSUME IInv, NEW p \in Procs, Commit(p), call[p].plan.do = "accept"
  PROVE  \E g \in Registrations' \ Registrations : Registry!Register(g)
<1>. DEFINE r == Req(p)
            g == [step |-> r.step, kind |-> r.kind, target |-> r.target, id |-> nextId]
<1>1. /\ objects' = objects \cup {[id |-> nextId, kind |-> r.kind, of |-> r.target,
                                   edited |-> FALSE, used |-> FALSE]}
      /\ Unclaimed(r) /\ Fresh(r) /\ Insertable(r)
  BY CommitFacts DEF Commit, AcceptWrites, Valid, Req
<1>2. /\ r \in Request /\ r.dir = "forward"
      /\ r.kind = "task_list" => WasRegistered(r.target)
  BY CommitFacts DEF PlanOK
<1>3. PICK x0 : /\ receipts' = receipts \cup {x0}
                /\ x0.call = r /\ x0.outcome = "accepted" /\ x0.object = nextId
  BY CommitFacts DEF PlanOK
<1>. HIDE DEF r
<1>4. /\ AcceptedReceipts("forward")' = AcceptedReceipts("forward") \cup {x0}
      /\ AcceptedReceipts("inverse")' = AcceptedReceipts("inverse")
  BY <1>2, <1>3 DEF AcceptedReceipts
<1>5. Registrations' = Registrations \cup {g} /\ Withdrawn' = Withdrawn
  BY <1>3, <1>4 DEF Registrations, Withdrawn
<1>6. nextId \in Nat /\ \A o \in objects : o.id \in Nat /\ o.id < nextId
  BY DEF IInv, TypeOK, Object, Rows, IdsAreFresh
<1>7. ASSUME NEW h \in Registrations
      PROVE  h.id # nextId /\ (h.kind = r.kind => h.step # r.step /\ h.target # r.target)
  <2>1. h.id # nextId
    BY <1>6, RegistrationsAreBound
  <2>2. ASSUME h.kind = r.kind PROVE h.target # r.target
    BY <1>1, <2>2, RegistrationsAreBound DEF Unclaimed, BindingFor
  <2>3. ASSUME h.kind = r.kind PROVE h.step # r.step
    <3>1. PICK x \in AcceptedReceipts("forward") : h = Told(x)
      BY RegistrationsAreBound
    <3>2. x \in receipts /\ x.outcome = "accepted" /\ x.call.dir = r.dir
      BY <1>2, <3>1 DEF AcceptedReceipts
    <3>3. ~SameStep(x.call, r)
      BY <1>1, <3>2 DEF Fresh, AcceptedForStep
    <3>. QED
      BY <2>3, <3>1, <3>2, <3>3 DEF SameStep, Told
  <2>. QED
    BY <2>1, <2>2, <2>3
<1>8. \A o \in objects : o.id # nextId /\ (o.kind = r.kind => o.of # r.target)
  BY <1>1, <1>6 DEF Insertable, Observe
<1>9. Registry!Unheard(g)
  BY <1>7, <1>8 DEF Registry!Unheard
<1>10. Registry!HasWhole(g)
  <2>. SUFFICES ASSUME r.kind = "task_list"
                PROVE  /\ \E h \in Registrations : h.kind = "project" /\ h.id = r.target
                       /\ r.target \notin Withdrawn
                       /\ \E o \in objects : o.id = r.target
    BY DEF Registry!HasWhole
  <2>1. PICK o \in objects : o.id = r.target
    BY <1>1 DEF Insertable, Row
  <2>2. \E h \in Registrations : h.kind = "project" /\ h.id = r.target
    BY <1>2, RegistrationsAreBound DEF WasRegistered
  <2>3. r.target \notin Withdrawn
    BY <2>1, RegistrationsAreBound DEF IInv, Rows, RemovedIsGone, Row
  <2>. QED
    BY <2>1, <2>2, <2>3
<1>11. Registry!Register(g)
  BY <1>1, <1>5, <1>9, <1>10 DEF Registry!Register, Registry!New
<1>12. g \in Registrations' \ Registrations
  BY <1>5, <1>7
<1>. QED
  BY <1>11, <1>12

LEMMA RemoveWithdraws ==
  ASSUME IInv, NEW p \in Procs, Commit(p), call[p].plan.do = "remove"
  PROVE  \E g \in Registrations : Registry!Withdraw(g)
<1>. DEFINE r == Req(p)
<1>1. PICK b \in bindings :
        /\ b.state = "accepted" /\ b.call.kind = r.kind
        /\ b.call.step = r.step /\ b.object = r.target
        /\ objects' = objects \ Row(r.target)
  BY RemoveFacts
<1>2. PICK x0 : /\ receipts' = receipts \cup {x0} /\ r.dir = "inverse"
                /\ x0.call = r /\ x0.outcome = "accepted" /\ x0.object = r.target
  BY CommitFacts DEF PlanOK, Req
<1>3. Fresh(r)
  BY CommitFacts DEF Valid, Req
<1>. HIDE DEF r
<1>4. AcceptedReceipts("inverse")' = AcceptedReceipts("inverse") \cup {x0}
      /\ AcceptedReceipts("forward")' = AcceptedReceipts("forward")
      /\ x0 \notin AcceptedReceipts("inverse")
  BY <1>2, <1>3 DEF AcceptedReceipts, Fresh, AcceptedForStep, SameStep
<1>5. Withdrawn' = Withdrawn \cup {r.target} /\ Registrations' = Registrations
  BY <1>2, <1>4 DEF Registrations, Withdrawn
<1>6. UntouchedOnly
  BY InverseTakesItsOwn DEF Next, Serve
<1>7. PICK o \in objects :
        /\ o.id = r.target /\ ~o.edited /\ ~o.used /\ objects' = objects \ {o}
        /\ ~\E q \in objects :
             q.kind = "task_list" /\ r.kind = "project" /\ q.of = r.target
  BY <1>2, <1>4, <1>6 DEF UntouchedOnly
<1>8. PICK g \in Registrations : g.id = b.object /\ g.kind = b.call.kind
  BY <1>1, RegistrationsAreBound
<1>9. r.target \notin Withdrawn
  BY <1>1, RegistrationsAreBound DEF IInv, Owners, OneOwnerPerObject
<1>10. Registry!Untouched(g, o)
  BY <1>1, <1>7, <1>8 DEF Registry!Untouched
<1>. QED
  BY <1>1, <1>5, <1>7, <1>8, <1>9, <1>10 DEF Registry!Withdraw

LEMMA RegistryStep ==
  ASSUME IInv, IInv', [Next]_vars
  PROVE  [Registry!Next]_(Registry!vars)
<1>1. OneRowPerId'
  BY DEF IInv, Rows
<1>2. ASSUME receipts' = receipts,
             \A o \in objects' : (\E q \in objects : q.id = o.id) \/ o.id = nextId
      PROVE  Registry!Next
  BY <1>1, <1>2, OthersWrite DEF AcceptedReceipts, Registry!Next
<1>3. CASE UNCHANGED vars
  BY <1>2, <1>3 DEF vars
<1>4. CASE OrdinaryWrite
  BY <1>2, <1>4, OrdinaryWriteIsOrdinary DEF IInv, Ordinary
<1>5. ASSUME NEW p \in Procs, CallStep(p) PROVE Registry!Next
  BY <1>2, <1>5, CallStepIsQuiet DEF IInv, Quiet
<1>6. ASSUME NEW p \in Procs, Commit(p) PROVE Registry!Next
  <2>1. CASE call[p].plan.do \in {"answer", "refuse"}
    <3>1. objects' = objects /\ Written(call[p]).outcome # "accepted"
      BY <1>6, <2>1, CommitFacts DEF Commit, RefuseWrites, PlanOK
    <3>2. \A dir : AcceptedReceipts(dir)' = AcceptedReceipts(dir)
      BY <1>6, <3>1, CommitFacts DEF AcceptedReceipts
    <3>. QED
      BY <1>1, <3>1, <3>2, OthersWrite DEF Registry!Next
  <2>2. CASE call[p].plan.do = "accept"
    BY <1>6, <2>2, AcceptRegisters DEF Registry!Next
  <2>3. CASE call[p].plan.do = "remove"
    BY <1>6, <2>3, RemoveWithdraws DEF Registry!Next
  <2>. QED
    BY <1>6, <2>1, <2>2, <2>3 DEF Commit
<1>. QED
  BY <1>3, <1>4, <1>5, <1>6 DEF Next, Serve, CallStep

(* Through retries, stale plans, failed writes, crashes and other processes, *)
(* the authority takes the steps of a registry that registers a step and a   *)
(* target once, under a registered whole that is there, and takes back only  *)
(* what it created, as it created it.                                        *)
THEOREM AuthorityImplementsCreateOnce == Spec => RegistersOnce
<1>1. Init => Registry!Init
  BY DEF Init, Registry!Init, Registrations, Withdrawn, AcceptedReceipts
<1>2. IInv /\ IInv' /\ [Next]_vars => [Registry!Next]_(Registry!vars)
  BY RegistryStep
<1>. QED
  BY <1>1, <1>2, RegistrationInvariant, PTL DEF Spec, RegistersOnce, Registry!Spec
=============================================================================
