------------------------ MODULE ProjectRegistration ------------------------
(* The project registration authority (src/src/project-registration):       *)
(* another service asks for a project, or for the default task list of a    *)
(* registered project, to be created once and to be removed again only as   *)
(* it was created.  Every answer is an immutable receipt, looked up by the  *)
(* key of the call.                                                         *)
(*                                                                          *)
(* The SQLite backend stages a call in memory and commits the staged writes *)
(* in one transaction, after it has checked that the ordinary rows it had   *)
(* looked at are unchanged; on a conflict the call starts over.  One        *)
(* process runs its calls one after the other; several processes open the   *)
(* same file, and ordinary writers do not take part in any of this.         *)
EXTENDS Naturals

CONSTANTS
  Steps,       \* pairs of an operation id and a step id
  Sources,     \* project ids of the calling service, with their slugs
  Names,       \* project names: what one step may be asked to do differently
  Procs,       \* processes that serve the authority
  VersionOf,   \* VersionOf[p]: the package version of p, which its callers must name
  RetryLimit,  \* SQLITE_TRANSACTION_RETRY_LIMIT
  MaxCalls,    \* bound: calls
  MaxFaults,   \* bound: write faults and crashes
  MaxWrites    \* bound: ordinary writes

ASSUME LimitsAssumption ==
  /\ RetryLimit \in Nat /\ MaxCalls \in Nat
  /\ MaxFaults \in Nat /\ MaxWrites \in Nat

ASSUME SourcesAssumption == Sources \cap Nat = {}

VARIABLES
  objects,   \* rows of projects and task_lists
  nextId,    \* the next fresh id (uuid)
  receipts,  \* todos_project_registration_receipts
  bindings,  \* todos_project_registration_bindings
  call,      \* call[p]: the call p serves
  begun, faults, writes  \* history: calls, faults and ordinary writes so far

vars == <<objects, nextId, receipts, bindings, call, begun, faults, writes>>

Kinds == {"project", "task_list"}

(* The target selector: the source of a project, the project of a list, or  *)
(* the object an inverse is to remove.                                      *)
Request ==
  [step : Steps, kind : Kinds, dir : {"forward", "inverse"},
   target : Sources \cup Nat, name : Names, version : {VersionOf[p] : p \in Procs}]

(* of is the slug of a project and the project of a list; edited stands for *)
(* a revision or digest other than at creation, used for rows that refer to *)
(* the object, task lists aside.                                            *)
Object ==
  [id : Nat, kind : Kinds, of : Sources \cup Nat, edited : BOOLEAN, used : BOOLEAN]

Reasons ==
  {"none", "operation_step_semantics_changed", "target_registration_was_removed",
   "target_already_registered", "target_already_exists",
   "exact_parent_registration_missing", "exact_parent_project_missing",
   "target_not_owned_by_receipt", "target_missing_before_inverse", "target_drifted",
   "target_has_dependents", "write_failed"}

Receipt ==
  [call : Request, outcome : {"accepted", "duplicate", "terminal"}, object : Nat,
   reason : Reasons]

Binding ==
  [call : Request, state : {"accepted", "terminal", "removed"}, object : Nat]

(* The idempotency key covers everything but the package version; the       *)
(* digest of a call covers that too.                                        *)
SameKey(r, s) == [r EXCEPT !.version = s.version] = s

SameStep(r, s) == r.step = s.step /\ r.kind = s.kind /\ r.dir = s.dir

ForKey(r) == {x \in receipts : SameKey(x.call, r)}

AcceptedForStep(r) == {x \in receipts : SameStep(x.call, r) /\ x.outcome = "accepted"}

(* Terminal receipts are looked up before all others. *)
Refused(r) == \E x \in ForKey(r) : x.outcome = "terminal"

BindingFor(kind, target) ==
  {b \in bindings : b.call.kind = kind /\ b.call.target = target}

Row(i) == {o \in objects : o.id = i}

-----------------------------------------------------------------------------
(* Plans: the staged writes of a call and the ordinary rows it looked at *)

(* What a query of the plan of r returns now. *)
Observe(query, r) ==
  CASE query = "conflict"   -> {o \in objects : o.kind = r.kind /\ o.of = r.target}
    [] query = "row"        -> Row(r.target)
    [] query = "dependents" ->
         {o \in objects : o.id = r.target /\ o.used}
           \cup {o \in objects : o.kind = "task_list" /\ r.kind = "project" /\ o.of = r.target}

Seen(queries, r) == [q \in queries |-> Observe(q, r)]

Plan(do, seen, outcome, object, reason) ==
  [do |-> do, seen |-> seen, outcome |-> outcome, object |-> object, reason |-> reason]

Nothing == [q \in {} |-> {}]

(* A receipt and nothing else. *)
Terminal(reason, seen) == Plan("answer", seen, "terminal", 0, reason)
Duplicate(a) == Plan("answer", Nothing, "duplicate", a.object, "none")

(* The claimed binding becomes terminal with the receipt. *)
Refuse(reason, seen) == Plan("refuse", seen, "terminal", 0, reason)

(* existingForwardResolution and its repetition in recordWriteFailure, once *)
(* a has been accepted for the step.                                        *)
Resolution(r, a) ==
  IF a.call = r THEN Duplicate(a) ELSE Terminal("operation_step_semantics_changed", Nothing)

(* claimBinding failed: the target has a binding already. *)
Claimed(r, b) ==
  IF b.state = "accepted" /\ b.call = r
    THEN Plan("answer", Nothing, "duplicate", b.object, "none")
    ELSE Terminal(IF b.state = "removed" THEN "target_registration_was_removed"
                                         ELSE "target_already_registered", Nothing)

(* createObject *)
CreateProject(r) ==
  LET seen == Seen({"conflict"}, r)
  IN  IF Observe("conflict", r) # {}
        THEN Refuse("target_already_exists", seen)
        ELSE Plan("accept", seen, "accepted", 0, "none")

ParentRegistered(r) ==
  \E b \in bindings : b.call.kind = "project" /\ b.state = "accepted" /\ b.object = r.target

CreateTaskList(r) ==
  IF ~ParentRegistered(r)
    THEN Refuse("exact_parent_registration_missing", Nothing)
    ELSE IF Row(r.target) = {}
      THEN Refuse("exact_parent_project_missing", Seen({"row"}, r))
      ELSE IF Observe("conflict", r) # {}
        THEN Refuse("target_already_exists", Seen({"row", "conflict"}, r))
        ELSE Plan("accept", Seen({"row", "conflict"}, r), "accepted", 0, "none")

Create(r) ==
  LET bound == BindingFor(r.kind, r.target)
  IN  IF bound # {} THEN Claimed(r, CHOOSE b \in bound : TRUE)
      ELSE IF r.kind = "project" THEN CreateProject(r) ELSE CreateTaskList(r)

(* The binding the accepted receipt of the step still owns. *)
Owned(r) ==
  {b \in bindings : b.state = "accepted" /\ b.call.kind = r.kind
                    /\ b.call.step = r.step /\ b.object = r.target}

\* Mutant of Watched: the inverse does not look at dependents again.
WatchedRow(queries) == queries \ {"dependents"}

Watched(queries) == queries

(* compensate *)
Compensate(r) ==
  IF Owned(r) = {} THEN Terminal("target_not_owned_by_receipt", Nothing)
  ELSE IF Row(r.target) = {}
    THEN Terminal("target_missing_before_inverse", Seen({"row"}, r))
  ELSE IF \E o \in Row(r.target) : o.edited
    THEN Terminal("target_drifted", Seen({"row"}, r))
  ELSE IF Observe("dependents", r) # {}
    THEN Terminal("target_has_dependents", Seen({"row", "dependents"}, r))
  ELSE Plan("remove", Seen(Watched({"row", "dependents"}), r), "accepted", r.target, "none")

(* The second transaction after a failed write. *)
WriteFailed(r) ==
  IF r.dir = "inverse" \/ BindingFor(r.kind, r.target) # {}
    THEN Terminal("write_failed", Nothing)
    ELSE Refuse("write_failed", Nothing)

Planned(r, failed) ==
  IF failed THEN WriteFailed(r)
  ELSE IF r.dir = "forward" THEN Create(r) ELSE Compensate(r)

-----------------------------------------------------------------------------
(* A call of the authority *)

Idle == [at |-> "idle"]

NoPlan == Plan("none", Nothing, "none", 0, "none")

Call(r, at, failed, tries, plan) ==
  [at |-> at, request |-> r, failed |-> failed, tries |-> tries, plan |-> plan]

Init ==
  /\ objects = {} /\ nextId = 1
  /\ receipts = {} /\ bindings = {}
  /\ call = [p \in Procs |-> Idle]
  /\ begun = 0 /\ faults = 0 /\ writes = 0

Forward(p, s, kind, target, n) ==
  [step |-> s, kind |-> kind, dir |-> "forward", target |-> target, name |-> n,
   version |-> VersionOf[p]]

(* What may be asked of p: a project, the list of a project some receipt    *)
(* named, or the inverse of an accepted create, by its receipt.             *)
AskedProjects(p) ==
  {Forward(p, s, "project", t, n) : s \in Steps, t \in Sources, n \in Names}

AskedLists(p) ==
  {Forward(p, s, "task_list", x.object, n) : s \in Steps, n \in Names,
     x \in {y \in receipts : y.outcome = "accepted" /\ y.call.kind = "project"}}

AskedInverses(p) ==
  {[x.call EXCEPT !.dir = "inverse", !.target = x.object] :
     x \in {y \in receipts : /\ y.outcome = "accepted" /\ y.call.dir = "forward"
                             /\ y.call.version = VersionOf[p]}}

Asked(p) == AskedProjects(p) \cup AskedLists(p) \cup AskedInverses(p)

Begin(p) ==
  /\ call[p] = Idle /\ begun < MaxCalls
  /\ begun' = begun + 1
  /\ \E r \in Asked(p) : call' = [call EXCEPT ![p] = Call(r, "resolve", FALSE, 0, NoPlan)]
  /\ UNCHANGED <<objects, nextId, receipts, bindings, faults, writes>>

(* The look for receipts that settle the call.  The inverse and the second  *)
(* transaction return whatever receipt the key has; the inverse's second    *)
(* transaction does not look.                                               *)
Settled(c) ==
  IF c.request.dir = "forward" /\ ~c.failed
    THEN Refused(c.request)
    ELSE ForKey(c.request) # {} /\ (c.request.dir = "forward" \/ ~c.failed)

Resolve(p) ==
  /\ call[p].at = "resolve"
  /\ LET r == call[p].request IN
     \/ /\ Settled(call[p])
        /\ call' = [call EXCEPT ![p] = Idle]
     \/ /\ ~Settled(call[p]) /\ r.dir = "forward"
        /\ \E a \in AcceptedForStep(r) :
             call' = [call EXCEPT ![p] = Call(r, "commit", @.failed, @.tries, Resolution(r, a))]
     \/ /\ ~Settled(call[p])
        /\ r.dir = "forward" => AcceptedForStep(r) = {}
        /\ call' = [call EXCEPT ![p] = Call(r, "plan", @.failed, @.tries, NoPlan)]
  /\ UNCHANGED <<objects, nextId, receipts, bindings, begun, faults, writes>>

PlanCall(p) ==
  /\ call[p].at = "plan"
  /\ call' = [call EXCEPT ![p] =
                Call(@.request, "commit", @.failed, @.tries, Planned(@.request, @.failed))]
  /\ UNCHANGED <<objects, nextId, receipts, bindings, begun, faults, writes>>

(* What the commit finds as the plan left it: the rows it looked at, and    *)
(* the keys its INSERTs and UPDATEs rely on.                                *)
RowsUnchanged(c) ==
  \A q \in DOMAIN c.plan.seen : c.plan.seen[q] = Observe(q, c.request)

\* Mutant of Fresh: unique per key, not per step.
FreshKey(r) == ForKey(r) = {}

Fresh(r) == AcceptedForStep(r) = {}

Insertable(r) ==
  /\ Observe("conflict", r) = {}
  /\ r.kind = "task_list" => Row(r.target) # {}

Unclaimed(r) == BindingFor(r.kind, r.target) = {}

Valid(c) ==
  LET r == c.request IN
  /\ RowsUnchanged(c)
  /\ c.plan.do \in {"accept", "refuse"} => Unclaimed(r)
  /\ c.plan.do = "accept" => Fresh(r) /\ Insertable(r)
  /\ c.plan.do = "remove" => Fresh(r) /\ Owned(r) # {} /\ Row(r.target) # {}

Written(c) ==
  [call |-> c.request, outcome |-> c.plan.outcome, reason |-> c.plan.reason,
   object |-> IF c.plan.do = "accept" THEN nextId ELSE c.plan.object]

\* Mutant of Bound: the claim is never settled.
BoundClaimed(r, state, object) == [call |-> r, state |-> "claimed", object |-> object]

Bound(r, state, object) == [call |-> r, state |-> state, object |-> object]

(* The staged writes of a plan. *)
AcceptWrites(r) ==
  /\ objects' = objects \cup {[id |-> nextId, kind |-> r.kind, of |-> r.target,
                               edited |-> FALSE, used |-> FALSE]}
  /\ nextId' = nextId + 1
  /\ bindings' = bindings \cup {Bound(r, "accepted", nextId)}

RefuseWrites(r) ==
  /\ bindings' = bindings \cup {Bound(r, "terminal", 0)}
  /\ UNCHANGED <<objects, nextId>>

RemoveWrites(r) ==
  /\ objects' = objects \ Row(r.target)
  /\ bindings' = (bindings \ Owned(r)) \cup {[b EXCEPT !.state = "removed"] : b \in Owned(r)}
  /\ UNCHANGED nextId

Commit(p) ==
  /\ call[p].at = "commit" /\ Valid(call[p])
  /\ receipts' = receipts \cup {Written(call[p])}
  /\ LET r == call[p].request
         do == call[p].plan.do
     IN  \/ do = "answer" /\ UNCHANGED <<objects, nextId, bindings>>
         \/ do = "refuse" /\ RefuseWrites(r)
         \/ do = "accept" /\ AcceptWrites(r)
         \/ do = "remove" /\ RemoveWrites(r)
  /\ call' = [call EXCEPT ![p] = Idle]
  /\ UNCHANGED <<begun, faults, writes>>

(* SqliteRegistrationOptimisticConflict: the call starts over or fails. *)
Conflict(p) ==
  /\ call[p].at = "commit" /\ ~Valid(call[p])
  /\ LET c == call[p]
     IN call' = [call EXCEPT ![p] =
                   IF c.tries + 1 < RetryLimit
                     THEN Call(c.request, "resolve", c.failed, c.tries + 1, NoPlan)
                     ELSE Idle]
  /\ UNCHANGED <<objects, nextId, receipts, bindings, begun, faults, writes>>

(* A write of an object or of its receipt fails: nothing is committed, and  *)
(* the failure is recorded in a transaction of its own.                     *)
WriteFault(p) ==
  /\ call[p].at = "commit" /\ call[p].plan.do \in {"accept", "remove"}
  /\ faults < MaxFaults
  /\ faults' = faults + 1
  /\ call' = [call EXCEPT ![p] = Call(@.request, "resolve", TRUE, 0, NoPlan)]
  /\ UNCHANGED <<objects, nextId, receipts, bindings, begun, writes>>

Crash(p) ==
  /\ call[p] # Idle
  /\ faults < MaxFaults
  /\ faults' = faults + 1
  /\ call' = [call EXCEPT ![p] = Idle]
  /\ UNCHANGED <<objects, nextId, receipts, bindings, begun, writes>>

-----------------------------------------------------------------------------
(* Ordinary writers *)

Write(new) ==
  /\ writes < MaxWrites
  /\ writes' = writes + 1
  /\ objects' = new
  /\ UNCHANGED <<receipts, bindings, call, begun, faults>>

(* Slugs of projects are unique, and so are those of the lists of a project. *)
OrdinaryCreate(kind, of) ==
  /\ ~\E o \in objects : o.kind = kind /\ o.of = of
  /\ nextId' = nextId + 1
  /\ Write(objects \cup {[id |-> nextId, kind |-> kind, of |-> of,
                          edited |-> FALSE, used |-> FALSE]})

Edit(o) ==
  /\ Write((objects \ {o}) \cup {[o EXCEPT !.edited = TRUE]})
  /\ UNCHANGED nextId

(* A task, a plan or another row starts or ceases to refer to o. *)
Use(o) ==
  /\ Write((objects \ {o}) \cup {[o EXCEPT !.used = ~@]})
  /\ UNCHANGED nextId

(* ON DELETE SET NULL: the lists of a deleted project belong to none. *)
Orphaned(o, i) ==
  IF o.kind = "task_list" /\ o.of = i THEN [o EXCEPT !.of = 0, !.edited = TRUE] ELSE o

OrdinaryDelete(o) ==
  /\ Write({Orphaned(x, o.id) : x \in objects \ {o}})
  /\ UNCHANGED nextId

-----------------------------------------------------------------------------

Serve(p) == Resolve(p) \/ PlanCall(p) \/ Commit(p) \/ Conflict(p)

OrdinaryWrite ==
  \/ \E t \in Sources : OrdinaryCreate("project", t)
  \/ \E o \in objects :
       \/ o.kind = "project" /\ OrdinaryCreate("task_list", o.id)
       \/ Edit(o) \/ Use(o) \/ OrdinaryDelete(o)

Next ==
  \/ \E p \in Procs : Begin(p) \/ Serve(p) \/ WriteFault(p) \/ Crash(p)
  \/ OrdinaryWrite

Spec == Init /\ [][Next]_vars

-----------------------------------------------------------------------------
(* Properties *)

(* Type correctness of the tables and of the calls. *)
TypeOK ==
  /\ objects \in SUBSET Object /\ nextId \in Nat
  /\ receipts \in SUBSET Receipt
  /\ bindings \in SUBSET Binding
  /\ DOMAIN call = Procs
  /\ \A p \in Procs : call[p] # Idle =>
       /\ call[p].at \in {"resolve", "plan", "commit"}
       /\ call[p].request \in Request
       /\ call[p].plan.do \in {"none", "answer", "refuse", "accept", "remove"}

AcceptedReceipts(dir) ==
  {x \in receipts : x.outcome = "accepted" /\ x.call.dir = dir}

(* Receipts and bindings tell the same story, through crashes, failed       *)
(* writes, repeated calls and other processes: a target has one binding; a  *)
(* step is accepted once; a binding that was accepted has the receipt of    *)
(* its acceptance, and the receipt its binding; and it is removed exactly   *)
(* when an inverse was accepted.                                            *)
OneBindingPerTarget ==
  \A b, c \in bindings :
    b.call.kind = c.call.kind /\ b.call.target = c.call.target => b = c

AcceptedOnce ==
  \A x, y \in receipts :
    x.outcome = "accepted" /\ y.outcome = "accepted" /\ SameStep(x.call, y.call) => x = y

ReceiptHasBinding ==
  \A x \in AcceptedReceipts("forward") : \E b \in bindings :
    /\ b.call = x.call /\ b.object = x.object
    /\ b.state = IF \E y \in AcceptedReceipts("inverse") :
                      y.call.kind = x.call.kind /\ y.object = x.object
                   THEN "removed" ELSE "accepted"

BindingHasReceipt ==
  \A b \in bindings : b.state # "terminal" =>
    \E x \in AcceptedReceipts("forward") : x.call = b.call /\ x.object = b.object

RegistryAgrees ==
  OneBindingPerTarget /\ AcceptedOnce /\ ReceiptHasBinding /\ BindingHasReceipt

(* An inverse removes nothing but the object its operation created, as it   *)
(* was created and with nothing that refers to it, whatever ordinary        *)
(* writers did while the inverse was planned.                               *)
UntouchedOnly ==
  \A x \in AcceptedReceipts("inverse")' \ AcceptedReceipts("inverse") :
    /\ \E o \in objects :
         /\ o.id = x.object /\ ~o.edited /\ ~o.used
         /\ objects' = objects \ {o}
    /\ \E a \in AcceptedReceipts("forward") : a.object = x.object /\ a.call.step = x.call.step
    /\ ~\E o \in objects : o.kind = "task_list" /\ x.call.kind = "project" /\ o.of = x.object

InverseRemovesUntouched == [][UntouchedOnly]_vars

(* A task list is accepted only for a project that is there and registered  *)
(* at that moment, although the plan read both earlier.                     *)
ParentThere ==
  \A x \in AcceptedReceipts("forward")' \ AcceptedReceipts("forward") :
    x.call.kind = "task_list" => ParentRegistered(x.call) /\ Row(x.call.target) # {}

ListsHaveRegisteredParents == [][ParentThere]_vars

(* The registrations the accepted receipts tell of, and those taken back. *)
Registrations ==
  {[step |-> x.call.step, kind |-> x.call.kind, target |-> x.call.target, id |-> x.object] :
     x \in AcceptedReceipts("forward")}

Withdrawn == {x.object : x \in AcceptedReceipts("inverse")}

Registry == INSTANCE CreateOnce
  WITH rows <- objects, registered <- Registrations, withdrawn <- Withdrawn

(* Whatever is retried, planned on stale rows, lost or answered twice, the  *)
(* authority registers, withdraws and refuses as a registry does that takes *)
(* one step for each: CreateOnce.                                           *)
RegistersOnce == Registry!Spec
=============================================================================
