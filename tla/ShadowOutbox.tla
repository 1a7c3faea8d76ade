---- MODULE ShadowOutbox ----
(* The durable shadow outbox (src/src/storage/shadow-outbox.ts and           *)
(* shadow-outbox-schema.ts): every local write of a mirrored row fires a     *)
(* SQLite trigger that queues the row's id; drainers, one per process that   *)
(* serves the same database file, push the current row to the cloud and      *)
(* delete the queue entry.  The cloud keeps a pushed record only when its    *)
(* stamp and version are not older than the stored ones (postgres-sync.ts).  *)
(*                                                                           *)
(* The stamps do not order the changes.  A caller takes now() in JavaScript  *)
(* and its UPDATE then waits for the write lock of SQLite, so a change may   *)
(* bear an older stamp than the change before it, and some updates set no    *)
(* stamp at all.  Such a change is a slip: the cloud cannot tell that it is  *)
(* the newest.  The properties say what holds of all the others.             *)
(*                                                                           *)
(* Local statements are atomic (SQLite).  A push is one upsert statement     *)
(* that reaches the cloud any time after the row was read; it may fail       *)
(* before or after the cloud applied it, and may still be applied after its  *)
(* sender gave up.  A drainer may die at any point.                          *)
EXTENDS Naturals, FiniteSets

CONSTANTS
  Objects,     \* ids of the rows of the mirrored tables
  Versioned,   \* the tasks: their stamped updates also raise version
  Drainers,    \* processes that drain the same database file
  MaxRetries,  \* maxRetries of the outbox
  BatchSize,   \* batchSize of the outbox
  MaxChanges,  \* bound: local changes of one object
  MaxFaults    \* bound: failed pushes and crashes

ASSUME SetsAssumption == Versioned \subseteq Objects
ASSUME LimitsAssumption ==
  /\ MaxRetries \in Nat /\ BatchSize \in Nat \ {0}
  /\ MaxChanges \in Nat /\ MaxFaults \in Nat

VARIABLES
  clock,    \* the newest stamp in use; wall clocks do not run backwards
  local,    \* local[o]: the SQLite row of o, or that there is none
  changes,  \* history: how many times the local row of o was changed
  newest,   \* history: the row of o as the change with the newest stamp and version left it
  slips,    \* history: the changes of o whose stamp and version were not the newest
  outbox,   \* the rows of shadow_outbox
  nextSeq,  \* the next AUTOINCREMENT value of shadow_outbox.seq
  remote,   \* remote[o]: the cloud record of o; one of stamp 0 stands for none
  firm,     \* history: the last change of o, slips apart, that the cloud took
  queue,    \* queue[d]: rows of its batch drainer d has not begun
  push,     \* push[d]: the one row d is pushing, if any, with the entry it sent
  stray,    \* entries whose sender gave up and that the cloud may still apply
  faults    \* history: failed pushes and crashes so far

vars == <<clock, local, changes, newest, slips, outbox, nextSeq, remote, firm,
          queue, push, stray, faults>>

(* created_at, and the updated_at (created_at if there is none) and version  *)
(* (0 if there is none) that the cloud compares.                             *)
LocalRow == [here : BOOLEAN, born : Nat, stamp : Nat, version : Nat]

(* change is history: the change of the object the trigger last recorded.    *)
OutboxRow ==
  [seq : Nat, id : Objects, op : {"upsert", "delete"}, attempts : Nat,
   revision : Nat, status : {"pending", "failed"}, due : BOOLEAN, change : Nat]

(* The entry of a pushed snapshot: a live record or a tombstone, its         *)
(* updated_at, its version (null counts as 0), and the change it shows.      *)
Entry == [id : Objects, stamp : Nat, version : Nat, gone : BOOLEAN, change : Nat]

Push == [row : OutboxRow, entry : Entry, applied : BOOLEAN]

NoRow == [here |-> FALSE, born |-> 0, stamp |-> 0, version |-> 0]

NoEntry(o) == [id |-> o, stamp |-> 0, version |-> 0, gone |-> TRUE, change |-> 0]

Init ==
  /\ clock = 0
  /\ local = [o \in Objects |-> NoRow]
  /\ changes = [o \in Objects |-> 0]
  /\ newest = [o \in Objects |-> NoRow]
  /\ slips = [o \in Objects |-> {}]
  /\ outbox = {}
  /\ nextSeq = 1
  /\ remote = [o \in Objects |-> NoEntry(o)]
  /\ firm = [o \in Objects |-> 0]
  /\ queue = [d \in Drainers |-> {}]
  /\ push = [d \in Drainers |-> {}]
  /\ stray = {}
  /\ faults = 0

-----------------------------------------------------------------------------
(* Local writes and the triggers they fire *)

Pending(o) == {x \in outbox : x.id = o /\ x.status = "pending"}

(* INSERT ... ON CONFLICT(pending row of the object) DO UPDATE *)
Trigger(o, op) ==
  LET kept == Pending(o)
      n    == changes[o] + 1
  IN  /\ changes' = [changes EXCEPT ![o] = n]
      /\ \/ /\ kept = {}
            /\ outbox' = outbox \cup
                 {[seq |-> nextSeq, id |-> o, op |-> op, attempts |-> 0, revision |-> 0,
                   status |-> "pending", due |-> TRUE, change |-> n]}
            /\ nextSeq' = nextSeq + 1
         \/ /\ kept # {}
            /\ outbox' = (outbox \ kept) \cup
                 {[x EXCEPT !.op = op, !.attempts = 0, !.due = TRUE,
                            !.revision = @ + 1, !.change = n] : x \in kept}
            /\ UNCHANGED nextSeq

(* A write as a whole: the statement and its trigger. *)
Write(o, row, op) ==
  /\ changes[o] < MaxChanges
  /\ local' = [local EXCEPT ![o] = row]
  /\ Trigger(o, op)
  /\ UNCHANGED <<remote, firm, queue, push, stray, faults>>

(* x would lose against y in the cloud. *)
Older(x, y) ==
  \/ x.stamp < y.stamp
  \/ x.stamp = y.stamp /\ x.version < y.version

(* History: whether the change that leaves this row bears the newest stamp   *)
(* and version of all the changes of o, or slips.                            *)
Ranks(o, row) ==
  \/ /\ Older(newest[o], row)
     /\ newest' = [newest EXCEPT ![o] = row]
     /\ UNCHANGED slips
  \/ /\ ~Older(newest[o], row)
     /\ slips' = [slips EXCEPT ![o] = @ \cup {changes[o] + 1}]
     /\ UNCHANGED newest

(* An INSERT or UPDATE by a caller that took now() earlier.                  *)
Stamps(o, now, row) ==
  /\ clock' = IF now > clock THEN now ELSE clock
  /\ Write(o, row, "upsert")
  /\ Ranks(o, row)

(* createTask and the other inserts; ids are fresh, never those of a deleted *)
(* row.                                                                      *)
Create(o) ==
  /\ changes[o] = 0
  /\ \E now \in 1 .. clock + 1 :
       Stamps(o, now, [here |-> TRUE, born |-> now, stamp |-> now,
                       version |-> IF o \in Versioned THEN 1 ELSE 0])

(* UPDATE ... SET ..., version = version + 1, updated_at = now; only tasks   *)
(* have the version.  The caller has read the row, hence after it was born.  *)
Update(o) ==
  /\ local[o].here
  /\ \E now \in local[o].born .. clock + 1 :
       Stamps(o, now, [local[o] EXCEPT !.stamp = now,
                                       !.version = IF o \in Versioned THEN @ + 1 ELSE @])

(* clearExpiredLocks, heartbeat and the other updates that set neither.      *)
QuietUpdate(o) ==
  /\ local[o].here
  /\ Stamps(o, clock, local[o])

(* Of a task or another row of a table whose deletes are captured.           *)
Delete(o) ==
  /\ local[o].here
  /\ Write(o, [local[o] EXCEPT !.here = FALSE], "delete")
  /\ UNCHANGED <<clock, newest, slips>>

-----------------------------------------------------------------------------
(* Draining *)

Idle(d) == queue[d] = {} /\ push[d] = {}

\* Mutant of Due: rows that failed once are not selected again.
DueFirst == {x \in outbox : x.status = "pending" /\ x.due /\ x.attempts = 0}

Due == {x \in outbox : x.status = "pending" /\ x.due}

(* The oldest BatchSize of the due rows, or all of them if they are fewer. *)
IsBatch(batch) ==
  /\ batch # {} /\ Cardinality(batch) <= BatchSize
  /\ \A x \in batch, y \in Due \ batch : x.seq < y.seq
  /\ batch # Due => Cardinality(batch) = BatchSize

Select(d) ==
  /\ Idle(d)
  /\ \E batch \in SUBSET Due :
       /\ IsBatch(batch)
       /\ queue' = [queue EXCEPT ![d] = batch]
  /\ UNCHANGED <<clock, local, changes, newest, slips, outbox, nextSeq, remote, firm,
                 push, stray, faults>>

(* buildSnapshot: a delete, or a row that has gone since, becomes a          *)
(* tombstone stamped with the time of the drain; otherwise the row as it is  *)
(* now, not as it was when the trigger fired.                                *)
IsTombstone(r) == r.op = "delete" \/ ~local[r.id].here

Snapshot(r) ==
  IF IsTombstone(r)
    THEN [id |-> r.id, stamp |-> clock + 1, version |-> 0, gone |-> TRUE,
          change |-> changes[r.id]]
    ELSE [id |-> r.id, stamp |-> local[r.id].stamp, version |-> local[r.id].version,
          gone |-> FALSE, change |-> changes[r.id]]

Build(d) ==
  /\ push[d] = {}
  /\ \E r \in queue[d] :
       /\ \A x \in queue[d] : r.seq <= x.seq
       /\ queue' = [queue EXCEPT ![d] = @ \ {r}]
       /\ push' = [push EXCEPT ![d] = {[row |-> r, entry |-> Snapshot(r), applied |-> FALSE]}]
       /\ clock' = IF IsTombstone(r) THEN clock + 1 ELSE clock
  /\ UNCHANGED <<local, changes, newest, slips, outbox, nextSeq, remote, firm, stray, faults>>

\* Mutant of Accepts: the last writer wins, ON CONFLICT DO UPDATE without WHERE.
AcceptsAll(old, new) == TRUE

(* ON CONFLICT DO UPDATE ... WHERE updated_at < EXCLUDED.updated_at OR (= AND <=) *)
Accepts(old, new) ==
  \/ old.stamp < new.stamp
  \/ old.stamp = new.stamp /\ old.version <= new.version

Upsert(e) ==
  \/ /\ Accepts(remote[e.id], e)
     /\ remote' = [remote EXCEPT ![e.id] = e]
     /\ firm' = IF e.change \in slips[e.id] THEN firm ELSE [firm EXCEPT ![e.id] = e.change]
  \/ /\ ~Accepts(remote[e.id], e)
     /\ UNCHANGED <<remote, firm>>

Apply(d) ==
  /\ \E p \in push[d] :
       /\ ~p.applied
       /\ Upsert(p.entry)
       /\ push' = [push EXCEPT ![d] = {[p EXCEPT !.applied = TRUE]}]
  /\ UNCHANGED <<clock, local, changes, newest, slips, outbox, nextSeq, queue, stray, faults>>

ApplyStray(e) ==
  /\ Upsert(e)
  /\ stray' = stray \ {e}
  /\ UNCHANGED <<clock, local, changes, newest, slips, outbox, nextSeq, queue, push, faults>>

\* Mutant of Same: DELETE and UPDATE by seq alone.
SameSeq(r) == {x \in outbox : x.seq = r.seq}

(* The row of the outbox that is still the one a drainer read. *)
Same(r) == {x \in outbox : x.seq = r.seq /\ x.revision = r.revision}

Confirm(d) ==
  /\ \E p \in push[d] :
       /\ p.applied
       /\ outbox' = outbox \ Same(p.row)
       /\ push' = [push EXCEPT ![d] = {}]
  /\ UNCHANGED <<clock, local, changes, newest, slips, nextSeq, remote, firm, queue, stray,
                 faults>>

\* Mutant of Deferred: attempts counted down.
DeferredDown(x, r) ==
  IF r.attempts + 1 > MaxRetries
    THEN [x EXCEPT !.attempts = r.attempts - 1, !.status = "failed"]
    ELSE [x EXCEPT !.attempts = r.attempts - 1, !.due = FALSE]

(* The catch of processRow: one more attempt, then back-off or parking. *)
Deferred(x, r) ==
  IF r.attempts + 1 > MaxRetries
    THEN [x EXCEPT !.attempts = r.attempts + 1, !.status = "failed"]
    ELSE [x EXCEPT !.attempts = r.attempts + 1, !.due = FALSE]

(* The entry of a push that is given up may still be on its way. *)
GiveUp(p) ==
  stray' \in IF p.applied THEN {stray} ELSE {stray, stray \cup {p.entry}}

Fail(d) ==
  /\ faults < MaxFaults
  /\ faults' = faults + 1
  /\ \E p \in push[d] :
       /\ outbox' = (outbox \ Same(p.row)) \cup {Deferred(x, p.row) : x \in Same(p.row)}
       /\ push' = [push EXCEPT ![d] = {}]
       /\ GiveUp(p)
  /\ UNCHANGED <<clock, local, changes, newest, slips, nextSeq, remote, firm, queue>>

BackoffElapses(x) ==
  /\ x.status = "pending" /\ ~x.due
  /\ outbox' = (outbox \ {x}) \cup {[x EXCEPT !.due = TRUE]}
  /\ UNCHANGED <<clock, local, changes, newest, slips, nextSeq, remote, firm, queue, push,
                 stray, faults>>

(* The process of d dies; another one drains in its place. *)
Crash(d) ==
  /\ ~Idle(d)
  /\ faults < MaxFaults
  /\ faults' = faults + 1
  /\ queue' = [queue EXCEPT ![d] = {}]
  /\ push' = [push EXCEPT ![d] = {}]
  /\ \/ stray' = stray
     \/ \E p \in push[d] : GiveUp(p)
  /\ UNCHANGED <<clock, local, changes, newest, slips, outbox, nextSeq, remote, firm>>

-----------------------------------------------------------------------------

LocalWrite == \E o \in Objects : Create(o) \/ Update(o) \/ QuietUpdate(o) \/ Delete(o)

Drain(d) == Select(d) \/ Build(d) \/ Apply(d) \/ Confirm(d)

Next ==
  \/ LocalWrite
  \/ \E d \in Drainers : Drain(d) \/ Fail(d) \/ Crash(d)
  \/ \E e \in stray : ApplyStray(e)
  \/ \E x \in outbox : BackoffElapses(x)

Spec == Init /\ [][Next]_vars

(* startLoop drains again and again in every process that serves the file,   *)
(* every push ends, and back-off is capped at MAX_BACKOFF_MS.                *)
Fairness ==
  /\ \A d \in Drainers : WF_vars(Drain(d))
  /\ WF_vars(\E x \in outbox : BackoffElapses(x))

FairSpec == Spec /\ Fairness

-----------------------------------------------------------------------------
(* Properties *)

(* Type correctness of the variables. *)
TypeOK ==
  /\ clock \in Nat
  /\ local \in [Objects -> LocalRow]
  /\ changes \in [Objects -> Nat]
  /\ newest \in [Objects -> LocalRow]
  /\ slips \in [Objects -> SUBSET Nat]
  /\ outbox \in SUBSET OutboxRow
  /\ nextSeq \in Nat
  /\ remote \in [Objects -> Entry]
  /\ firm \in [Objects -> Nat]
  /\ queue \in [Drainers -> SUBSET OutboxRow]
  /\ push \in [Drainers -> SUBSET Push]
  /\ stray \in SUBSET Entry
  /\ faults \in Nat

(* The cloud shows the row as it is: the same change of it, or none of it. *)
InSync(o) ==
  IF local[o].here
    THEN ~remote[o].gone /\ remote[o].change = changes[o]
    ELSE remote[o].gone

Queued(o) == \E x \in outbox : x.id = o

(* The cloud's comparison cannot tell that the last change of o is the last. *)
LastSlipped(o) == changes[o] \in slips[o]

(* Nothing is lost silently: an object the cloud does not show as it is has  *)
(* a row in the outbox, pending or parked as failed, whatever drainers do at *)
(* the same time and whatever pushes fail, repeat or come late.  The one     *)
(* exception is an object whose last change slipped; the next change that    *)
(* bears the newest stamp ends it.                                           *)
NothingLost == \A o \in Objects : InSync(o) \/ Queued(o) \/ LastSlipped(o)

(* The cloud is a one-way mirror of the objects. *)
Mirror == INSTANCE OneWayMirror WITH source <- changes, copy <- [o \in Objects |-> remote[o].change]

MirrorsOneWay == Mirror!Spec

(* Draining finishes: once the writes and the faults are over no row waits   *)
(* in the outbox for ever, and every object is in sync or visibly parked,    *)
(* unless its last change slipped.                                           *)
Settled ==
  /\ \A x \in outbox : x.status = "failed"
  /\ \A o \in Objects : InSync(o) \/ Queued(o) \/ LastSlipped(o)

Settles == <>[]Settled
====
