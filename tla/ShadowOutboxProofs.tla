---- MODULE ShadowOutboxProofs ----
(* Proofs about ShadowOutbox: nothing is lost silently but a change that     *)
(* slipped in out of order, and the cloud is a one-way mirror of the         *)
(* objects, for every set of objects, every number of drainers and every     *)
(* limit.                                                                    *)
EXTENDS ShadowOutbox, TLAPS

-----------------------------------------------------------------------------
(* The inductive invariant *)

Pushes == UNION {push[d] : d \in Drainers}

Flying == stray \cup {p.entry : p \in Pushes}

Known == Flying \cup {remote[o] : o \in Objects}

Held == (UNION {queue[d] : d \in Drainers}) \cup {p.row : p \in Pushes}

(* The last change of o is the one with the newest stamp and version. *)
Orderly(o) == changes[o] \notin slips[o]

(* Where an entry stands against the local row: it shows the row as it is,   *)
(* or it is older than it unless the last change slipped; and no entry of a  *)
(* row that is there is newer than the newest change.                        *)
EntryOK(e) ==
  /\ e.change <= changes[e.id]
  /\ e.stamp <= clock
  /\ local[e.id].here => ~Older(newest[e.id], e)
  /\ local[e.id].here =>
       IF e.change = changes[e.id]
         THEN ~e.gone /\ e.stamp = local[e.id].stamp /\ e.version = local[e.id].version
         ELSE Orderly(e.id) => Older(e, local[e.id])
  /\ ~local[e.id].here /\ e.change = changes[e.id] => e.gone

EntriesOK == \A e \in Known : EntryOK(e)

FlyingShowsAChange == \A e \in Flying : e.change >= 1

RemoteOK ==
  \A o \in Objects : remote[o].id = o /\ (remote[o].change = 0 => remote[o].stamp = 0)

(* Of two entries of an object the one that shows the later change wins,     *)
(* unless that change slipped.                                               *)
LaterWins ==
  \A e, f \in Known :
    e.id = f.id /\ e.change < f.change /\ f.change \notin slips[f.id] => Older(e, f)

(* What shows a change before the last orderly one the cloud took has lost.  *)
FirmOK ==
  \A o \in Objects :
    /\ firm[o] <= changes[o]
    /\ \A e \in Known : e.id = o /\ e.change < firm[o] => Older(e, remote[o])

RowOK(r) ==
  /\ r.seq < nextSeq
  /\ 1 <= r.change /\ r.change <= changes[r.id]
  /\ r.op = "delete" => ~local[r.id].here

RowsOK == \A r \in outbox \cup Held : RowOK(r)

OneRowPerSeq == \A x, y \in outbox : x.seq = y.seq => x = y

(* A row read by a drainer and the row of that seq now: the same object, and *)
(* the same change unless the revision moved on.                             *)
RevisionsTell ==
  \A r \in Held, x \in outbox : r.seq = x.seq =>
    /\ r.id = x.id
    /\ r.revision <= x.revision
    /\ r.revision = x.revision => r.change = x.change

PushOK(p) ==
  /\ p.entry.id = p.row.id
  /\ p.row.change <= p.entry.change
  /\ p.applied /\ p.entry.change = changes[p.row.id] /\ Orderly(p.row.id) =>
       remote[p.row.id].change = p.entry.change

PushesOK == \A p \in Pushes : PushOK(p)

LatestIsQueued ==
  \A o \in Objects :
    \/ ~Orderly(o)
    \/ remote[o].change = changes[o]
    \/ \E x \in outbox : x.id = o /\ x.change = changes[o]

LocalOK ==
  \A o \in Objects :
    /\ local[o].stamp <= clock
    /\ local[o].here => ~Older(newest[o], local[o])
    /\ changes[o] = 0 => ~local[o].here /\ newest[o].stamp = 0

IInv ==
  /\ TypeOK
  /\ LocalOK
  /\ EntriesOK
  /\ FlyingShowsAChange
  /\ RemoteOK
  /\ LaterWins
  /\ FirmOK
  /\ RowsOK
  /\ OneRowPerSeq
  /\ RevisionsTell
  /\ PushesOK
  /\ LatestIsQueued

-----------------------------------------------------------------------------
(* Types *)

LEMMA InitTypeOK == Init => TypeOK
  BY LimitsAssumption DEF Init, TypeOK, LocalRow, NoRow, NoEntry, Entry

LEMMA LocalRowType ==
  ASSUME NEW l \in LocalRow, NEW c \in Nat, NEW v \in Nat
  PROVE  /\ [l EXCEPT !.stamp = c, !.version = v] \in LocalRow
         /\ [l EXCEPT !.here = FALSE] \in LocalRow
         /\ [here |-> TRUE, born |-> c, stamp |-> c, version |-> v] \in LocalRow
  <1>1. [here |-> TRUE, born |-> c, stamp |-> c, version |-> v] \in LocalRow
    BY DEF LocalRow
  <1>2. [l EXCEPT !.stamp = c, !.version = v] \in LocalRow
    BY DEF LocalRow
  <1>3. [l EXCEPT !.here = FALSE] \in LocalRow
    BY DEF LocalRow
  <1>4. QED
    BY <1>1, <1>2, <1>3

LEMMA OutboxRowType ==
  ASSUME NEW x \in OutboxRow, NEW n \in Nat, NEW k \in Nat, NEW op \in {"upsert", "delete"}
  PROVE  /\ [x EXCEPT !.op = op, !.attempts = 0, !.due = TRUE, !.revision = k,
                      !.change = n] \in OutboxRow
         /\ [x EXCEPT !.attempts = k, !.status = "failed"] \in OutboxRow
         /\ [x EXCEPT !.attempts = k, !.due = FALSE] \in OutboxRow
         /\ x.revision + 1 \in Nat /\ x.attempts + 1 \in Nat
  <1>1. x.revision + 1 \in Nat /\ x.attempts + 1 \in Nat
    BY DEF OutboxRow
  <1>2. [x EXCEPT !.op = op, !.attempts = 0, !.due = TRUE, !.revision = k,
                  !.change = n] \in OutboxRow
    BY DEF OutboxRow
  <1>3. [x EXCEPT !.attempts = k, !.status = "failed"] \in OutboxRow
    BY DEF OutboxRow
  <1>4. [x EXCEPT !.attempts = k, !.due = FALSE] \in OutboxRow
    BY DEF OutboxRow
  <1>5. QED
    BY <1>1, <1>2, <1>3, <1>4

LEMMA TriggerTypeOK ==
  ASSUME TypeOK, NEW o \in Objects, NEW op \in {"upsert", "delete"}, Trigger(o, op)
  PROVE  outbox' \in SUBSET OutboxRow /\ nextSeq' \in Nat /\ changes' \in [Objects -> Nat]
  <1> DEFINE n == changes[o] + 1
             new == [seq |-> nextSeq, id |-> o, op |-> op, attempts |-> 0, revision |-> 0,
                     status |-> "pending", due |-> TRUE, change |-> n]
             bumped(x) == [x EXCEPT !.op = op, !.attempts = 0, !.due = TRUE,
                                    !.revision = @ + 1, !.change = n]
  <1>1. n \in Nat
    BY DEF TypeOK
  <1>2. new \in OutboxRow
    BY <1>1 DEF TypeOK, OutboxRow
  <1>3. ASSUME NEW x \in OutboxRow PROVE bumped(x) \in OutboxRow
    <2>1. x.revision + 1 \in Nat
      BY OutboxRowType, <1>1
    <2>2. QED
      BY <1>1, <2>1, OutboxRowType
  <1>4. changes' = [changes EXCEPT ![o] = n]
    BY DEF Trigger
  <1>5. \/ outbox' = outbox \cup {new} /\ nextSeq' = nextSeq + 1
        \/ outbox' = (outbox \ Pending(o)) \cup {bumped(x) : x \in Pending(o)} /\ nextSeq' = nextSeq
    BY DEF Trigger
  <1>6. Pending(o) \subseteq OutboxRow /\ outbox \subseteq OutboxRow
    BY DEF Pending, TypeOK
  <1> HIDE DEF n, new, bumped
  <1>7. outbox' \in SUBSET OutboxRow
    BY <1>2, <1>3, <1>5, <1>6
  <1>8. QED
    BY <1>1, <1>4, <1>5, <1>7 DEF TypeOK

LEMMA SnapshotType ==
  ASSUME TypeOK, NEW r \in OutboxRow
  PROVE  Snapshot(r) \in Entry
  BY DEF TypeOK, Snapshot, IsTombstone, Entry, OutboxRow, LocalRow

LEMMA UpsertType ==
  ASSUME TypeOK, NEW e \in Entry, Upsert(e)
  PROVE  remote' \in [Objects -> Entry] /\ firm' \in [Objects -> Nat]
  <1>1. e.id \in Objects /\ e.change \in Nat
    BY DEF Entry
  <1>2. QED
    BY <1>1 DEF TypeOK, Upsert

LEMMA DeferredType ==
  ASSUME NEW x \in OutboxRow, NEW r \in OutboxRow
  PROVE  Deferred(x, r) \in OutboxRow
  <1>1. r.attempts + 1 \in Nat
    BY DEF OutboxRow
  <1>2. QED
    BY <1>1, OutboxRowType DEF Deferred

(* The row that a stamped write leaves. *)
NewRow(o, now) ==
  [here |-> TRUE, born |-> now, stamp |-> now, version |-> IF o \in Versioned THEN 1 ELSE 0]

NextRow(o, now) ==
  [local[o] EXCEPT !.stamp = now, !.version = IF o \in Versioned THEN @ + 1 ELSE @]

LEMMA StampedRows ==
  ASSUME TypeOK, NEW o \in Objects
  PROVE  /\ clock \in Nat /\ local[o] \in LocalRow /\ local[o].stamp \in Nat
         /\ Create(o) => \E now \in 1 .. clock + 1 : Stamps(o, now, NewRow(o, now))
         /\ Update(o) => \E now \in 0 .. clock + 1 : Stamps(o, now, NextRow(o, now))
         /\ \A now \in Nat : /\ NewRow(o, now) \in LocalRow /\ NewRow(o, now).here
                             /\ NewRow(o, now).stamp = now
         /\ \A now \in Nat : /\ NextRow(o, now) \in LocalRow
                             /\ NextRow(o, now).here = local[o].here
                             /\ NextRow(o, now).stamp = now
  <1>1. /\ clock \in Nat /\ local[o] \in LocalRow /\ local[o].stamp \in Nat
        /\ local[o].version \in Nat /\ local[o].born \in Nat
    BY DEF TypeOK, LocalRow
  <1>2. Create(o) => \E now \in 1 .. clock + 1 : Stamps(o, now, NewRow(o, now))
    BY DEF Create, NewRow
  <1>3. Update(o) => \E now \in 0 .. clock + 1 : Stamps(o, now, NextRow(o, now))
    <2> SUFFICES ASSUME Update(o) PROVE \E now \in 0 .. clock + 1 : Stamps(o, now, NextRow(o, now))
      OBVIOUS
    <2>1. PICK now \in local[o].born .. clock + 1 : Stamps(o, now, NextRow(o, now))
      BY DEF Update, NextRow
    <2>2. now \in 0 .. clock + 1
      BY <1>1
    <2>3. QED
      BY <2>1, <2>2
  <1>4. ASSUME NEW now \in Nat
        PROVE  NewRow(o, now) \in LocalRow /\ NewRow(o, now).here /\ NewRow(o, now).stamp = now
    BY DEF NewRow, LocalRow
  <1>5. ASSUME NEW now \in Nat
        PROVE  /\ NextRow(o, now) \in LocalRow /\ NextRow(o, now).here = local[o].here
               /\ NextRow(o, now).stamp = now
    <2> DEFINE v == IF o \in Versioned THEN local[o].version + 1 ELSE local[o].version
    <2>1. v \in Nat
      BY <1>1
    <2>2. NextRow(o, now) = [local[o] EXCEPT !.stamp = now, !.version = v]
      BY <1>1 DEF NextRow, LocalRow
    <2> HIDE DEF v
    <2>3. QED
      BY <1>1, <2>1, <2>2 DEF LocalRow
  <1>6. QED
    BY <1>1, <1>2, <1>3, <1>4, <1>5

LEMMA StampsTypeOK ==
  ASSUME TypeOK, NEW o \in Objects, NEW now \in Nat, NEW row \in LocalRow, Stamps(o, now, row)
  PROVE  TypeOK'
  <1>1. outbox' \in SUBSET OutboxRow /\ nextSeq' \in Nat /\ changes' \in [Objects -> Nat]
    BY TriggerTypeOK DEF Stamps, Write
  <1>2. clock' \in Nat /\ local' \in [Objects -> LocalRow]
    BY DEF Stamps, Write, TypeOK
  <1>3. newest' \in [Objects -> LocalRow] /\ slips' \in [Objects -> SUBSET Nat]
    <2>1. changes[o] + 1 \in Nat /\ slips[o] \in SUBSET Nat
      BY DEF TypeOK
    <2>2. slips[o] \cup {changes[o] + 1} \in SUBSET Nat
      BY <2>1
    <2>3. QED
      BY <2>2 DEF Stamps, Ranks, TypeOK
  <1>4. QED
    BY <1>1, <1>2, <1>3 DEF Stamps, Write, TypeOK

LEMMA NextTypeOK == TypeOK /\ [Next]_vars => TypeOK'
  <1> SUFFICES ASSUME TypeOK, [Next]_vars PROVE TypeOK'
    OBVIOUS
  <1>1. ASSUME NEW o \in Objects, Create(o) PROVE TypeOK'
    <2> PICK now \in 1 .. clock + 1 : Stamps(o, now, NewRow(o, now))
      BY <1>1, StampedRows
    <2>1. now \in Nat /\ NewRow(o, now) \in LocalRow
      BY StampedRows
    <2>2. QED
      BY <2>1, StampsTypeOK
  <1>2. ASSUME NEW o \in Objects, Update(o) PROVE TypeOK'
    <2> PICK now \in 0 .. clock + 1 : Stamps(o, now, NextRow(o, now))
      BY <1>2, StampedRows
    <2>1. now \in Nat /\ NextRow(o, now) \in LocalRow
      BY StampedRows
    <2>2. QED
      BY <2>1, StampsTypeOK
  <1>3. ASSUME NEW o \in Objects, QuietUpdate(o) PROVE TypeOK'
    BY <1>3, StampedRows, StampsTypeOK DEF QuietUpdate
  <1>4. ASSUME NEW o \in Objects, Delete(o) PROVE TypeOK'
    <2>1. outbox' \in SUBSET OutboxRow /\ nextSeq' \in Nat /\ changes' \in [Objects -> Nat]
      BY <1>4, TriggerTypeOK DEF Delete, Write
    <2>2. [local[o] EXCEPT !.here = FALSE] \in LocalRow
      BY LocalRowType DEF TypeOK
    <2>3. QED
      BY <1>4, <2>1, <2>2 DEF Delete, Write, TypeOK
  <1>5. ASSUME NEW d \in Drainers, Select(d) PROVE TypeOK'
    BY <1>5 DEF Select, Due, TypeOK
  <1>6. ASSUME NEW d \in Drainers, Build(d) PROVE TypeOK'
    <2> PICK r \in queue[d] :
          /\ queue' = [queue EXCEPT ![d] = @ \ {r}]
          /\ push' = [push EXCEPT ![d] = {[row |-> r, entry |-> Snapshot(r), applied |-> FALSE]}]
          /\ clock' = IF IsTombstone(r) THEN clock + 1 ELSE clock
      BY <1>6 DEF Build
    <2>1. r \in OutboxRow
      BY DEF TypeOK
    <2>2. [row |-> r, entry |-> Snapshot(r), applied |-> FALSE] \in Push
      BY <2>1, SnapshotType DEF Push
    <2>3. QED
      BY <1>6, <2>1, <2>2 DEF Build, TypeOK
  <1>7. ASSUME NEW d \in Drainers, Apply(d) PROVE TypeOK'
    <2> PICK p \in push[d] :
          Upsert(p.entry) /\ push' = [push EXCEPT ![d] = {[p EXCEPT !.applied = TRUE]}]
      BY <1>7 DEF Apply
    <2>1. p \in Push /\ p.entry \in Entry
      BY DEF TypeOK, Push
    <2>2. remote' \in [Objects -> Entry] /\ firm' \in [Objects -> Nat]
      BY <2>1, UpsertType
    <2>3. [p EXCEPT !.applied = TRUE] \in Push
      BY <2>1 DEF Push
    <2>4. QED
      BY <1>7, <2>2, <2>3 DEF Apply, TypeOK
  <1>8. ASSUME NEW d \in Drainers, Confirm(d) PROVE TypeOK'
    BY <1>8 DEF Confirm, TypeOK
  <1>9. ASSUME NEW d \in Drainers, Fail(d) PROVE TypeOK'
    <2> PICK p \in push[d] :
          /\ outbox' = (outbox \ Same(p.row)) \cup {Deferred(x, p.row) : x \in Same(p.row)}
          /\ push' = [push EXCEPT ![d] = {}]
          /\ GiveUp(p)
      BY <1>9 DEF Fail
    <2>1. p.row \in OutboxRow /\ p.entry \in Entry
      BY DEF TypeOK, Push
    <2>2. outbox' \in SUBSET OutboxRow
      BY <2>1, DeferredType DEF TypeOK, Same
    <2>3. stray' \in SUBSET Entry
      BY <2>1 DEF GiveUp, TypeOK
    <2>4. QED
      BY <1>9, <2>2, <2>3 DEF Fail, TypeOK
  <1>10. ASSUME NEW d \in Drainers, Crash(d) PROVE TypeOK'
    <2>1. stray' \in SUBSET Entry
      BY <1>10 DEF Crash, GiveUp, TypeOK, Push
    <2>2. QED
      BY <1>10, <2>1 DEF Crash, TypeOK
  <1>11. ASSUME NEW e \in stray, ApplyStray(e) PROVE TypeOK'
    <2>1. remote' \in [Objects -> Entry] /\ firm' \in [Objects -> Nat]
      BY <1>11, UpsertType DEF ApplyStray, TypeOK
    <2>2. QED
      BY <1>11, <2>1 DEF ApplyStray, TypeOK
  <1>12. ASSUME NEW x \in outbox, BackoffElapses(x) PROVE TypeOK'
    <2>1. [x EXCEPT !.due = TRUE] \in OutboxRow
      BY DEF TypeOK, OutboxRow
    <2>2. QED
      BY <1>12, <2>1 DEF BackoffElapses, TypeOK
  <1>13. CASE UNCHANGED vars
    BY <1>13 DEF vars, TypeOK
  <1>14. QED
    BY <1>1, <1>2, <1>3, <1>4, <1>5, <1>6, <1>7, <1>8, <1>9, <1>10, <1>11, <1>12, <1>13
       DEF Next, LocalWrite, Drain

(* The variables keep their types. *)
THEOREM ShadowTypeOK == Spec => []TypeOK
  BY InitTypeOK, NextTypeOK, PTL DEF Spec

-----------------------------------------------------------------------------
(* Every step preserves the invariant *)

LEMMA RangeTypes ==
  ASSUME TypeOK
  PROVE  /\ Known \subseteq Entry /\ Flying \subseteq Known
         /\ Held \subseteq OutboxRow /\ outbox \subseteq OutboxRow
         /\ Pushes \subseteq Push
         /\ \A p \in Pushes : p.entry \in Flying /\ p.row \in Held
  <1>1. Pushes \subseteq Push
    BY DEF Pushes, TypeOK
  <1>2. \A p \in Push : p.entry \in Entry /\ p.row \in OutboxRow
    BY DEF Push
  <1>3. Flying \subseteq Entry
    BY <1>1, <1>2 DEF Flying, TypeOK
  <1>4. Known \subseteq Entry /\ Flying \subseteq Known
    BY <1>3 DEF Known, TypeOK
  <1>5. Held \subseteq OutboxRow /\ outbox \subseteq OutboxRow
    <2>1. UNION {queue[d] : d \in Drainers} \subseteq OutboxRow
      BY DEF TypeOK
    <2>2. {p.row : p \in Pushes} \subseteq OutboxRow
      BY <1>1, <1>2
    <2>3. Held \subseteq OutboxRow
      BY <2>1, <2>2, Zenon DEF Held
    <2>4. QED
      BY <2>3 DEF TypeOK
  <1>6. ASSUME NEW p \in Pushes PROVE p.entry \in Flying /\ p.row \in Held
    <2>1. p.entry \in {q.entry : q \in Pushes} /\ p.row \in {q.row : q \in Pushes}
      OBVIOUS
    <2>2. QED
      BY <2>1, Zenon DEF Flying, Held
  <1>7. QED
    BY <1>1, <1>4, <1>5, <1>6

LEMMA EntryFields ==
  ASSUME NEW e \in Entry
  PROVE  /\ e.id \in Objects /\ e.stamp \in Nat /\ e.version \in Nat /\ e.change \in Nat
         /\ e.gone \in BOOLEAN
  BY DEF Entry

LEMMA RowFields ==
  ASSUME NEW r \in OutboxRow
  PROVE  /\ r.seq \in Nat /\ r.id \in Objects /\ r.op \in {"upsert", "delete"}
         /\ r.revision \in Nat /\ r.change \in Nat
  BY DEF OutboxRow

LEMMA LocalFields ==
  ASSUME TypeOK, NEW o \in Objects
  PROVE  /\ local[o] \in LocalRow /\ local[o].here \in BOOLEAN
         /\ local[o].stamp \in Nat /\ local[o].version \in Nat /\ changes[o] \in Nat
         /\ newest[o].stamp \in Nat /\ newest[o].version \in Nat /\ slips[o] \in SUBSET Nat
         /\ firm[o] \in Nat
  BY DEF TypeOK, LocalRow

LEMMA InitIInv == Init => IInv
  <1> SUFFICES ASSUME Init PROVE IInv
    OBVIOUS
  <1>1. TypeOK
    BY InitTypeOK
  <1>2. Pushes = {} /\ Flying = {} /\ Held = {} /\ outbox = {}
    BY DEF Init, Pushes, Flying, Held
  <1>3. Known = {NoEntry(o) : o \in Objects}
    BY <1>2 DEF Known, Init
  <1>4. \A e \in Known : e.stamp = 0 /\ e.change = 0 /\ e.gone /\ e.id \in Objects
    BY <1>3 DEF NoEntry
  <1>5. LocalOK /\ RemoteOK
    BY DEF Init, LocalOK, RemoteOK, NoEntry, NoRow
  <1>6. EntriesOK
    <2> SUFFICES ASSUME NEW e \in Known PROVE EntryOK(e)
      BY DEF EntriesOK
    <2>1. clock = 0 /\ changes[e.id] = 0 /\ ~local[e.id].here
      BY <1>4 DEF Init, NoRow
    <2>2. QED
      BY <1>4, <2>1 DEF EntryOK
  <1>7. LaterWins
    BY <1>4 DEF LaterWins
  <1>8. FirmOK
    BY <1>4 DEF Init, FirmOK
  <1>9. LatestIsQueued
    BY DEF Init, LatestIsQueued, NoEntry
  <1>10. QED
    BY <1>1, <1>2, <1>5, <1>6, <1>7, <1>8, <1>9
       DEF IInv, FlyingShowsAChange, RowsOK, OneRowPerSeq, RevisionsTell, PushesOK

(* What the trigger of a write of o leaves in the outbox. *)
LEMMA TriggerFacts ==
  ASSUME TypeOK, NEW o \in Objects, NEW op \in {"upsert", "delete"}, Trigger(o, op)
  PROVE  /\ changes' = [changes EXCEPT ![o] = changes[o] + 1]
         /\ nextSeq' \in {nextSeq, nextSeq + 1}
         /\ \A x \in outbox : x.id # o => x \in outbox'
         /\ \E x \in outbox' : x.id = o /\ x.change = changes[o] + 1
         /\ \A y \in outbox' :
              \/ y \in outbox
              \/ /\ y.id = o /\ y.op = op /\ y.change = changes[o] + 1
                 /\ \/ y.seq = nextSeq /\ nextSeq' = nextSeq + 1
                    \/ \E x \in outbox : x.id = o /\ y.seq = x.seq /\ y.revision = x.revision + 1
  <1> DEFINE n == changes[o] + 1
             new == [seq |-> nextSeq, id |-> o, op |-> op, attempts |-> 0, revision |-> 0,
                     status |-> "pending", due |-> TRUE, change |-> n]
             bumped(x) == [x EXCEPT !.op = op, !.attempts = 0, !.due = TRUE,
                                    !.revision = @ + 1, !.change = n]
  <1>1. changes' = [changes EXCEPT ![o] = n]
    BY DEF Trigger
  <1>2. new.id = o /\ new.op = op /\ new.change = n /\ new.seq = nextSeq
    OBVIOUS
  <1>3. ASSUME NEW x \in OutboxRow
        PROVE  /\ bumped(x).id = x.id /\ bumped(x).op = op /\ bumped(x).change = n
               /\ bumped(x).seq = x.seq /\ bumped(x).revision = x.revision + 1
    BY DEF OutboxRow
  <1>4. \/ outbox' = outbox \cup {new} /\ nextSeq' = nextSeq + 1
        \/ /\ outbox' = (outbox \ Pending(o)) \cup {bumped(x) : x \in Pending(o)}
           /\ Pending(o) # {} /\ nextSeq' = nextSeq
    BY DEF Trigger
  <1>5. Pending(o) \subseteq OutboxRow /\ outbox \subseteq OutboxRow
    BY DEF Pending, TypeOK
  <1>6. \A x \in Pending(o) : x \in outbox /\ x.id = o
    BY DEF Pending
  <1> HIDE DEF n, new, bumped
  <1>7. CASE outbox' = outbox \cup {new} /\ nextSeq' = nextSeq + 1
    <2>1. QED
      BY <1>1, <1>2, <1>7 DEF n
  <1>8. CASE /\ outbox' = (outbox \ Pending(o)) \cup {bumped(x) : x \in Pending(o)}
             /\ Pending(o) # {} /\ nextSeq' = nextSeq
    <2>1. \A x \in outbox : x.id # o => x \in outbox'
      BY <1>6, <1>8
    <2>2. \E x \in outbox' : x.id = o /\ x.change = n
      <3> PICK x \in Pending(o) : TRUE
        BY <1>8
      <3>1. bumped(x) \in outbox'
        BY <1>8
      <3>2. bumped(x).id = o /\ bumped(x).change = n
        BY <1>3, <1>5, <1>6
      <3>3. QED
        BY <3>1, <3>2
    <2>3. ASSUME NEW y \in outbox', y \notin outbox
          PROVE  /\ y.id = o /\ y.op = op /\ y.change = n
                 /\ \E x \in outbox : x.id = o /\ y.seq = x.seq /\ y.revision = x.revision + 1
      <3> PICK x \in Pending(o) : y = bumped(x)
        BY <1>8, <2>3
      <3>1. x \in outbox /\ x.id = o /\ x \in OutboxRow
        BY <1>5, <1>6
      <3>2. /\ y.id = o /\ y.op = op /\ y.change = n
            /\ y.seq = x.seq /\ y.revision = x.revision + 1
        BY <1>3, <3>1
      <3>3. QED
        BY <3>1, <3>2
    <2>4. QED
      BY <1>1, <1>8, <2>1, <2>2, <2>3 DEF n
  <1>9. QED
    BY <1>4, <1>7, <1>8

LEMMA TriggerOneRow ==
  ASSUME TypeOK, OneRowPerSeq, \A x \in outbox : x.seq < nextSeq,
         NEW o \in Objects, NEW op \in {"upsert", "delete"}, Trigger(o, op)
  PROVE  OneRowPerSeq'
  <1> DEFINE n == changes[o] + 1
             new == [seq |-> nextSeq, id |-> o, op |-> op, attempts |-> 0, revision |-> 0,
                     status |-> "pending", due |-> TRUE, change |-> n]
             bumped(x) == [x EXCEPT !.op = op, !.attempts = 0, !.due = TRUE,
                                    !.revision = @ + 1, !.change = n]
  <1>1. new.seq = nextSeq
    OBVIOUS
  <1>2. ASSUME NEW x \in OutboxRow PROVE bumped(x).seq = x.seq
    BY DEF OutboxRow
  <1>3. \/ outbox' = outbox \cup {new}
        \/ outbox' = (outbox \ Pending(o)) \cup {bumped(x) : x \in Pending(o)}
    BY DEF Trigger
  <1>4. Pending(o) \subseteq outbox /\ outbox \subseteq OutboxRow
    BY DEF Pending, TypeOK
  <1>5. \A x \in outbox : x.seq \in Nat /\ nextSeq \in Nat
    BY RowFields DEF TypeOK
  <1> HIDE DEF n, new, bumped
  <1>6. CASE outbox' = outbox \cup {new}
    <2>1. \A x \in outbox : x.seq # new.seq
      BY <1>1, <1>5
    <2>2. QED
      BY <1>6, <2>1 DEF OneRowPerSeq
  <1>7. CASE outbox' = (outbox \ Pending(o)) \cup {bumped(x) : x \in Pending(o)}
    <2> SUFFICES ASSUME NEW y \in outbox', NEW z \in outbox', y.seq = z.seq PROVE y = z
      BY DEF OneRowPerSeq
    <2>1. \/ y \in outbox /\ y \notin Pending(o)
          \/ \E x \in Pending(o) : y = bumped(x)
      BY <1>7
    <2>2. \/ z \in outbox /\ z \notin Pending(o)
          \/ \E x \in Pending(o) : z = bumped(x)
      BY <1>7
    <2>3. \A x \in Pending(o) : bumped(x).seq = x.seq /\ x \in outbox
      BY <1>2, <1>4
    <2>4. QED
      BY <2>1, <2>2, <2>3 DEF OneRowPerSeq
  <1>8. QED
    BY <1>3, <1>6, <1>7

(* A write of o whose new row wins against every entry of o that is known,   *)
(* or slips.                                                                 *)
LEMMA WriteKeeps ==
  ASSUME IInv, TypeOK', NEW o \in Objects, NEW row \in LocalRow, NEW op \in {"upsert", "delete"},
         Write(o, row, op),
         clock <= clock', row.stamp <= clock',
         \A i \in Objects : i # o => newest'[i] = newest[i] /\ slips'[i] = slips[i],
         \A n \in Nat : n <= changes[o] => (n \in slips'[o] <=> n \in slips[o]),
         row.here => ~Older(newest'[o], row),
         row.here => \A e \in Known : e.id = o => ~Older(newest'[o], e),
         row.here /\ changes[o] + 1 \notin slips'[o] =>
           \A e \in Known : e.id = o => Older(e, row),
         op = "delete" => ~row.here,
         \A r \in outbox \cup Held : r.id = o /\ r.op = "delete" => ~row.here
  PROVE  IInv'
  <1>0. TypeOK /\ clock \in Nat /\ clock' \in Nat /\ row.stamp \in Nat /\ row.version \in Nat
    BY DEF IInv, TypeOK, LocalRow
  <1>1. /\ Known' = Known /\ Flying' = Flying /\ Held' = Held /\ Pushes' = Pushes
        /\ remote' = remote /\ firm' = firm
    BY DEF Write, Known, Flying, Held, Pushes
  <1>2. /\ local' = [local EXCEPT ![o] = row] /\ Trigger(o, op)
    BY DEF Write
  <1>3. /\ changes' = [changes EXCEPT ![o] = changes[o] + 1]
        /\ nextSeq' \in {nextSeq, nextSeq + 1}
        /\ \A x \in outbox : x.id # o => x \in outbox'
        /\ \E x \in outbox' : x.id = o /\ x.change = changes[o] + 1
        /\ \A y \in outbox' :
             \/ y \in outbox
             \/ /\ y.id = o /\ y.op = op /\ y.change = changes[o] + 1
                /\ \/ y.seq = nextSeq /\ nextSeq' = nextSeq + 1
                   \/ \E x \in outbox : x.id = o /\ y.seq = x.seq /\ y.revision = x.revision + 1
    BY <1>0, <1>2, TriggerFacts
  <1>4. /\ local'[o] = row /\ changes'[o] = changes[o] + 1
        /\ \A i \in Objects : i # o => local'[i] = local[i] /\ changes'[i] = changes[i]
        /\ \A i \in Objects : changes[i] \in Nat /\ changes'[i] \in Nat /\ changes[i] <= changes'[i]
    BY <1>0, <1>2, <1>3 DEF TypeOK
  <1>5. LocalOK'
    <2> SUFFICES ASSUME NEW i \in Objects
                 PROVE  /\ local'[i].stamp <= clock'
                        /\ local'[i].here => ~Older(newest'[i], local'[i])
                        /\ changes'[i] = 0 => ~local'[i].here /\ newest'[i].stamp = 0
      BY DEF LocalOK, Older
    <2>1. /\ local[i].stamp <= clock /\ local[i].stamp \in Nat /\ changes[i] \in Nat
          /\ local[i].here => ~Older(newest[i], local[i])
          /\ changes[i] = 0 => ~local[i].here /\ newest[i].stamp = 0
      BY <1>0, LocalFields DEF IInv, LocalOK
    <2>2. CASE i = o
      BY <2>1, <2>2, <1>0, <1>4
    <2>3. CASE i # o
      BY <2>1, <2>3, <1>0, <1>4
    <2>4. QED
      BY <2>2, <2>3
  <1>6. EntriesOK'
    <2> SUFFICES ASSUME NEW e \in Known PROVE EntryOK(e)'
      BY <1>1 DEF EntriesOK
    <2>1. EntryOK(e) /\ e \in Entry /\ e.id \in Objects
      BY <1>0, RangeTypes, EntryFields DEF IInv, EntriesOK
    <2>2. e.change \in Nat /\ e.stamp \in Nat /\ e.version \in Nat
      BY <2>1, EntryFields
    <2>3. CASE e.id = o
      <3>1. e.change <= changes[o] /\ e.change # changes'[o]
        BY <2>1, <2>2, <2>3, <1>4 DEF EntryOK
      <3>2. row.here => ~Older(newest'[o], e)
        BY <2>3
      <3>3. row.here /\ Orderly(o)' => Older(e, row)
        BY <2>3, <1>4 DEF Orderly
      <3>4. e.change <= changes'[o] /\ e.stamp <= clock'
        BY <2>1, <2>2, <2>3, <1>0, <1>4 DEF EntryOK
      <3>5. QED
        BY <2>3, <1>4, <3>1, <3>2, <3>3, <3>4 DEF EntryOK, Older
    <2>4. CASE e.id # o
      <3>1. /\ local'[e.id] = local[e.id] /\ changes'[e.id] = changes[e.id]
            /\ newest'[e.id] = newest[e.id] /\ slips'[e.id] = slips[e.id]
        BY <2>1, <2>4, <1>4
      <3>2. e.stamp <= clock'
        BY <2>1, <2>2, <1>0 DEF EntryOK
      <3>3. QED
        BY <2>1, <3>1, <3>2 DEF EntryOK, Older, Orderly
    <2>5. QED
      BY <2>3, <2>4
  <1>7. FlyingShowsAChange' /\ RemoteOK' /\ LaterWins' /\ FirmOK'
    <2>1. FlyingShowsAChange' /\ RemoteOK'
      BY <1>1 DEF IInv, FlyingShowsAChange, RemoteOK
    <2>2. LaterWins'
      <3> SUFFICES ASSUME NEW e \in Known, NEW f \in Known, e.id = f.id, e.change < f.change,
                          f.change \notin slips'[f.id]
                   PROVE  Older(e, f)
        BY <1>1 DEF LaterWins, Older
      <3>1. f.change \in Nat /\ f.id \in Objects /\ f.change <= changes[f.id]
        BY <1>0, RangeTypes, EntryFields DEF IInv, EntriesOK, EntryOK
      <3>2. f.change \notin slips[f.id]
        BY <3>1
      <3>3. QED
        BY <3>2 DEF IInv, LaterWins
    <2>3. FirmOK'
      <3>1. \A i \in Objects : firm[i] <= changes'[i]
        BY <1>0, <1>4, LocalFields DEF IInv, FirmOK
      <3>2. QED
        BY <1>1, <3>1 DEF IInv, FirmOK, Older
    <2>4. QED
      BY <2>1, <2>2, <2>3
  <1>8. RowsOK'
    <2> SUFFICES ASSUME NEW r \in outbox' \cup Held PROVE RowOK(r)'
      BY <1>1 DEF RowsOK
    <2>1. CASE r \in outbox \cup Held
      <3>1. RowOK(r) /\ r \in OutboxRow /\ r.id \in Objects
        BY <2>1, <1>0, RangeTypes, RowFields DEF IInv, RowsOK
      <3>2. r.seq \in Nat /\ r.change \in Nat /\ nextSeq \in Nat
        BY <3>1, <1>0, RowFields DEF TypeOK
      <3>3. r.seq < nextSeq' /\ 1 <= r.change /\ r.change <= changes'[r.id]
        BY <3>1, <3>2, <1>3, <1>4 DEF RowOK
      <3>4. r.op = "delete" => ~local'[r.id].here
        BY <2>1, <3>1, <1>4 DEF RowOK
      <3>5. QED
        BY <3>3, <3>4 DEF RowOK
    <2>2. CASE r \notin outbox \cup Held
      <3>1. /\ r.id = o /\ r.op = op /\ r.change = changes[o] + 1
            /\ \/ r.seq = nextSeq /\ nextSeq' = nextSeq + 1
               \/ \E x \in outbox : x.id = o /\ r.seq = x.seq /\ r.revision = x.revision + 1
        BY <2>2, <1>3
      <3>2. \A x \in outbox : x.seq < nextSeq /\ x.seq \in Nat
        BY <1>0, RangeTypes, RowFields DEF IInv, RowsOK, RowOK
      <3>3. r.seq < nextSeq'
        BY <3>1, <3>2, <1>0, <1>3 DEF TypeOK
      <3>4. QED
        BY <3>1, <3>3, <1>4 DEF RowOK
    <2>3. QED
      BY <2>1, <2>2
  <1>9. OneRowPerSeq'
    BY <1>0, <1>2, TriggerOneRow DEF IInv, RowsOK, RowOK
  <1>10. RevisionsTell'
    <2> SUFFICES ASSUME NEW r \in Held, NEW x \in outbox', r.seq = x.seq
                 PROVE  /\ r.id = x.id
                        /\ r.revision <= x.revision
                        /\ r.revision = x.revision => r.change = x.change
      BY <1>1 DEF RevisionsTell
    <2>1. CASE x \in outbox
      BY <2>1 DEF IInv, RevisionsTell
    <2>2. CASE x \notin outbox
      <3>1. r.seq < nextSeq /\ r.seq \in Nat /\ nextSeq \in Nat /\ r.revision \in Nat
        BY <1>0, RangeTypes, RowFields DEF IInv, RowsOK, RowOK, TypeOK
      <3> PICK y \in outbox : y.id = o /\ x.seq = y.seq /\ x.revision = y.revision + 1
        BY <2>2, <3>1, <1>3
      <3>2. r.id = y.id /\ r.revision <= y.revision /\ y.revision \in Nat
        BY <1>0, RangeTypes, RowFields DEF IInv, RevisionsTell
      <3>3. QED
        BY <3>1, <3>2, <2>2, <1>3
    <2>3. QED
      BY <2>1, <2>2
  <1>11. PushesOK'
    <2> SUFFICES ASSUME NEW p \in Pushes PROVE PushOK(p)'
      BY <1>1 DEF PushesOK
    <2>1. PushOK(p) /\ p.entry \in Known /\ p.entry.id \in Objects /\ p.entry.change \in Nat
      BY <1>0, RangeTypes, EntryFields DEF IInv, PushesOK
    <2>2. p.entry.id = p.row.id /\ p.entry.change <= changes[p.entry.id]
      BY <2>1 DEF PushOK, IInv, EntriesOK, EntryOK
    <2>3. CASE p.row.id = o
      BY <2>1, <2>2, <2>3, <1>4 DEF PushOK
    <2>4. CASE p.row.id # o
      BY <2>1, <2>2, <2>4, <1>1, <1>4 DEF PushOK, Orderly
    <2>5. QED
      BY <2>3, <2>4
  <1>12. LatestIsQueued'
    <2> SUFFICES ASSUME NEW i \in Objects
                 PROVE  \/ ~Orderly(i)'
                        \/ remote[i].change = changes'[i]
                        \/ \E x \in outbox' : x.id = i /\ x.change = changes'[i]
      BY <1>1 DEF LatestIsQueued
    <2>1. CASE i = o
      BY <2>1, <1>3, <1>4
    <2>2. CASE i # o
      BY <2>2, <1>3, <1>4 DEF IInv, LatestIsQueued, Orderly
    <2>3. QED
      BY <2>1, <2>2
  <1>13. QED
    BY <1>5, <1>6, <1>7, <1>8, <1>9, <1>10, <1>11, <1>12 DEF IInv

(* A stamped write: of an object with a row no known entry is newer than the *)
(* newest change, so what is newer than that change is newer than them all.  *)
LEMMA StampsKeeps ==
  ASSUME IInv, TypeOK', NEW o \in Objects, NEW now \in Nat, NEW row \in LocalRow,
         Stamps(o, now, row), row.here, row.stamp <= clock',
         local[o].here = TRUE \/ (changes[o] = 0 /\ row.stamp >= 1)
  PROVE  IInv'
  <1>0. /\ TypeOK /\ clock \in Nat /\ clock' \in Nat /\ clock <= clock'
        /\ row.stamp \in Nat /\ row.version \in Nat /\ changes[o] \in Nat
        /\ newest[o].stamp \in Nat /\ newest[o].version \in Nat
    BY LocalFields DEF IInv, Stamps, TypeOK, LocalRow
  <1>1. Write(o, row, "upsert") /\ Ranks(o, row)
    BY DEF Stamps
  <1>2. /\ newest \in [Objects -> LocalRow] /\ slips \in [Objects -> SUBSET Nat]
        /\ \/ /\ Older(newest[o], row)
              /\ newest' = [newest EXCEPT ![o] = row]
              /\ slips' = slips
           \/ /\ ~Older(newest[o], row)
              /\ slips' = [slips EXCEPT ![o] = slips[o] \cup {changes[o] + 1}]
              /\ newest' = newest
    BY <1>0, <1>1 DEF Ranks, TypeOK
  <1>3. \A i \in Objects : i # o => newest'[i] = newest[i] /\ slips'[i] = slips[i]
    BY <1>2
  <1>4. \A n \in Nat : n <= changes[o] => (n \in slips'[o] <=> n \in slips[o])
    <2>1. slips'[o] = slips[o] \/ slips'[o] = slips[o] \cup {changes[o] + 1}
      BY <1>2
    <2>2. \A n \in Nat : n <= changes[o] => n # changes[o] + 1
      BY <1>0
    <2>3. QED
      BY <2>1, <2>2
  <1>5. ASSUME NEW e \in Known, e.id = o
        PROVE  /\ e.stamp \in Nat /\ e.version \in Nat
               /\ ~Older(newest[o], e) \/ (Older(e, row) /\ Older(newest[o], row))
    <2>1. e \in Entry /\ EntryOK(e)
      BY <1>0, RangeTypes DEF IInv, EntriesOK
    <2>2. CASE local[o].here = TRUE
      <3>1. ~Older(newest[o], e)
        BY <1>5, <2>1, <2>2 DEF EntryOK
      <3>2. QED
        BY <2>1, <3>1, EntryFields
    <2>3. CASE changes[o] = 0 /\ row.stamp >= 1
      <3>1. e.change = 0
        BY <1>5, <2>1, <2>3, EntryFields DEF EntryOK
      <3>2. e \notin Flying
        BY <3>1 DEF IInv, FlyingShowsAChange
      <3>3. e = remote[o]
        BY <1>5, <3>2 DEF Known, IInv, RemoteOK
      <3>4. e.stamp = 0 /\ newest[o].stamp = 0
        BY <2>3, <3>1, <3>3 DEF IInv, RemoteOK, LocalOK
      <3>5. QED
        BY <2>1, <2>3, <3>4, <1>0, EntryFields DEF Older
    <2>4. QED
      BY <2>2, <2>3
  <1>6. ~Older(newest'[o], row)
    BY <1>0, <1>2 DEF Older
  <1>7. \A e \in Known : e.id = o => ~Older(newest'[o], e)
    <2> SUFFICES ASSUME NEW e \in Known, e.id = o PROVE ~Older(newest'[o], e)
      OBVIOUS
    <2>1. /\ e.stamp \in Nat /\ e.version \in Nat
          /\ ~Older(newest[o], e) \/ (Older(e, row) /\ Older(newest[o], row))
      BY <1>5
    <2>2. CASE newest' = [newest EXCEPT ![o] = row] /\ Older(newest[o], row)
      <3>1. newest'[o] = row
        BY <1>2, <2>2
      <3>2. QED
        BY <1>0, <2>1, <2>2, <3>1 DEF Older
    <2>3. CASE newest' = newest /\ ~Older(newest[o], row)
      BY <2>1, <2>3
    <2>4. QED
      BY <1>2, <2>2, <2>3
  <1>8. changes[o] + 1 \notin slips'[o] => \A e \in Known : e.id = o => Older(e, row)
    <2> SUFFICES ASSUME changes[o] + 1 \notin slips'[o], NEW e \in Known, e.id = o
                 PROVE  Older(e, row)
      OBVIOUS
    <2>1. Older(newest[o], row)
      BY <1>2
    <2>2. QED
      BY <1>0, <1>5, <2>1 DEF Older
  <1>9. \A r \in outbox \cup Held : r.id = o => r.op # "delete"
    <2> SUFFICES ASSUME NEW r \in outbox \cup Held, r.id = o PROVE r.op # "delete"
      OBVIOUS
    <2>1. r \in OutboxRow /\ RowOK(r)
      BY <1>0, RangeTypes DEF IInv, RowsOK
    <2>2. local[o].here
      BY <2>1, RowFields DEF RowOK
    <2>3. QED
      BY <2>1, <2>2 DEF RowOK
  <1>10. QED
    BY <1>0, <1>1, <1>3, <1>4, <1>6, <1>7, <1>8, <1>9, WriteKeeps

LEMMA CreateKeeps ==
  ASSUME IInv, TypeOK', NEW o \in Objects, Create(o)
  PROVE  IInv'
  <1>0. TypeOK /\ clock \in Nat /\ changes[o] = 0
    BY DEF IInv, Create, TypeOK
  <1> PICK now \in 1 .. clock + 1 : Stamps(o, now, NewRow(o, now))
    BY <1>0, StampedRows
  <1>1. now \in Nat /\ now >= 1 /\ now <= clock'
    BY <1>0 DEF Stamps
  <1>2. NewRow(o, now) \in LocalRow /\ NewRow(o, now).here /\ NewRow(o, now).stamp = now
    BY <1>0, <1>1, StampedRows
  <1>3. QED
    BY <1>0, <1>1, <1>2, StampsKeeps

LEMMA UpdateKeeps ==
  ASSUME IInv, TypeOK', NEW o \in Objects, Update(o)
  PROVE  IInv'
  <1>0. TypeOK /\ clock \in Nat /\ local[o].here
    BY DEF IInv, Update, TypeOK
  <1> PICK now \in 0 .. clock + 1 : Stamps(o, now, NextRow(o, now))
    BY <1>0, StampedRows
  <1>1. now \in Nat /\ now <= clock'
    BY <1>0 DEF Stamps
  <1>2. /\ NextRow(o, now) \in LocalRow /\ NextRow(o, now).here /\ NextRow(o, now).stamp = now
        /\ local[o].here = TRUE
    BY <1>0, <1>1, StampedRows, LocalFields
  <1>3. QED
    BY <1>0, <1>1, <1>2, StampsKeeps

LEMMA QuietUpdateKeeps ==
  ASSUME IInv, TypeOK', NEW o \in Objects, QuietUpdate(o)
  PROVE  IInv'
  <1>0. TypeOK /\ clock \in Nat /\ local[o].here /\ local[o] \in LocalRow
        /\ Stamps(o, clock, local[o]) /\ local[o].here = TRUE
    BY LocalFields DEF IInv, QuietUpdate, TypeOK
  <1>1. local[o].stamp <= clock'
    BY <1>0 DEF Stamps, IInv, LocalOK
  <1>2. QED
    BY <1>0, <1>1, StampsKeeps

LEMMA DeleteKeeps ==
  ASSUME IInv, TypeOK', NEW o \in Objects, Delete(o)
  PROVE  IInv'
  <1> DEFINE row == [local[o] EXCEPT !.here = FALSE]
  <1>0. TypeOK /\ clock \in Nat /\ UNCHANGED <<clock, newest, slips>>
    BY DEF IInv, Delete, TypeOK
  <1>1. Write(o, row, "delete")
    BY DEF Delete
  <1>2. local[o] \in LocalRow /\ local[o].stamp \in Nat /\ local[o].stamp <= clock
    BY <1>0, LocalFields DEF IInv, LocalOK
  <1>3. ~row.here /\ row.stamp = local[o].stamp /\ row \in LocalRow
    BY <1>2 DEF LocalRow
  <1> HIDE DEF row
  <1>4. QED
    BY <1>0, <1>1, <1>2, <1>3, WriteKeeps

(* A step that adds no entry and touches neither the rows nor the clock.     *)
LEMMA EntriesStay ==
  ASSUME IInv, Known' \subseteq Known, Flying' \subseteq Flying,
         UNCHANGED <<clock, local, changes, newest, slips>>
  PROVE  LocalOK' /\ EntriesOK' /\ FlyingShowsAChange' /\ LaterWins'
  <1>1. \A e \in Known : EntryOK(e)' <=> EntryOK(e)
    BY DEF EntryOK, Older, Orderly
  <1>2. QED
    BY <1>1 DEF IInv, LocalOK, EntriesOK, FlyingShowsAChange, LaterWins, Older

LEMMA FirmStays ==
  ASSUME IInv, Known' \subseteq Known, UNCHANGED <<changes, remote, firm>>
  PROVE  FirmOK'
  BY DEF IInv, FirmOK, Older

(* A step that holds no new row and leaves the outbox as it is.              *)
LEMMA RowsStay ==
  ASSUME IInv, Held' \subseteq Held \cup outbox, Held \subseteq OutboxRow, outbox \subseteq OutboxRow,
         UNCHANGED <<local, changes, outbox, nextSeq>>
  PROVE  RowsOK' /\ OneRowPerSeq' /\ RevisionsTell'
  <1>1. RowsOK'
    BY DEF IInv, RowsOK, RowOK
  <1>2. \A r \in outbox : r.revision <= r.revision
    BY RowFields
  <1>3. QED
    BY <1>1, <1>2 DEF IInv, OneRowPerSeq, RevisionsTell

LEMMA SelectKeeps ==
  ASSUME IInv, TypeOK', NEW d \in Drainers, Select(d)
  PROVE  IInv'
  <1> PICK batch \in SUBSET Due : queue' = [queue EXCEPT ![d] = batch]
    BY DEF Select
  <1>1. /\ UNCHANGED <<clock, local, changes, newest, slips, outbox, nextSeq, remote, firm,
                       push, stray>>
        /\ TypeOK /\ queue \in [Drainers -> SUBSET OutboxRow]
    BY DEF Select, IInv, TypeOK
  <1>2. Pushes' = Pushes /\ Flying' = Flying /\ Known' = Known
    BY <1>1 DEF Pushes, Flying, Known
  <1>3. Held' \subseteq Held \cup outbox
    BY <1>1 DEF Held, Pushes, Due
  <1>4. RowsOK' /\ OneRowPerSeq' /\ RevisionsTell'
    BY <1>1, <1>3, RowsStay, RangeTypes
  <1>5. LocalOK' /\ EntriesOK' /\ FlyingShowsAChange' /\ LaterWins'
    BY <1>1, <1>2, EntriesStay
  <1>6. RemoteOK' /\ FirmOK' /\ PushesOK' /\ LatestIsQueued'
    BY <1>1, <1>2, FirmStays
       DEF IInv, RemoteOK, PushesOK, PushOK, LatestIsQueued, Orderly
  <1>7. QED
    BY <1>4, <1>5, <1>6 DEF IInv

(* The entry built for a row shows the newest change and wins against every  *)
(* known entry that shows an older one.                                      *)
LEMMA BuildKeeps ==
  ASSUME IInv, TypeOK', NEW d \in Drainers, Build(d)
  PROVE  IInv'
  <1> PICK r \in queue[d] :
        /\ queue' = [queue EXCEPT ![d] = @ \ {r}]
        /\ push' = [push EXCEPT ![d] = {[row |-> r, entry |-> Snapshot(r), applied |-> FALSE]}]
        /\ clock' = IF IsTombstone(r) THEN clock + 1 ELSE clock
    BY DEF Build
  <1> DEFINE e == Snapshot(r)
             np == [row |-> r, entry |-> e, applied |-> FALSE]
  <1>1. /\ UNCHANGED <<local, changes, newest, slips, outbox, nextSeq, remote, firm, stray>>
        /\ push[d] = {}
        /\ TypeOK /\ queue \in [Drainers -> SUBSET OutboxRow] /\ push \in [Drainers -> SUBSET Push]
        /\ clock \in Nat /\ clock <= clock'
    BY DEF Build, IInv, TypeOK
  <1>2. r \in Held /\ r \in OutboxRow /\ r.id \in Objects
    BY <1>1, RowFields DEF Held
  <1>3. RowOK(r) /\ changes[r.id] \in Nat /\ r.change \in Nat /\ r.change >= 1
        /\ r.change <= changes[r.id]
    BY <1>1, <1>2, LocalFields, RowFields DEF IInv, RowsOK, RowOK
  <1>4. /\ e \in Entry /\ e.id = r.id /\ e.change = changes[r.id]
        /\ e.gone <=> IsTombstone(r)
        /\ IsTombstone(r) => e.stamp = clock + 1
        /\ ~IsTombstone(r) => /\ e.stamp = local[r.id].stamp /\ e.version = local[r.id].version
    BY <1>1, <1>2, SnapshotType DEF Snapshot
  <1>5. np.row = r /\ np.entry = e /\ np.applied = FALSE
    OBVIOUS
  <1> HIDE DEF e, np
  <1>6. Pushes' = Pushes \cup {np}
    BY <1>1 DEF Pushes, np, e
  <1>7. Flying' = Flying \cup {e} /\ Known' = Known \cup {e}
    BY <1>1, <1>5, <1>6 DEF Flying, Known
  <1>8. Held' \subseteq Held
    <2>1. {p.row : p \in Pushes'} = {p.row : p \in Pushes} \cup {r}
      BY <1>5, <1>6
    <2>2. UNION {queue'[i] : i \in Drainers} \subseteq UNION {queue[i] : i \in Drainers}
      BY <1>1
    <2>3. QED
      BY <1>2, <2>1, <2>2 DEF Held
  <1>9. RowsOK' /\ OneRowPerSeq' /\ RevisionsTell'
    BY <1>1, <1>8, RowsStay, RangeTypes
  <1>10. IsTombstone(r) <=> ~local[r.id].here
    BY <1>3 DEF RowOK, IsTombstone
  <1>11. \A f \in Known : f \in Entry /\ EntryOK(f) /\ f.id \in Objects
    BY <1>1, RangeTypes, EntryFields DEF IInv, EntriesOK
  <1>12. LocalOK'
    <2>1. \A o \in Objects : local[o].stamp <= clock'
      BY <1>1, <1>4, LocalFields DEF IInv, LocalOK, TypeOK
    <2>2. QED
      BY <1>1, <2>1 DEF IInv, LocalOK, Older
  <1>13. EntriesOK'
    <2> SUFFICES ASSUME NEW f \in Known' PROVE EntryOK(f)'
      BY DEF EntriesOK
    <2>1. CASE f \in Known
      <3>1. EntryOK(f) /\ f.stamp \in Nat
        BY <2>1, <1>11, EntryFields
      <3>2. f.stamp <= clock'
        BY <3>1, <1>1, <1>4 DEF EntryOK, TypeOK
      <3>3. QED
        BY <3>1, <3>2, <1>1 DEF EntryOK, Older, Orderly
    <2>2. CASE f = e
      <3>1. /\ local[r.id].stamp <= clock /\ local[r.id].stamp \in Nat
            /\ local[r.id].here => ~Older(newest[r.id], local[r.id])
        BY <1>1, <1>2, LocalFields DEF IInv, LocalOK
      <3>2. e.stamp <= clock'
        BY <3>1, <1>1, <1>4
      <3>3. local[r.id].here <=> ~e.gone
        BY <1>4, <1>10, <2>2
      <3>4. local[r.id].here => e.stamp = local[r.id].stamp /\ e.version = local[r.id].version
        BY <1>4, <1>10, <2>2
      <3>5. local[r.id].here => ~Older(newest[r.id], e)
        BY <3>1, <3>4 DEF Older
      <3>6. e.change <= changes[r.id]
        BY <1>3, <1>4
      <3>7. QED
        BY <2>2, <3>2, <3>3, <3>4, <3>5, <3>6, <1>1, <1>4 DEF EntryOK, Older
    <2>3. QED
      BY <2>1, <2>2, <1>7
  <1>14. FlyingShowsAChange'
    BY <1>3, <1>4, <1>7 DEF IInv, FlyingShowsAChange
  <1>15. LaterWins'
    <2> SUFFICES ASSUME NEW f \in Known', NEW g \in Known', f.id = g.id,
                        f.change < g.change, g.change \notin slips[g.id]
                 PROVE  Older(f, g)
      BY <1>1 DEF LaterWins, Older
    <2>1. CASE f \in Known /\ g \in Known
      BY <2>1 DEF IInv, LaterWins
    <2>2. CASE f = e
      <3>1. g \in Entry /\ g.change \in Nat /\ g.change <= changes[r.id]
        BY <2>2, <1>3, <1>4, <1>7, <1>11, EntryFields DEF EntryOK
      <3>2. QED
        BY <2>2, <3>1, <1>3, <1>4
    <2>3. CASE f \in Known /\ g = e
      <3>1. /\ EntryOK(f) /\ f.stamp \in Nat /\ f.change # changes[f.id] /\ f.id = r.id
            /\ Orderly(f.id)
        BY <2>3, <1>3, <1>4, <1>11, EntryFields DEF Orderly
      <3>2. CASE IsTombstone(r)
        BY <2>3, <3>1, <3>2, <1>1, <1>4 DEF EntryOK, Older
      <3>3. CASE ~IsTombstone(r)
        BY <2>3, <3>1, <3>3, <1>4, <1>10 DEF EntryOK, Older
      <3>4. QED
        BY <3>2, <3>3
    <2>4. QED
      BY <2>1, <2>2, <2>3, <1>7
  <1>16. PushesOK'
    <2> SUFFICES ASSUME NEW p \in Pushes' PROVE PushOK(p)'
      BY DEF PushesOK
    <2>1. CASE p \in Pushes
      BY <2>1, <1>1 DEF IInv, PushesOK, PushOK, Orderly
    <2>2. CASE p = np
      BY <2>2, <1>3, <1>4, <1>5 DEF PushOK
    <2>3. QED
      BY <2>1, <2>2, <1>6
  <1>17. FirmOK'
    <2> SUFFICES ASSUME NEW o \in Objects, NEW f \in Known', f.id = o, f.change < firm[o]
                 PROVE  Older(f, remote[o])
      BY <1>1 DEF IInv, FirmOK, Older
    <2>1. f # e
      BY <1>1, <1>3, <1>4, LocalFields DEF IInv, FirmOK
    <2>2. QED
      BY <2>1, <1>7 DEF IInv, FirmOK
  <1>18. RemoteOK' /\ LatestIsQueued'
    BY <1>1 DEF IInv, RemoteOK, LatestIsQueued, Orderly
  <1>19. QED
    BY <1>9, <1>12, <1>13, <1>14, <1>15, <1>16, <1>17, <1>18 DEF IInv

(* The cloud takes or refuses an entry that is in flight: it never goes back *)
(* before the last orderly change it took, and the newest change of an       *)
(* object, once shown, stays unless it slipped.                              *)
LEMMA UpsertForward ==
  ASSUME IInv, NEW e \in Flying, Upsert(e)
  PROVE  /\ \A o \in Objects : remote'[o] \in {remote[o], e}
         /\ \A o \in Objects : o # e.id => remote'[o] = remote[o] /\ firm'[o] = firm[o]
         /\ RemoteOK'
         /\ {remote'[o] : o \in Objects} \subseteq Known
         /\ \A o \in Objects :
              /\ firm'[o] <= changes[o]
              /\ \A k \in Known : k.id = o /\ k.change < firm'[o] => Older(k, remote'[o])
         /\ \A o \in Objects :
              Orderly(o) /\ remote[o].change = changes[o] => remote'[o].change = changes[o]
         /\ Orderly(e.id) /\ e.change = changes[e.id] => remote'[e.id].change = changes[e.id]
  <1> DEFINE i == e.id
  <1>1. /\ TypeOK /\ e \in Known /\ e \in Entry /\ i \in Objects /\ e.change \in Nat
        /\ e.stamp \in Nat /\ e.version \in Nat /\ e.change >= 1 /\ e.change <= changes[i]
    BY RangeTypes, EntryFields DEF IInv, FlyingShowsAChange, EntriesOK, EntryOK
  <1>2. remote \in [Objects -> Entry] /\ firm \in [Objects -> Nat]
    BY <1>1 DEF TypeOK
  <1>3. \/ /\ Accepts(remote[i], e) /\ remote' = [remote EXCEPT ![i] = e]
           /\ firm' = IF e.change \in slips[i] THEN firm ELSE [firm EXCEPT ![i] = e.change]
        \/ ~Accepts(remote[i], e) /\ remote' = remote /\ firm' = firm
    BY DEF Upsert
  <1>4. \A o \in Objects : /\ remote'[o] \in {remote[o], e}
                           /\ o # i => remote'[o] = remote[o] /\ firm'[o] = firm[o]
    BY <1>1, <1>2, <1>3
  <1>5. RemoteOK'
    BY <1>1, <1>2, <1>3 DEF IInv, RemoteOK
  <1>6. /\ remote[i] \in Known /\ remote[i].id = i /\ remote[i].change \in Nat
        /\ remote[i].stamp \in Nat /\ remote[i].version \in Nat
        /\ remote[i].change <= changes[i] /\ changes[i] \in Nat /\ firm[i] \in Nat
    BY <1>1, <1>2, EntryFields, LocalFields DEF Known, IInv, RemoteOK, EntriesOK, EntryOK
  <1>7. {remote'[o] : o \in Objects} \subseteq Known
    BY <1>1, <1>4 DEF Known
  <1>8. /\ firm'[i] <= changes[i]
        /\ \A k \in Known : k.id = i /\ k.change < firm'[i] => Older(k, remote'[i])
    <2>1. /\ firm[i] <= changes[i]
          /\ \A k \in Known : k.id = i /\ k.change < firm[i] => Older(k, remote[i])
      BY <1>1 DEF IInv, FirmOK
    <2>2. CASE remote' = remote /\ firm' = firm
      BY <2>1, <2>2
    <2>3. CASE /\ Accepts(remote[i], e) /\ remote' = [remote EXCEPT ![i] = e]
               /\ firm' = IF e.change \in slips[i] THEN firm ELSE [firm EXCEPT ![i] = e.change]
      <3>1. remote'[i] = e
        BY <1>1, <1>2, <2>3
      <3>2. CASE e.change \in slips[i]
        <4>1. ASSUME NEW k \in Known, k.id = i, k.change < firm[i] PROVE Older(k, e)
          <5>1. Older(k, remote[i]) /\ k.stamp \in Nat /\ k.version \in Nat
            BY <1>1, <2>1, <4>1, RangeTypes, EntryFields
          <5>2. QED
            BY <5>1, <1>1, <1>6, <2>3 DEF Older, Accepts
        <4>2. QED
          BY <2>1, <2>3, <3>1, <3>2, <4>1
      <3>3. CASE e.change \notin slips[i]
        <4>1. firm'[i] = e.change
          BY <1>1, <1>2, <2>3, <3>3
        <4>2. \A k \in Known : k.id = i /\ k.change < e.change => Older(k, e)
          BY <1>1, <3>3 DEF IInv, LaterWins
        <4>3. QED
          BY <1>1, <3>1, <4>1, <4>2
      <3>4. QED
        BY <3>2, <3>3
    <2>4. QED
      BY <1>3, <2>2, <2>3
  <1>9. Orderly(i) /\ remote[i].change = changes[i] => remote'[i].change = changes[i]
    <2> SUFFICES ASSUME Orderly(i), remote[i].change = changes[i]
                 PROVE  remote'[i].change = changes[i]
      OBVIOUS
    <2>1. CASE e.change = changes[i]
      BY <1>1, <1>4, <2>1
    <2>2. CASE e.change # changes[i]
      <3>1. Older(e, remote[i])
        BY <1>1, <1>6, <2>2 DEF IInv, LaterWins, Orderly
      <3>2. ~Accepts(remote[i], e)
        BY <1>1, <1>6, <3>1 DEF Older, Accepts
      <3>3. QED
        BY <1>3, <3>2
    <2>3. QED
      BY <2>1, <2>2
  <1>10. Orderly(i) /\ e.change = changes[i] => remote'[i].change = changes[i]
    <2> SUFFICES ASSUME Orderly(i), e.change = changes[i], remote[i].change # changes[i]
                 PROVE  remote'[i].change = changes[i]
      BY <1>9
    <2>1. Older(remote[i], e)
      BY <1>1, <1>6 DEF IInv, LaterWins, Orderly
    <2>2. Accepts(remote[i], e)
      BY <1>1, <1>6, <2>1 DEF Older, Accepts
    <2>3. QED
      BY <1>1, <1>2, <1>3, <2>2
  <1>11. \A o \in Objects : o # i =>
           /\ firm'[o] <= changes[o]
           /\ \A k \in Known : k.id = o /\ k.change < firm'[o] => Older(k, remote'[o])
    BY <1>4 DEF IInv, FirmOK
  <1> HIDE DEF i
  <1>12. QED
    BY <1>4, <1>5, <1>7, <1>8, <1>9, <1>10, <1>11 DEF i

(* What an upsert leaves of the pushes and the queue. *)
LEMMA UpsertKeeps ==
  ASSUME IInv, NEW e \in Flying, Upsert(e), Known' \subseteq Known,
         UNCHANGED <<changes, slips, outbox>>
  PROVE  /\ FirmOK' /\ LatestIsQueued'
         /\ \A q \in Pushes : PushOK(q)'
         /\ \A q \in Push : PushOK(q) /\ q.entry = e => PushOK([q EXCEPT !.applied = TRUE])'
  <1>1. /\ \A o \in Objects :
             /\ firm'[o] <= changes[o]
             /\ \A k \in Known : k.id = o /\ k.change < firm'[o] => Older(k, remote'[o])
        /\ \A o \in Objects :
             Orderly(o) /\ remote[o].change = changes[o] => remote'[o].change = changes[o]
        /\ Orderly(e.id) /\ e.change = changes[e.id] => remote'[e.id].change = changes[e.id]
    BY UpsertForward
  <1>2. TypeOK
    BY DEF IInv
  <1>3. FirmOK'
    BY <1>1 DEF FirmOK, Older
  <1>4. LatestIsQueued'
    BY <1>1 DEF IInv, LatestIsQueued, Orderly
  <1>5. ASSUME NEW q \in Pushes PROVE PushOK(q)'
    <2>1. PushOK(q) /\ q.row.id \in Objects
      BY <1>2, RangeTypes, RowFields DEF IInv, PushesOK
    <2>2. QED
      BY <2>1, <1>1 DEF PushOK, Orderly
  <1>6. ASSUME NEW q \in Push, PushOK(q), q.entry = e PROVE PushOK([q EXCEPT !.applied = TRUE])'
    <2>1. [q EXCEPT !.applied = TRUE].row = q.row /\ [q EXCEPT !.applied = TRUE].entry = e
      BY <1>6 DEF Push
    <2>2. QED
      BY <1>1, <1>6, <2>1 DEF PushOK, Orderly
  <1>7. QED
    BY <1>3, <1>4, <1>5, <1>6

LEMMA ApplyKeeps ==
  ASSUME IInv, TypeOK', NEW d \in Drainers, Apply(d)
  PROVE  IInv'
  <1> PICK p \in push[d] :
        /\ ~p.applied
        /\ Upsert(p.entry)
        /\ push' = [push EXCEPT ![d] = {[p EXCEPT !.applied = TRUE]}]
    BY DEF Apply
  <1> DEFINE np == [p EXCEPT !.applied = TRUE]
  <1>1. /\ UNCHANGED <<clock, local, changes, newest, slips, outbox, nextSeq, queue, stray>>
        /\ TypeOK /\ push \in [Drainers -> SUBSET Push]
    BY DEF Apply, IInv, TypeOK
  <1>2. p \in Pushes /\ p \in Push
    BY <1>1 DEF Pushes
  <1>3. np.row = p.row /\ np.entry = p.entry
    BY <1>2 DEF Push
  <1> HIDE DEF np
  <1>4. Pushes' \subseteq Pushes \cup {np}
    BY <1>1 DEF Pushes, np
  <1>5. p.entry \in Flying /\ p.row \in Held
    BY <1>1, <1>2, RangeTypes
  <1>6. Flying' \subseteq Flying
    BY <1>1, <1>3, <1>4, <1>5 DEF Flying
  <1>7. Held' \subseteq Held
    BY <1>1, <1>3, <1>4, <1>5 DEF Held
  <1>8. RemoteOK' /\ {remote'[o] : o \in Objects} \subseteq Known
    BY <1>5, UpsertForward
  <1>9. Known' \subseteq Known
    BY <1>6, <1>8 DEF Known
  <1>10. LocalOK' /\ EntriesOK' /\ FlyingShowsAChange' /\ LaterWins'
    BY <1>1, <1>6, <1>9, EntriesStay
  <1>11. RowsOK' /\ OneRowPerSeq' /\ RevisionsTell'
    BY <1>1, <1>7, RowsStay, RangeTypes
  <1>12. /\ FirmOK' /\ LatestIsQueued'
         /\ \A q \in Pushes : PushOK(q)'
         /\ \A q \in Push : PushOK(q) /\ q.entry = p.entry => PushOK([q EXCEPT !.applied = TRUE])'
    BY <1>1, <1>5, <1>9, UpsertKeeps
  <1>13. PushOK(np)'
    BY <1>2, <1>12 DEF IInv, PushesOK, np
  <1>14. PushesOK'
    BY <1>4, <1>12, <1>13 DEF PushesOK
  <1>15. QED
    BY <1>8, <1>10, <1>11, <1>12, <1>14 DEF IInv

LEMMA ApplyStrayKeeps ==
  ASSUME IInv, TypeOK', NEW e \in stray, ApplyStray(e)
  PROVE  IInv'
  <1>1. /\ UNCHANGED <<clock, local, changes, newest, slips, outbox, nextSeq, queue, push>>
        /\ stray' \subseteq stray /\ TypeOK /\ Upsert(e)
    BY DEF ApplyStray, IInv
  <1>2. Pushes' = Pushes /\ Held' = Held
    BY <1>1 DEF Pushes, Held
  <1>3. e \in Flying /\ Flying' \subseteq Flying
    BY <1>1, <1>2 DEF Flying
  <1>4. RemoteOK' /\ {remote'[o] : o \in Objects} \subseteq Known
    BY <1>3, <1>1, UpsertForward
  <1>5. Known' \subseteq Known
    BY <1>3, <1>4 DEF Known
  <1>6. LocalOK' /\ EntriesOK' /\ FlyingShowsAChange' /\ LaterWins'
    BY <1>1, <1>3, <1>5, EntriesStay
  <1>7. RowsOK' /\ OneRowPerSeq' /\ RevisionsTell'
    BY <1>1, <1>2, RowsStay, RangeTypes
  <1>8. FirmOK' /\ LatestIsQueued' /\ \A q \in Pushes : PushOK(q)'
    BY <1>1, <1>3, <1>5, UpsertKeeps
  <1>9. PushesOK'
    BY <1>2, <1>8 DEF PushesOK
  <1>10. QED
    BY <1>4, <1>6, <1>7, <1>8, <1>9 DEF IInv

(* Ending a push, with its entry left behind or not, adds nothing new.       *)
LEMMA PushEnds ==
  ASSUME IInv, NEW d \in Drainers,
         push' = [push EXCEPT ![d] = {}],
         \A i \in Drainers : queue'[i] \subseteq queue[i],
         stray' \subseteq stray \cup {p.entry : p \in push[d]},
         UNCHANGED <<clock, local, changes, newest, slips, remote, firm>>
  PROVE  /\ LocalOK' /\ EntriesOK' /\ FlyingShowsAChange' /\ LaterWins' /\ FirmOK'
         /\ RemoteOK' /\ PushesOK' /\ Held' \subseteq Held
  <1>1. Pushes' \subseteq Pushes /\ push[d] \subseteq Pushes
    BY DEF IInv, TypeOK, Pushes
  <1>2. Flying' \subseteq Flying
    BY <1>1 DEF Flying
  <1>3. Known' \subseteq Known
    BY <1>2 DEF Known
  <1>4. Held' \subseteq Held
    BY <1>1 DEF Held
  <1>5. RemoteOK' /\ PushesOK'
    BY <1>1 DEF IInv, RemoteOK, PushesOK, PushOK, Orderly
  <1>6. FirmOK'
    BY <1>3, FirmStays
  <1>7. QED
    BY <1>2, <1>3, <1>4, <1>5, <1>6, EntriesStay

(* The row is deleted only if no change came after the one that was pushed.  *)
LEMMA ConfirmKeeps ==
  ASSUME IInv, TypeOK', NEW d \in Drainers, Confirm(d)
  PROVE  IInv'
  <1> PICK p \in push[d] :
        /\ p.applied
        /\ outbox' = outbox \ Same(p.row)
        /\ push' = [push EXCEPT ![d] = {}]
    BY DEF Confirm
  <1>1. /\ UNCHANGED <<clock, local, changes, newest, slips, nextSeq, remote, firm, queue, stray>>
        /\ TypeOK
    BY DEF Confirm, IInv
  <1>2. p \in Pushes /\ p \in Push /\ p.row \in Held /\ PushOK(p)
    BY <1>1, RangeTypes DEF Pushes, IInv, PushesOK, TypeOK
  <1>3. /\ LocalOK' /\ EntriesOK' /\ FlyingShowsAChange' /\ LaterWins' /\ FirmOK'
        /\ RemoteOK' /\ PushesOK' /\ Held' \subseteq Held
    BY <1>1, PushEnds
  <1>4. outbox' \subseteq outbox
    OBVIOUS
  <1>5. RowsOK' /\ OneRowPerSeq' /\ RevisionsTell'
    BY <1>1, <1>3, <1>4 DEF IInv, RowsOK, RowOK, OneRowPerSeq, RevisionsTell
  <1>6. LatestIsQueued'
    <2> SUFFICES ASSUME NEW o \in Objects, Orderly(o), remote[o].change # changes[o]
                 PROVE  \E x \in outbox' : x.id = o /\ x.change = changes[o]
      BY <1>1 DEF LatestIsQueued, Orderly
    <2>1. PICK x \in outbox : x.id = o /\ x.change = changes[o]
      BY DEF IInv, LatestIsQueued
    <2>2. CASE x \in Same(p.row)
      <3>1. p.row.id = o /\ p.row.change = changes[o]
        BY <1>2, <2>1, <2>2 DEF Same, IInv, RevisionsTell
      <3>2. p.entry \in Known /\ p.entry.id = o /\ changes[o] <= p.entry.change
        BY <1>1, <1>2, <3>1, RangeTypes DEF PushOK
      <3>3. p.entry.change = changes[o]
        <4>1. p.entry.change \in Nat /\ changes[o] \in Nat
          BY <1>1, <1>2, EntryFields, LocalFields DEF Push
        <4>2. QED
          BY <4>1, <3>2 DEF IInv, EntriesOK, EntryOK
      <3>4. QED
        BY <1>2, <3>1, <3>3 DEF PushOK
    <2>3. CASE x \notin Same(p.row)
      BY <2>1, <2>3
    <2>4. QED
      BY <2>2, <2>3
  <1>7. QED
    BY <1>3, <1>5, <1>6 DEF IInv

(* Counting an attempt, parking and the end of a back-off keep what the      *)
(* invariant says of a row.                                                  *)
Alike(x, y) ==
  /\ x.seq = y.seq /\ x.id = y.id /\ x.op = y.op
  /\ x.revision = y.revision /\ x.change = y.change

LEMMA Relabel ==
  ASSUME IInv, NEW S \in SUBSET outbox, NEW f,
         \A x \in S : Alike(f[x], x),
         outbox' = (outbox \ S) \cup {f[x] : x \in S},
         Held' \subseteq Held,
         UNCHANGED <<local, changes, slips, nextSeq, remote>>
  PROVE  RowsOK' /\ OneRowPerSeq' /\ RevisionsTell' /\ LatestIsQueued'
  <1>1. \A y \in outbox' : \E x \in outbox : Alike(y, x)
    BY DEF Alike
  <1>2. \A x \in outbox : \E y \in outbox' : Alike(y, x)
    BY DEF Alike
  <1>3. RowsOK'
    <2> SUFFICES ASSUME NEW r \in outbox' \cup Held' PROVE RowOK(r)'
      BY DEF RowsOK
    <2>1. CASE r \in Held
      BY <2>1 DEF IInv, RowsOK, RowOK
    <2>2. CASE r \in outbox'
      <3> PICK x \in outbox : Alike(r, x)
        BY <1>1, <2>2
      <3>1. QED
        BY DEF IInv, RowsOK, RowOK, Alike
    <2>3. QED
      BY <2>1, <2>2
  <1>4. OneRowPerSeq'
    <2> SUFFICES ASSUME NEW y \in outbox', NEW z \in outbox', y.seq = z.seq PROVE y = z
      BY DEF OneRowPerSeq
    <2>1. (y \in outbox /\ y \notin S) \/ \E x \in S : y = f[x]
      OBVIOUS
    <2>2. (z \in outbox /\ z \notin S) \/ \E x \in S : z = f[x]
      OBVIOUS
    <2>3. \A x \in S : f[x].seq = x.seq /\ x \in outbox
      BY DEF Alike
    <2>4. QED
      BY <2>1, <2>2, <2>3 DEF IInv, OneRowPerSeq
  <1>5. RevisionsTell'
    <2> SUFFICES ASSUME NEW r \in Held, NEW y \in outbox', r.seq = y.seq
                 PROVE  /\ r.id = y.id
                        /\ r.revision <= y.revision
                        /\ r.revision = y.revision => r.change = y.change
      BY DEF RevisionsTell
    <2>1. PICK x \in outbox : Alike(y, x)
      BY <1>1
    <2>2. QED
      BY <2>1 DEF IInv, RevisionsTell, Alike
  <1>6. LatestIsQueued'
    <2> SUFFICES ASSUME NEW o \in Objects, Orderly(o), remote[o].change # changes[o]
                 PROVE  \E y \in outbox' : y.id = o /\ y.change = changes[o]
      BY DEF LatestIsQueued, Orderly
    <2>1. PICK x \in outbox : x.id = o /\ x.change = changes[o]
      BY DEF IInv, LatestIsQueued
    <2>2. QED
      BY <1>2, <2>1 DEF Alike
  <1>7. QED
    BY <1>3, <1>4, <1>5, <1>6

LEMMA FailKeeps ==
  ASSUME IInv, TypeOK', NEW d \in Drainers, Fail(d)
  PROVE  IInv'
  <1> PICK p \in push[d] :
        /\ outbox' = (outbox \ Same(p.row)) \cup {Deferred(x, p.row) : x \in Same(p.row)}
        /\ push' = [push EXCEPT ![d] = {}]
        /\ GiveUp(p)
    BY DEF Fail
  <1>1. UNCHANGED <<clock, local, changes, newest, slips, nextSeq, remote, firm, queue>> /\ TypeOK
    BY DEF Fail, IInv
  <1>2. stray' \subseteq stray \cup {q.entry : q \in push[d]}
    BY DEF GiveUp
  <1>3. /\ LocalOK' /\ EntriesOK' /\ FlyingShowsAChange' /\ LaterWins' /\ FirmOK'
        /\ RemoteOK' /\ PushesOK' /\ Held' \subseteq Held
    BY <1>1, <1>2, PushEnds
  <1>4. Same(p.row) \in SUBSET outbox /\ outbox \subseteq OutboxRow
    BY <1>1 DEF Same, TypeOK
  <1> DEFINE f == [x \in Same(p.row) |-> Deferred(x, p.row)]
  <1>5. \A x \in Same(p.row) : Alike(f[x], x)
    BY <1>4 DEF Deferred, Alike, OutboxRow
  <1>6. outbox' = (outbox \ Same(p.row)) \cup {f[x] : x \in Same(p.row)}
    OBVIOUS
  <1> HIDE DEF f
  <1>7. RowsOK' /\ OneRowPerSeq' /\ RevisionsTell' /\ LatestIsQueued'
    BY <1>1, <1>3, <1>4, <1>5, <1>6, Relabel
  <1>8. QED
    BY <1>3, <1>7 DEF IInv

LEMMA CrashKeeps ==
  ASSUME IInv, TypeOK', NEW d \in Drainers, Crash(d)
  PROVE  IInv'
  <1>1. /\ UNCHANGED <<clock, local, changes, newest, slips, outbox, nextSeq, remote, firm>>
        /\ TypeOK
        /\ push' = [push EXCEPT ![d] = {}] /\ queue' = [queue EXCEPT ![d] = {}]
    BY DEF Crash, IInv
  <1>2. stray' \subseteq stray \cup {p.entry : p \in push[d]}
    BY DEF Crash, GiveUp
  <1>3. \A i \in Drainers : queue'[i] \subseteq queue[i]
    BY <1>1 DEF TypeOK
  <1>4. /\ LocalOK' /\ EntriesOK' /\ FlyingShowsAChange' /\ LaterWins' /\ FirmOK'
        /\ RemoteOK' /\ PushesOK' /\ Held' \subseteq Held
    BY <1>1, <1>2, <1>3, PushEnds
  <1>5. RowsOK' /\ OneRowPerSeq' /\ RevisionsTell'
    BY <1>1, <1>4, RowsStay, RangeTypes
  <1>6. LatestIsQueued'
    BY <1>1 DEF IInv, LatestIsQueued, Orderly
  <1>7. QED
    BY <1>4, <1>5, <1>6 DEF IInv

LEMMA BackoffKeeps ==
  ASSUME IInv, TypeOK', NEW x \in outbox, BackoffElapses(x)
  PROVE  IInv'
  <1> DEFINE f == [y \in {x} |-> [y EXCEPT !.due = TRUE]]
  <1>1. /\ UNCHANGED <<clock, local, changes, newest, slips, nextSeq, remote, firm, queue, push,
                       stray>>
        /\ TypeOK
        /\ outbox' = (outbox \ {x}) \cup {f[y] : y \in {x}}
    BY DEF BackoffElapses, IInv
  <1>2. \A y \in {x} : Alike(f[y], y)
    BY <1>1 DEF Alike, OutboxRow, TypeOK
  <1>3. Pushes' = Pushes /\ Flying' = Flying /\ Known' = Known /\ Held' = Held
    BY <1>1 DEF Pushes, Flying, Known, Held
  <1> HIDE DEF f
  <1>4. RowsOK' /\ OneRowPerSeq' /\ RevisionsTell' /\ LatestIsQueued'
    <2>1. {x} \in SUBSET outbox /\ Held' \subseteq Held
      BY <1>3
    <2>2. QED
      BY <1>1, <1>2, <2>1, Relabel
  <1>5. LocalOK' /\ EntriesOK' /\ FlyingShowsAChange' /\ LaterWins'
    BY <1>1, <1>3, EntriesStay
  <1>6. RemoteOK' /\ PushesOK' /\ FirmOK'
    BY <1>1, <1>3, FirmStays DEF IInv, RemoteOK, PushesOK, PushOK, Orderly
  <1>7. QED
    BY <1>4, <1>5, <1>6 DEF IInv

LEMMA NextIInv == IInv /\ [Next]_vars => IInv'
  <1> SUFFICES ASSUME IInv, [Next]_vars PROVE IInv'
    OBVIOUS
  <1>1. TypeOK'
    BY NextTypeOK DEF IInv
  <1>2. CASE LocalWrite
    BY <1>1, <1>2, CreateKeeps, UpdateKeeps, QuietUpdateKeeps, DeleteKeeps DEF LocalWrite
  <1>3. ASSUME NEW d \in Drainers, Drain(d) \/ Fail(d) \/ Crash(d) PROVE IInv'
    BY <1>1, <1>3, SelectKeeps, BuildKeeps, ApplyKeeps, ConfirmKeeps, FailKeeps, CrashKeeps
       DEF Drain
  <1>4. ASSUME NEW e \in stray, ApplyStray(e) PROVE IInv'
    BY <1>1, <1>4, ApplyStrayKeeps
  <1>5. ASSUME NEW x \in outbox, BackoffElapses(x) PROVE IInv'
    BY <1>1, <1>5, BackoffKeeps
  <1>6. CASE UNCHANGED vars
    BY <1>1, <1>6 DEF vars, IInv, LocalOK, EntriesOK, EntryOK, Older, FlyingShowsAChange, RemoteOK,
       LaterWins, FirmOK, RowsOK, RowOK, OneRowPerSeq, RevisionsTell, PushesOK, PushOK,
       LatestIsQueued, Orderly, Known, Flying, Held, Pushes
  <1>7. QED
    BY <1>2, <1>3, <1>4, <1>5, <1>6 DEF Next

-----------------------------------------------------------------------------
(* The theorems *)

THEOREM ShadowInvariant == Spec => []IInv
  BY InitIInv, NextIInv, PTL DEF Spec

(* An object the cloud does not show as it is has a row in the outbox,       *)
(* however many processes drain it and whatever becomes of their pushes,     *)
(* unless its last change slipped.                                           *)
THEOREM ShadowLosesNothing == Spec => []NothingLost
  <1>1. IInv => NothingLost
    <2> SUFFICES ASSUME IInv, NEW o \in Objects, Orderly(o) PROVE InSync(o) \/ Queued(o)
      BY DEF NothingLost, LastSlipped, Orderly
    <2>1. CASE remote[o].change = changes[o]
      <3>1. remote[o] \in Known /\ remote[o].id = o
        BY DEF Known, IInv, RemoteOK
      <3>2. EntryOK(remote[o])
        BY <3>1 DEF IInv, EntriesOK
      <3>3. QED
        BY <2>1, <3>1, <3>2 DEF EntryOK, InSync
    <2>2. CASE remote[o].change # changes[o]
      BY <2>2 DEF IInv, LatestIsQueued, Queued
    <2>3. QED
      BY <2>1, <2>2
  <1>2. QED
    BY <1>1, ShadowInvariant, PTL

(* Only a write of o changes what is counted of o. *)
LEMMA LocalWriteChanges ==
  ASSUME TypeOK, LocalWrite
  PROVE  /\ remote' = remote /\ firm' = firm
         /\ \E o \in Objects :
              /\ changes' = [changes EXCEPT ![o] = @ + 1]
              /\ \/ slips' = slips
                 \/ slips' = [slips EXCEPT ![o] = @ \cup {changes[o] + 1}]
  <1>1. ASSUME NEW o \in Objects, NEW now, NEW row, Stamps(o, now, row)
        PROVE  /\ remote' = remote /\ firm' = firm
               /\ changes' = [changes EXCEPT ![o] = @ + 1]
               /\ \/ slips' = slips
                  \/ slips' = [slips EXCEPT ![o] = @ \cup {changes[o] + 1}]
    BY <1>1 DEF Stamps, Write, Trigger, Ranks
  <1>2. PICK o \in Objects : Create(o) \/ Update(o) \/ QuietUpdate(o) \/ Delete(o)
    BY DEF LocalWrite
  <1>3. CASE Delete(o)
    BY <1>3 DEF Delete, Write, Trigger
  <1>4. CASE Create(o) \/ Update(o) \/ QuietUpdate(o)
    <2>1. \E now, row : Stamps(o, now, row)
      BY <1>4 DEF Create, Update, QuietUpdate
    <2>2. QED
      BY <1>1, <2>1
  <1>5. QED
    BY <1>2, <1>3, <1>4

(* The outbox implements the one-way mirror: the cloud never shows a change  *)
(* of an object before the last orderly one it has shown, nor one that was   *)
(* never made.                                                               *)
THEOREM ShadowMirrorsOneWay == Spec => MirrorsOneWay
  <1> DEFINE cpy == [o \in Objects |-> remote[o].change]
             stays == changes' = changes /\ slips' = slips /\ cpy' = cpy /\ firm' = firm
  <1>1. Init => Mirror!Init
    BY DEF Init, Mirror!Init, NoEntry
  <1>2. IInv /\ [Next]_vars => [Mirror!Next]_(Mirror!vars)
    <2> SUFFICES ASSUME IInv, [Next]_vars PROVE Mirror!Next \/ stays
      BY DEF Mirror!vars
    <2>0. TypeOK
      BY DEF IInv
    <2>1. CASE LocalWrite
      <3>1. PICK o \in Objects :
              /\ remote' = remote /\ firm' = firm
              /\ changes' = [changes EXCEPT ![o] = @ + 1]
              /\ \/ slips' = slips
                 \/ slips' = [slips EXCEPT ![o] = @ \cup {changes[o] + 1}]
        BY <2>0, <2>1, LocalWriteChanges
      <3>2. QED
        BY <3>1 DEF Mirror!Next, Mirror!Change
    <2>2. ASSUME NEW e \in Flying, Upsert(e), changes' = changes, slips' = slips
          PROVE  Mirror!Next \/ stays
      <3>1. /\ e \in Known /\ e.id \in Objects /\ e.change \in Nat /\ e.change >= 1
            /\ e.change <= changes[e.id] /\ changes[e.id] \in Nat
        BY <2>0, RangeTypes, EntryFields, LocalFields
           DEF IInv, FlyingShowsAChange, EntriesOK, EntryOK
      <3>2. CASE ~Accepts(remote[e.id], e)
        BY <2>2, <3>2 DEF Upsert
      <3>3. CASE Accepts(remote[e.id], e)
        <4>1. /\ remote' = [remote EXCEPT ![e.id] = e]
              /\ firm' = IF e.change \in slips[e.id] THEN firm
                                                     ELSE [firm EXCEPT ![e.id] = e.change]
          BY <2>2, <3>3 DEF Upsert
        <4>2. firm[e.id] <= e.change
          <5>1. ~Older(e, remote[e.id])
            <6>1. remote[e.id] \in Entry
              BY <2>0, <3>1 DEF TypeOK
            <6>2. QED
              BY <2>0, <3>1, <3>3, <6>1, RangeTypes, EntryFields DEF Older, Accepts
          <5>2. ~(e.change < firm[e.id])
            BY <3>1, <5>1 DEF IInv, FirmOK
          <5>3. QED
            BY <2>0, <3>1, <5>2, LocalFields
        <4>3. cpy' = [cpy EXCEPT ![e.id] = e.change]
          BY <2>0, <3>1, <4>1 DEF TypeOK
        <4>4. e.change \in 1 .. changes[e.id]
          BY <3>1
        <4>5. Mirror!CatchUp(e.id)
          BY <2>2, <4>1, <4>2, <4>3, <4>4 DEF Mirror!CatchUp
        <4>6. QED
          BY <3>1, <4>5 DEF Mirror!Next
      <3>4. QED
        BY <3>2, <3>3
    <2>3. ASSUME NEW d \in Drainers, Apply(d) PROVE Mirror!Next \/ stays
      <3> PICK p \in push[d] : Upsert(p.entry)
        BY <2>3 DEF Apply
      <3>1. p.entry \in Flying
        BY <2>0, RangeTypes DEF Pushes
      <3>2. QED
        BY <2>2, <2>3, <3>1 DEF Apply
    <2>4. ASSUME NEW e \in stray, ApplyStray(e) PROVE Mirror!Next \/ stays
      BY <2>2, <2>4 DEF ApplyStray, Flying
    <2>5. ASSUME UNCHANGED <<changes, slips, remote, firm>> PROVE Mirror!Next \/ stays
      BY <2>5
    <2>6. QED
      BY <2>1, <2>3, <2>4, <2>5
         DEF Next, Drain, Select, Build, Confirm, Fail, Crash, BackoffElapses, vars
  <1>3. QED
    BY <1>1, <1>2, ShadowInvariant, PTL DEF Spec, MirrorsOneWay, Mirror!Spec
====
