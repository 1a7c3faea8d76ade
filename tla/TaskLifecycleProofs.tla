------------------------ MODULE TaskLifecycleProofs ------------------------
(***************************************************************************)
(* Theorems about TaskLifecycle, for any tasks, processes, agent names,    *)
(* prerequisites and times.                                                *)
(*                                                                         *)
(* The argument: every step moves a row in one of three ways - not at all, *)
(* to a higher version, or by clearing a lock that has expired - and every *)
(* snapshot is taken of the row as it is.  So equal versions mean equal    *)
(* rows, and what an operation checked when it read still holds when its   *)
(* version-guarded UPDATE commits.                                         *)
(***************************************************************************)
EXTENDS TaskLifecycle, TLAPS

(***************************************************************************)
(* The writers of a row.                                                   *)
(***************************************************************************)

\* The elementary writers keep a row a row; Bump moves the version by one and
\* the others leave it alone.
LEMMA BumpRow ==
    ASSUME NEW r \in Row, NEW ts \in Nat
    PROVE  /\ Bump(r, ts) \in Row
           /\ Bump(r, ts).version = r.version + 1
           /\ Bump(r, ts).updated_at = ts
           /\ Bump(r, ts).locked_at = r.locked_at
           /\ Bump(r, ts).locked_by = r.locked_by
           /\ Bump(r, ts).status = r.status
           /\ Bump(r, ts).stamped = r.stamped
<1>1. r.version + 1 \in Nat
  BY DEF Row
<1>2. Bump(r, ts) = [r EXCEPT !.updated_at = ts, !.version = r.version + 1]
  BY DEF Bump
<1>3. QED
  BY <1>1, <1>2 DEF Row

LEMMA UnlockedRow ==
    ASSUME NEW r \in Row
    PROVE  /\ Unlocked(r) \in Row
           /\ Unlocked(r).version = r.version
           /\ Unlocked(r).updated_at = r.updated_at
           /\ Unlocked(r).locked_by = None
           /\ Unlocked(r).locked_at = 0
           /\ Unlocked(r).status = r.status
           /\ Unlocked(r).stamped = r.stamped
  BY DEF Row, Unlocked

LEMMA LockedRow ==
    ASSUME NEW r \in Row, NEW p \in Procs, NEW ts \in Nat
    PROVE  /\ Locked(r, p, ts) \in Row
           /\ Locked(r, p, ts).version = r.version
           /\ Locked(r, p, ts).locked_by = AgentOf[p]
           /\ Locked(r, p, ts).locked_at = ts
           /\ Locked(r, p, ts).status = r.status
           /\ Locked(r, p, ts).stamped = r.stamped
<1>1. AgentOf[p] \in Agents
  BY ConstantsAssumption
<1>2. QED
  BY <1>1 DEF Row, Locked

\* What the acquiring writes leave in the row.
LEMMA TakenRow ==
    ASSUME NEW r \in Row, NEW p \in Procs, NEW ts \in Nat
    PROVE  LET n == Taken(r, p, ts)
           IN /\ n \in Row
              /\ n.version = r.version + 1
              /\ n.locked_by = AgentOf[p]
              /\ n.locked_at = ts
              /\ n.updated_at = ts
              /\ n.status = "in_progress"
<1> DEFINE l == Locked(r, p, ts)
           m == [l EXCEPT !.status = "in_progress", !.assigned_to = AgentOf[p]]
<1>1. AgentOf[p] \in Agents /\ "in_progress" \in Statuses
  BY ConstantsAssumption DEF Statuses
<1>2. l \in Row /\ l.version = r.version /\ l.locked_by = AgentOf[p] /\ l.locked_at = ts
  BY LockedRow
<1>3. Taken(r, p, ts) = Bump(m, ts)
  BY DEF Taken
<1> HIDE DEF l
<1>4. /\ m \in Row
      /\ m.version = l.version
      /\ m.locked_by = l.locked_by
      /\ m.locked_at = l.locked_at
      /\ m.status = "in_progress"
  BY <1>1, <1>2 DEF Row
<1> HIDE DEF m
<1>5. QED
  BY <1>2, <1>3, <1>4, BumpRow

LEMMA StolenRow ==
    ASSUME NEW r \in Row, NEW p \in Procs, NEW ts \in Nat
    PROVE  LET n == Stolen(r, p, ts)
           IN /\ n \in Row
              /\ n.version = r.version + 1
              /\ n.locked_by = AgentOf[p]
              /\ n.locked_at = ts
              /\ n.updated_at = ts
              /\ n.status = r.status
              /\ n.stamped = r.stamped
<1> DEFINE m == [Locked(r, p, ts) EXCEPT !.assigned_to = AgentOf[p]]
<1>1. AgentOf[p] \in Agents
  BY ConstantsAssumption
<1>2. /\ m \in Row
      /\ m.version = r.version
      /\ m.locked_by = AgentOf[p]
      /\ m.locked_at = ts
      /\ m.status = r.status
      /\ m.stamped = r.stamped
  BY <1>1, LockedRow DEF Row
<1>3. Stolen(r, p, ts) = Bump(m, ts)
  BY DEF Stolen
<1> HIDE DEF m
<1>4. QED
  BY <1>2, <1>3, BumpRow

\* What the releasing writes leave in the row.
LEMMA CompletedRow ==
    ASSUME NEW r \in Row, NEW ts \in Nat
    PROVE  LET n == Completed(r, ts)
           IN /\ n \in Row
              /\ n.version = r.version + 1
              /\ n.locked_by = None
              /\ n.locked_at = 0
              /\ n.updated_at = ts
              /\ n.status = "completed"
              /\ n.stamped = TRUE
<1> DEFINE m == [Unlocked(r) EXCEPT !.status = "completed", !.stamped = TRUE]
<1>1. Unlocked(r) \in Row
  BY UnlockedRow
<1>2. "completed" \in Statuses
  BY DEF Statuses
<1>3. /\ m \in Row
      /\ m.version = r.version
      /\ m.locked_by = None
      /\ m.locked_at = 0
      /\ m.status = "completed"
      /\ m.stamped = TRUE
  BY <1>1, <1>2, UnlockedRow DEF Row
<1>4. Completed(r, ts) = Bump(m, ts)
  BY DEF Completed
<1> HIDE DEF m
<1>5. /\ Bump(m, ts) \in Row
      /\ Bump(m, ts).version = m.version + 1
      /\ Bump(m, ts).updated_at = ts
      /\ Bump(m, ts).locked_at = m.locked_at
      /\ Bump(m, ts).locked_by = m.locked_by
      /\ Bump(m, ts).status = m.status
      /\ Bump(m, ts).stamped = m.stamped
  BY <1>3, BumpRow
<1>6. QED
  BY <1>3, <1>4, <1>5, Zenon

LEMMA FailedRow ==
    ASSUME NEW r \in Row, NEW ts \in Nat
    PROVE  LET n == Failed(r, ts)
           IN /\ n \in Row
              /\ n.version = r.version + 1
              /\ n.locked_by = None
              /\ n.locked_at = 0
              /\ n.updated_at = ts
              /\ n.status = "failed"
<1> DEFINE m == [Unlocked(r) EXCEPT !.status = "failed"]
<1>1. Unlocked(r) \in Row
  BY UnlockedRow
<1>2. "failed" \in Statuses
  BY DEF Statuses
<1>3. /\ m \in Row
      /\ m.version = r.version
      /\ m.locked_by = None
      /\ m.locked_at = 0
      /\ m.status = "failed"
  BY <1>1, <1>2, UnlockedRow DEF Row
<1>4. Failed(r, ts) = Bump(m, ts)
  BY DEF Failed
<1> HIDE DEF m
<1>5. /\ Bump(m, ts) \in Row
      /\ Bump(m, ts).version = m.version + 1
      /\ Bump(m, ts).updated_at = ts
      /\ Bump(m, ts).locked_at = m.locked_at
      /\ Bump(m, ts).locked_by = m.locked_by
      /\ Bump(m, ts).status = m.status
      /\ Bump(m, ts).stamped = m.stamped
  BY <1>3, BumpRow
<1>6. QED
  BY <1>3, <1>4, <1>5, Zenon

LEMMA ReleasedRow ==
    ASSUME NEW r \in Row, NEW ts \in Nat
    PROVE  LET n == Released(r, ts)
           IN /\ n \in Row
              /\ n.version = r.version + 1
              /\ n.locked_by = None
              /\ n.locked_at = 0
              /\ n.updated_at = ts
              /\ n.status = "pending"
<1> DEFINE m == [Unlocked(r) EXCEPT !.status = "pending"]
<1>1. Unlocked(r) \in Row
  BY UnlockedRow
<1>2. "pending" \in Statuses
  BY DEF Statuses
<1>3. /\ m \in Row
      /\ m.version = r.version
      /\ m.locked_by = None
      /\ m.locked_at = 0
      /\ m.status = "pending"
  BY <1>1, <1>2, UnlockedRow DEF Row
<1>4. Released(r, ts) = Bump(m, ts)
  BY DEF Released
<1> HIDE DEF m
<1>5. /\ Bump(m, ts) \in Row
      /\ Bump(m, ts).version = m.version + 1
      /\ Bump(m, ts).updated_at = ts
      /\ Bump(m, ts).locked_at = m.locked_at
      /\ Bump(m, ts).locked_by = m.locked_by
      /\ Bump(m, ts).status = m.status
      /\ Bump(m, ts).stamped = m.stamped
  BY <1>3, BumpRow
<1>6. QED
  BY <1>3, <1>4, <1>5, Zenon

\* What updateTask leaves in the row.
LEMMA UpdatedRow ==
    ASSUME NEW r \in Row, NEW ts \in Nat, NEW to \in Statuses
    PROVE  LET n == Updated(r, to, ts)
           IN /\ n \in Row
              /\ n.version = r.version + 1
              /\ n.updated_at = ts
              /\ n.status = to
              /\ to = "completed" => n.stamped
              /\ to \in Terminal => n.locked_by = None /\ n.locked_at = 0
              /\ to \notin Terminal => /\ n.locked_by = r.locked_by
                                       /\ n.locked_at = r.locked_at
<1> DEFINE s == IF to \in Terminal THEN Unlocked(r) ELSE r
           b == IF to = "completed" THEN TRUE
                ELSE IF r.status = "completed" THEN FALSE ELSE s.stamped
           m == [s EXCEPT !.status = to, !.stamped = b]
<1>1. /\ s \in Row
      /\ s.version = r.version
      /\ to \in Terminal => s.locked_by = None /\ s.locked_at = 0
      /\ to \notin Terminal => s = r
  BY UnlockedRow
<1>2. b \in BOOLEAN
  BY <1>1 DEF Row
<1>3. Updated(r, to, ts) = Bump(m, ts)
  BY DEF Updated
<1>4. to = "completed" => b = TRUE
  OBVIOUS
<1> HIDE DEF s, b
<1>5. /\ m \in Row
      /\ m.version = r.version
      /\ m.status = to
      /\ m.stamped = b
      /\ m.locked_by = s.locked_by
      /\ m.locked_at = s.locked_at
  BY <1>1, <1>2 DEF Row
<1> HIDE DEF m
<1>6. /\ Bump(m, ts) \in Row
      /\ Bump(m, ts).version = m.version + 1
      /\ Bump(m, ts).updated_at = ts
      /\ Bump(m, ts).locked_at = m.locked_at
      /\ Bump(m, ts).locked_by = m.locked_by
      /\ Bump(m, ts).status = m.status
      /\ Bump(m, ts).stamped = m.stamped
  BY <1>5, BumpRow
<1>7. QED
  BY <1>1, <1>3, <1>4, <1>5, <1>6, Zenon

LEMMA SweptRows ==
    ASSUME NEW rows \in [Tasks -> Row], NEW now \in Nat
    PROVE  /\ Swept(rows, now) \in [Tasks -> Row]
           /\ \A t \in Tasks :
                \/ Swept(rows, now)[t] = rows[t]
                \/ /\ Swept(rows, now)[t] = Unlocked(rows[t])
                   /\ Expired(rows[t].locked_at, now)
  BY UnlockedRow DEF Swept, Row, Unlocked

(***************************************************************************)
(* One step: how a row moves and how an operation moves.                   *)
(***************************************************************************)
FinishedRow(r) ==
    /\ r.status \in {"completed", "cancelled"} => r.locked_by = None
    /\ r.status = "completed" => r.stamped

RowMove(t) ==
    \/ tasks'[t] = tasks[t]
    \/ /\ tasks'[t].version > tasks[t].version
       /\ FinishedRow(tasks[t]) => FinishedRow(tasks'[t])
    \/ /\ tasks'[t] = Unlocked(tasks[t])
       /\ Expired(tasks[t].locked_at, clock)

\* What completeTask checked when it read the row.
Checked(o, p) ==
    /\ o.kind = "complete" => ~LockedByOther(o.row, p, o.at)
    /\ o.kind = "complete_anonymous" =>
            o.row.locked_by = None \/ Expired(o.row.locked_at, o.at)

RowOps == [kind : RowKinds, task : Tasks, row : Row, at : Nat, to : Statuses]
ListOps == [kind : {"redistribute"}, left : SUBSET Tasks, at : Nat]

OpMove(p) ==
    \/ op'[p] = op[p]
    \/ op'[p] = Idle
    \/ op'[p] \in ListOps
    \/ /\ op'[p] \in RowOps
       /\ op'[p].row = tasks[op'[p].task]
       /\ op'[p].at = clock
       /\ Checked(op'[p], p)
       /\ tasks' = tasks

StepOK ==
    /\ TypeOK'
    /\ clock =< clock'
    /\ \A t \in Tasks : RowMove(t)
    /\ \A p \in Procs : OpMove(p)

LEMMA OpOfKind ==
    ASSUME TypeOK, NEW p \in Procs
    PROVE  /\ op[p].kind \in RowKinds => op[p] \in RowOps
           /\ op[p].kind = "redistribute" => op[p] \in ListOps
           /\ op[p] = Idle => op[p].kind = "idle"
<1>1. op[p] \in {Idle} \cup RowOps \cup ListOps
  BY DEF TypeOK, Op, RowOps, ListOps
<1>2. CASE op[p] = Idle
  BY <1>2 DEF Idle, RowKinds
<1>3. CASE op[p] \in RowOps
  BY <1>3 DEF RowOps, RowKinds, Idle
<1>4. CASE op[p] \in ListOps
  BY <1>4 DEF ListOps, RowKinds, Idle
<1>5. QED
  BY <1>1, <1>2, <1>3, <1>4

\* An operation in the middle of a row, and the times it may write.
LEMMA RowOp ==
    ASSUME TypeOK, NEW p \in Procs, op[p].kind \in RowKinds
    PROVE  /\ op[p].task \in Tasks
           /\ op[p].row \in Row
           /\ op[p].at \in Nat
           /\ op[p].to \in Statuses
           /\ Current(p) \in Row
           /\ Current(p) = tasks[op[p].task]
           /\ \A ts \in Times(p) : ts \in Nat /\ op[p].at =< ts /\ ts =< clock
<1>1. op[p] \in RowOps
  BY OpOfKind
<1>2. op[p].task \in Tasks /\ op[p].row \in Row /\ op[p].at \in Nat /\ op[p].to \in Statuses
  BY <1>1 DEF RowOps
<1>3. QED
  BY <1>2 DEF TypeOK, Current, Times

LEMMA PutRow ==
    ASSUME TypeOK, NEW t \in Tasks, NEW n \in Row,
           n.version > tasks[t].version,
           FinishedRow(tasks[t]) => FinishedRow(n),
           tasks' = [tasks EXCEPT ![t] = n]
    PROVE  /\ tasks' \in [Tasks -> Row]
           /\ \A u \in Tasks : RowMove(u)
  BY DEF TypeOK, RowMove

LEMMA SameRows ==
    ASSUME TypeOK, tasks' = tasks
    PROVE  tasks' \in [Tasks -> Row] /\ \A u \in Tasks : RowMove(u)
  BY DEF TypeOK, RowMove

LEMMA DoneOps ==
    ASSUME TypeOK, NEW p \in Procs, Done(p)
    PROVE  op' \in [Procs -> Op] /\ \A q \in Procs : OpMove(q)
  BY DEF TypeOK, Done, Op, OpMove

LEMMA SameOps ==
    ASSUME TypeOK, op' = op
    PROVE  op' \in [Procs -> Op] /\ \A q \in Procs : OpMove(q)
  BY DEF TypeOK, OpMove

LEMMA LeaseTypes ==
    ASSUME TypeOK, NEW p \in Procs, NEW t \in Tasks, NEW ts \in Nat,
           Grant(p, t, ts) \/ Revoke(t) \/ GiveUp(p, t) \/ UNCHANGED lease
    PROVE  lease' \in [Procs -> [Tasks -> Nat]]
<1>1. ts + Expiry \in Nat
  BY ConstantsAssumption
<1>2. QED
  BY <1>1 DEF TypeOK, Grant, Revoke, GiveUp

\* The common end of the actions that write the row of their operation.
LEMMA WriteStep ==
    ASSUME TypeOK, NEW p \in Procs, op[p].kind \in RowKinds,
           NEW ts \in Times(p), NEW n \in Row,
           n.version > Current(p).version,
           FinishedRow(Current(p)) => FinishedRow(n),
           tasks' = [tasks EXCEPT ![op[p].task] = n],
           \/ Grant(p, op[p].task, ts) \/ Revoke(op[p].task)
           \/ GiveUp(p, op[p].task) \/ UNCHANGED lease,
           Done(p), UNCHANGED clock
    PROVE  StepOK
<1>1. /\ op[p].task \in Tasks
      /\ Current(p) = tasks[op[p].task]
      /\ ts \in Nat
  BY RowOp
<1>2. tasks' \in [Tasks -> Row] /\ \A u \in Tasks : RowMove(u)
  BY <1>1, PutRow
<1>3. op' \in [Procs -> Op] /\ \A q \in Procs : OpMove(q)
  BY DoneOps
<1>4. lease' \in [Procs -> [Tasks -> Nat]]
  BY <1>1, LeaseTypes
<1>5. clock' \in Nat \ {0} /\ clock =< clock'
  BY DEF TypeOK
<1>6. QED
  BY <1>2, <1>3, <1>4, <1>5 DEF StepOK, TypeOK

\* The common end of the actions that write no row.
LEMMA QuietStep ==
    ASSUME TypeOK, tasks' = tasks, clock' \in Nat, clock =< clock',
           op' \in [Procs -> Op], \A q \in Procs : OpMove(q),
           lease' \in [Procs -> [Tasks -> Nat]]
    PROVE  StepOK
<1>1. tasks' \in [Tasks -> Row] /\ \A u \in Tasks : RowMove(u)
  BY SameRows
<1>2. clock' \in Nat \ {0}
  BY DEF TypeOK
<1>3. QED
  BY <1>1, <1>2 DEF StepOK, TypeOK

LEMMA BeginStep ==
    ASSUME TypeOK, NEW p \in Procs, NEW kind \in RowKinds, NEW t \in Tasks,
           NEW to \in Statuses, Begin(p, kind, t, to),
           kind = "complete" => ~LockedByOther(tasks[t], p, clock),
           kind = "complete_anonymous" =>
               tasks[t].locked_by = None \/ Expired(tasks[t].locked_at, clock)
    PROVE  StepOK
<1> DEFINE new == [kind |-> kind, task |-> t, row |-> tasks[t], at |-> clock, to |-> to]
<1>1. new \in RowOps /\ new.row = tasks[new.task] /\ new.at = clock /\ Checked(new, p)
  BY DEF RowOps, TypeOK, Checked
<1>2. op' = [op EXCEPT ![p] = new] /\ tasks' = tasks /\ clock' = clock /\ lease' = lease
  BY DEF Begin
<1> HIDE DEF new
<1>3. op' \in [Procs -> Op]
  BY <1>1, <1>2 DEF TypeOK, Op, RowOps
<1>4. \A q \in Procs : OpMove(q)
  BY <1>1, <1>2 DEF TypeOK, OpMove
<1>5. clock' \in Nat /\ clock =< clock' /\ lease' \in [Procs -> [Tasks -> Nat]]
  BY <1>2 DEF TypeOK
<1>6. QED
  BY <1>2, <1>3, <1>4, <1>5, QuietStep

LEMMA ReadsStep ==
    ASSUME TypeOK, NEW p \in Procs, NEW t \in Tasks, Reads(p, t)
    PROVE  StepOK
<1>1. tasks[t].status \in Statuses
  BY DEF TypeOK, Row
<1>2. "in_progress" \in Statuses /\ "completed" \in Statuses /\ "failed" \in Statuses
  BY DEF Statuses
<1>3. PICK kind \in RowKinds, to \in Statuses :
          /\ Begin(p, kind, t, to)
          /\ kind = "complete" => ~LockedByOther(tasks[t], p, clock)
          /\ kind = "complete_anonymous" =>
                 tasks[t].locked_by = None \/ Expired(tasks[t].locked_at, clock)
  BY <1>1, <1>2 DEF Reads, StartRead, CompleteRead, AnonymousCompleteRead,
        FailRead, LockRead, UnlockRead, ForceUnlockRead, UpdateRead, StealRead,
        RowKinds
<1>4. QED
  BY <1>3, BeginStep

LEMMA RedistributeReadStep ==
    ASSUME TypeOK, NEW p \in Procs, RedistributeRead(p)
    PROVE  StepOK
<1>1. PICK limited \in SUBSET Tasks :
        op' = [op EXCEPT ![p] = [kind |-> "redistribute", left |-> limited, at |-> clock]]
  BY DEF RedistributeRead
<1> DEFINE new == [kind |-> "redistribute", left |-> limited, at |-> clock]
<1>2. new \in ListOps
  BY DEF ListOps, TypeOK
<1>3. op' = [op EXCEPT ![p] = new]
  BY <1>1
<1> HIDE DEF new
<1>4. op' \in [Procs -> Op] /\ \A q \in Procs : OpMove(q)
  BY <1>2, <1>3 DEF TypeOK, Op, OpMove, ListOps
<1>5. tasks' = tasks /\ clock' \in Nat /\ clock =< clock' /\ lease' \in [Procs -> [Tasks -> Nat]]
  BY DEF RedistributeRead, TypeOK
<1>6. QED
  BY <1>4, <1>5, QuietStep

\* The transactions: every row is swept, and one may then be taken or stolen.
LEMMA SweptMoves ==
    ASSUME TypeOK, tasks' = Swept(tasks, clock)
    PROVE  tasks' \in [Tasks -> Row] /\ \A u \in Tasks : RowMove(u)
  BY SweptRows DEF TypeOK, RowMove

LEMMA SweptPutMoves ==
    ASSUME TypeOK, NEW t \in Tasks, NEW n \in Row,
           n.version > Swept(tasks, clock)[t].version,
           FinishedRow(n),
           tasks' = [Swept(tasks, clock) EXCEPT ![t] = n]
    PROVE  tasks' \in [Tasks -> Row] /\ \A u \in Tasks : RowMove(u)
<1> DEFINE rows == Swept(tasks, clock)
<1>1. /\ rows \in [Tasks -> Row]
      /\ \A u \in Tasks : \/ rows[u] = tasks[u]
                          \/ /\ rows[u] = Unlocked(tasks[u])
                             /\ Expired(tasks[u].locked_at, clock)
  BY SweptRows DEF TypeOK
<1>2. n.version > rows[t].version /\ tasks' = [rows EXCEPT ![t] = n]
  OBVIOUS
<1> HIDE DEF rows
<1>3. tasks' \in [Tasks -> Row]
  BY <1>1, <1>2
<1>4. ASSUME NEW u \in Tasks, u # t
      PROVE  RowMove(u)
  BY <1>1, <1>2, <1>4 DEF RowMove
<1>5. rows[t].version = tasks[t].version
  BY <1>1, UnlockedRow DEF TypeOK
<1>6. RowMove(t)
  BY <1>1, <1>2, <1>5 DEF RowMove
<1>7. QED
  BY <1>3, <1>4, <1>6

LEMMA TakeNextMoves ==
    ASSUME TypeOK, NEW p \in Procs, TakeNext(p) \/ NothingNext(p)
    PROVE  /\ tasks' \in [Tasks -> Row]
           /\ \A u \in Tasks : RowMove(u)
           /\ lease' \in [Procs -> [Tasks -> Nat]]
<1>1. clock \in Nat
  BY DEF TypeOK
<1>2. CASE TakeNext(p)
  <2>1. PICK t \in Tasks :
            /\ tasks' = [Swept(tasks, clock) EXCEPT ![t] = Taken(Swept(tasks, clock)[t], p, clock)]
            /\ Grant(p, t, clock)
    BY <1>2 DEF TakeNext, BestCandidates, Candidates
  <2> DEFINE n == Taken(Swept(tasks, clock)[t], p, clock)
  <2>2. Swept(tasks, clock)[t] \in Row
    BY <1>1, SweptRows DEF TypeOK
  <2>3. /\ n \in Row
        /\ n.version = Swept(tasks, clock)[t].version + 1
        /\ n.status = "in_progress"
    BY <1>1, <2>2, TakenRow
  <2>4. n.version > Swept(tasks, clock)[t].version /\ FinishedRow(n)
    BY <2>2, <2>3 DEF Row, FinishedRow
  <2>5. tasks' \in [Tasks -> Row] /\ \A u \in Tasks : RowMove(u)
    <3>1. tasks' = [Swept(tasks, clock) EXCEPT ![t] = n]
      BY <2>1
    <3> HIDE DEF n
    <3>2. QED
      BY <2>3, <2>4, <3>1, SweptPutMoves
  <2>6. QED
    BY <1>1, <2>1, <2>5, LeaseTypes
<1>3. CASE NothingNext(p)
  BY <1>3, SweptMoves DEF NothingNext, TypeOK
<1>4. QED
  BY <1>2, <1>3

LEMMA StartWriteStep ==
    ASSUME TypeOK, NEW p \in Procs, StartWrite(p)
    PROVE  StepOK
<1>1. op[p].kind \in RowKinds
  BY DEF StartWrite, Writing, RowKinds
<1>2. PICK ts \in Times(p) :
          /\ tasks' = [tasks EXCEPT ![op[p].task] = Taken(Current(p), p, ts)]
          /\ Grant(p, op[p].task, ts)
  BY DEF StartWrite, Put
<1> DEFINE n == Taken(Current(p), p, ts)
<1>3. Current(p) \in Row /\ ts \in Nat
  BY <1>1, RowOp
<1>4. n \in Row /\ n.version = Current(p).version + 1 /\ n.status = "in_progress"
  BY <1>3, TakenRow
<1>5. tasks' = [tasks EXCEPT ![op[p].task] = n] /\ Done(p) /\ UNCHANGED clock
  BY <1>2 DEF StartWrite
<1> HIDE DEF n
<1>6. n.version > Current(p).version /\ FinishedRow(n)
  BY <1>3, <1>4 DEF Row, FinishedRow
<1>7. QED
  BY <1>1, <1>2, <1>4, <1>5, <1>6, WriteStep

LEMMA CompleteWriteStep ==
    ASSUME TypeOK, NEW p \in Procs, CompleteWrite(p)
    PROVE  StepOK
<1>1. op[p].kind \in RowKinds
  BY DEF CompleteWrite, Writing, RowKinds
<1>2. PICK ts \in Times(p), evidence \in {0, 1} :
          tasks' = [tasks EXCEPT ![op[p].task] =
                       [Completed(Current(p), ts) EXCEPT !.version = @ + evidence]]
  BY DEF CompleteWrite, Put
<1> DEFINE c == Completed(Current(p), ts)
           n == [c EXCEPT !.version = c.version + evidence]
<1>3. Current(p) \in Row /\ ts \in Nat
  BY <1>1, RowOp
<1>4. /\ c \in Row /\ c.version = Current(p).version + 1
      /\ c.locked_by = None /\ c.status = "completed" /\ c.stamped = TRUE
  BY <1>3, CompletedRow
<1>5. tasks' = [tasks EXCEPT ![op[p].task] = n]
  BY <1>2
<1> HIDE DEF c
<1>6. /\ n \in Row /\ n.version = c.version + evidence
      /\ n.locked_by = None /\ n.status = "completed" /\ n.stamped = TRUE
  BY <1>4 DEF Row
<1> HIDE DEF n
<1>7. n.version > Current(p).version /\ FinishedRow(n)
  BY <1>3, <1>4, <1>6 DEF Row, FinishedRow
<1>8. Revoke(op[p].task) /\ Done(p) /\ UNCHANGED clock
  BY DEF CompleteWrite
<1>9. QED
  BY <1>1, <1>5, <1>6, <1>7, <1>8, WriteStep

LEMMA FailWriteStep ==
    ASSUME TypeOK, NEW p \in Procs, FailWrite(p)
    PROVE  StepOK
<1>1. op[p].kind \in RowKinds
  BY DEF FailWrite, Writing, RowKinds
<1>2. PICK ts \in Times(p) :
          tasks' = [tasks EXCEPT ![op[p].task] = Failed(Current(p), ts)]
  BY DEF FailWrite, Put
<1> DEFINE n == Failed(Current(p), ts)
<1>3. Current(p) \in Row /\ ts \in Nat
  BY <1>1, RowOp
<1>4. n \in Row /\ n.version = Current(p).version + 1 /\ n.status = "failed"
  BY <1>3, FailedRow
<1>5. tasks' = [tasks EXCEPT ![op[p].task] = n]
  BY <1>2
<1> HIDE DEF n
<1>6. n.version > Current(p).version /\ FinishedRow(n)
  BY <1>3, <1>4 DEF Row, FinishedRow
<1>7. Revoke(op[p].task) /\ Done(p) /\ UNCHANGED clock
  BY DEF FailWrite
<1>8. QED
  BY <1>1, <1>4, <1>5, <1>6, <1>7, WriteStep

LEMMA LockWriteStep ==
    ASSUME TypeOK, NEW p \in Procs, LockWrite(p)
    PROVE  StepOK
<1>1. op[p].kind \in RowKinds
  BY DEF LockWrite, Writing, RowKinds
<1>2. PICK ts \in Times(p) :
          /\ Current(p).status \in Lockable
          /\ tasks' = [tasks EXCEPT ![op[p].task] = Bump(Locked(Current(p), p, ts), ts)]
          /\ Grant(p, op[p].task, ts)
  BY DEF LockWrite, Put, CanLock
<1> DEFINE n == Bump(Locked(Current(p), p, ts), ts)
<1>3. Current(p) \in Row /\ ts \in Nat
  BY <1>1, RowOp
<1>4. n \in Row /\ n.version = Current(p).version + 1 /\ n.status = Current(p).status
  BY <1>3, LockedRow, BumpRow
<1>5. tasks' = [tasks EXCEPT ![op[p].task] = n] /\ Done(p) /\ UNCHANGED clock
  BY <1>2 DEF LockWrite
<1> HIDE DEF n
<1>6. n.version > Current(p).version /\ FinishedRow(n)
  BY <1>2, <1>3, <1>4 DEF Row, FinishedRow, Lockable
<1>7. QED
  BY <1>1, <1>2, <1>4, <1>5, <1>6, WriteStep

LEMMA RenewWriteStep ==
    ASSUME TypeOK, NEW p \in Procs, RenewWrite(p)
    PROVE  StepOK
<1>1. op[p].kind \in RowKinds
  BY DEF RenewWrite, Writing, RowKinds
<1>2. PICK ts \in Times(p) :
          /\ IF HeldBy(Current(p), p)
             THEN tasks' = [tasks EXCEPT ![op[p].task] =
                               Bump([Current(p) EXCEPT !.locked_at = ts], ts)]
             ELSE tasks' = tasks
          /\ Grant(p, op[p].task, ts)
  BY DEF RenewWrite, Put
<1>3. Current(p) \in Row /\ ts \in Nat /\ op[p].task \in Tasks
  BY <1>1, RowOp
<1>4. Done(p) /\ clock' = clock
  BY DEF RenewWrite
<1>5. CASE HeldBy(Current(p), p)
  <2> DEFINE m == [Current(p) EXCEPT !.locked_at = ts]
             n == Bump(m, ts)
  <2>1. /\ m \in Row /\ m.version = Current(p).version
        /\ m.status = Current(p).status /\ m.locked_by = Current(p).locked_by
        /\ m.stamped = Current(p).stamped
    BY <1>3 DEF Row
  <2>2. tasks' = [tasks EXCEPT ![op[p].task] = n]
    BY <1>2, <1>5
  <2> HIDE DEF m
  <2>3. /\ n \in Row /\ n.version = m.version + 1
        /\ n.status = m.status /\ n.locked_by = m.locked_by /\ n.stamped = m.stamped
    BY <1>3, <2>1, BumpRow
  <2> HIDE DEF n
  <2>4. n.version > Current(p).version
    BY <1>3, <2>1, <2>3 DEF Row
  <2>5. FinishedRow(Current(p)) => FinishedRow(n)
    BY <2>1, <2>3 DEF FinishedRow
  <2>6. QED
    BY <1>1, <1>2, <1>4, <2>2, <2>3, <2>4, <2>5, WriteStep
<1>6. CASE ~HeldBy(Current(p), p)
  <2>1. tasks' = tasks
    BY <1>2, <1>6
  <2>2. op' \in [Procs -> Op] /\ \A q \in Procs : OpMove(q)
    BY <1>4, DoneOps
  <2>3. lease' \in [Procs -> [Tasks -> Nat]]
    BY <1>2, <1>3, LeaseTypes
  <2>4. clock' \in Nat /\ clock =< clock'
    BY <1>4 DEF TypeOK
  <2>5. QED
    BY <2>1, <2>2, <2>3, <2>4, QuietStep
<1>7. QED
  BY <1>5, <1>6

LEMMA UnlockWriteStep ==
    ASSUME TypeOK, NEW p \in Procs, UnlockWrite(p) \/ ForceUnlockWrite(p)
    PROVE  StepOK
<1>1. op[p].kind \in RowKinds
  BY DEF UnlockWrite, ForceUnlockWrite, Writing, RowKinds
<1>2. PICK ts \in Times(p) :
          tasks' = [tasks EXCEPT ![op[p].task] = Bump(Unlocked(Current(p)), ts)]
  BY DEF UnlockWrite, ForceUnlockWrite, Put
<1> DEFINE n == Bump(Unlocked(Current(p)), ts)
<1>3. Current(p) \in Row /\ ts \in Nat
  BY <1>1, RowOp
<1>4. /\ n \in Row /\ n.version = Current(p).version + 1
      /\ n.status = Current(p).status /\ n.stamped = Current(p).stamped
      /\ n.locked_by = None
  <2> DEFINE u == Unlocked(Current(p))
  <2>1. /\ u \in Row /\ u.version = Current(p).version
        /\ u.status = Current(p).status /\ u.stamped = Current(p).stamped
        /\ u.locked_by = None
    BY <1>3, UnlockedRow
  <2>2. n = Bump(u, ts)
    OBVIOUS
  <2> HIDE DEF u, n
  <2>3. QED
    BY <1>3, <2>1, <2>2, BumpRow
<1>5. tasks' = [tasks EXCEPT ![op[p].task] = n]
  BY <1>2
<1> HIDE DEF n
<1>6. /\ n.version > Current(p).version
      /\ FinishedRow(Current(p)) => FinishedRow(n)
  BY <1>3, <1>4 DEF Row, FinishedRow
<1>7. (Revoke(op[p].task) \/ GiveUp(p, op[p].task)) /\ Done(p) /\ UNCHANGED clock
  BY DEF UnlockWrite, ForceUnlockWrite
<1>8. QED
  BY <1>1, <1>4, <1>5, <1>6, <1>7, WriteStep

LEMMA UpdateWriteStep ==
    ASSUME TypeOK, NEW p \in Procs, UpdateWrite(p)
    PROVE  StepOK
<1>1. op[p].kind \in RowKinds
  BY DEF UpdateWrite, Writing, RowKinds
<1>2. PICK ts \in Times(p) :
          tasks' = [tasks EXCEPT ![op[p].task] = Updated(Current(p), op[p].to, ts)]
  BY DEF UpdateWrite, Put
<1> DEFINE n == Updated(Current(p), op[p].to, ts)
<1>3. Current(p) \in Row /\ ts \in Nat /\ op[p].to \in Statuses
  BY <1>1, RowOp
<1>4. /\ n \in Row /\ n.version = Current(p).version + 1 /\ n.status = op[p].to
      /\ op[p].to = "completed" => n.stamped
      /\ op[p].to \in Terminal => n.locked_by = None
  BY <1>3, UpdatedRow
<1>5. tasks' = [tasks EXCEPT ![op[p].task] = n]
  BY <1>2
<1> HIDE DEF n
<1>6. n.version > Current(p).version /\ FinishedRow(n)
  BY <1>3, <1>4 DEF Row, FinishedRow, Terminal
<1>7. (Revoke(op[p].task) \/ UNCHANGED lease) /\ Done(p) /\ UNCHANGED clock
  BY DEF UpdateWrite
<1>8. QED
  BY <1>1, <1>4, <1>5, <1>6, <1>7, WriteStep

LEMMA StealWriteStep ==
    ASSUME TypeOK, NEW p \in Procs, StealWrite(p)
    PROVE  StepOK
<1>1. op[p].kind \in RowKinds
  BY DEF StealWrite, Writing, RowKinds
<1>2. PICK ts \in Times(p) :
          /\ Stale(Current(p), StealAge, ts)
          /\ tasks' = [tasks EXCEPT ![op[p].task] = Stolen(Current(p), p, ts)]
          /\ Grant(p, op[p].task, ts)
  BY DEF StealWrite, Put
<1> DEFINE n == Stolen(Current(p), p, ts)
<1>3. Current(p) \in Row /\ ts \in Nat /\ Current(p).status = "in_progress"
  BY <1>1, <1>2, RowOp DEF Stale
<1>4. n \in Row /\ n.version = Current(p).version + 1 /\ n.status = "in_progress"
  BY <1>3, StolenRow
<1>5. tasks' = [tasks EXCEPT ![op[p].task] = n] /\ Done(p) /\ UNCHANGED clock
  BY <1>2 DEF StealWrite
<1> HIDE DEF n
<1>6. n.version > Current(p).version /\ FinishedRow(n)
  BY <1>3, <1>4 DEF Row, FinishedRow
<1>7. QED
  BY <1>1, <1>2, <1>4, <1>5, <1>6, WriteStep

LEMMA RedistributeWriteStep ==
    ASSUME TypeOK, NEW p \in Procs, RedistributeWrite(p)
    PROVE  StepOK
<1>1. op[p] \in ListOps
  BY OpOfKind DEF RedistributeWrite, Writing
<1>2. op[p].left \in SUBSET Tasks /\ op[p].at \in Nat /\ op[p].kind = "redistribute"
  BY <1>1 DEF ListOps
<1>3. PICK t \in op[p].left, ts \in Times(p) :
          /\ tasks' = [tasks EXCEPT ![t] = Released(tasks[t], ts)]
          /\ op' = [op EXCEPT ![p].left = @ \ {t}]
  BY DEF RedistributeWrite, Put
<1>4. t \in Tasks /\ tasks[t] \in Row /\ ts \in Nat
  BY <1>2 DEF TypeOK, Times
<1> DEFINE n == Released(tasks[t], ts)
           o == [op[p] EXCEPT !.left = op[p].left \ {t}]
<1>5. n \in Row /\ n.version = tasks[t].version + 1 /\ n.status = "pending"
  BY <1>4, ReleasedRow
<1>6. tasks' = [tasks EXCEPT ![t] = n] /\ op' = [op EXCEPT ![p] = o]
  BY <1>3, Zenon DEF TypeOK
<1>7. o \in ListOps
  BY <1>1, <1>2 DEF ListOps
<1> HIDE DEF n, o
<1>8. n.version > tasks[t].version /\ FinishedRow(n)
  BY <1>4, <1>5 DEF Row, FinishedRow
<1>9. tasks' \in [Tasks -> Row] /\ \A u \in Tasks : RowMove(u)
  BY <1>4, <1>5, <1>6, <1>8, PutRow
<1>10. op' \in [Procs -> Op] /\ \A q \in Procs : OpMove(q)
  BY <1>6, <1>7 DEF TypeOK, Op, OpMove, ListOps
<1>11. clock' = clock /\ lease' = lease
  BY DEF RedistributeWrite
<1>12. QED
  BY <1>9, <1>10, <1>11 DEF StepOK, TypeOK

LEMMA TransactionsStep ==
    ASSUME TypeOK, NEW p \in Procs, Transactions(p)
    PROVE  StepOK
<1>1. CASE ClaimNextTask(p)
  <2>1. op' = op /\ clock' = clock
    BY <1>1 DEF ClaimNextTask
  <2>2. QED
    BY <1>1, <2>1, TakeNextMoves, SameOps DEF ClaimNextTask, StepOK, TypeOK
<1>2. CASE RedistributeClaim(p)
  <2>1. Done(p) /\ clock' = clock
    BY <1>2 DEF RedistributeClaim
  <2>2. QED
    BY <1>2, <2>1, TakeNextMoves, DoneOps DEF RedistributeClaim, StepOK, TypeOK
<1>3. CASE ClaimOrSteal(p)
  <2>1. op' = op /\ clock' = clock /\ clock \in Nat
    BY <1>3 DEF ClaimOrSteal, TypeOK
  <2>2. CASE TakeNext(p) \/ NothingNext(p)
    BY <2>1, <2>2, TakeNextMoves, SameOps DEF StepOK, TypeOK
  <2>3. CASE \E t \in Tasks :
                /\ Stale(Swept(tasks, clock)[t], StealAge, clock)
                /\ tasks' = [Swept(tasks, clock) EXCEPT
                                ![t] = Stolen(Swept(tasks, clock)[t], p, clock)]
                /\ Grant(p, t, clock)
    <3>1. PICK t \in Tasks :
                /\ Stale(Swept(tasks, clock)[t], StealAge, clock)
                /\ tasks' = [Swept(tasks, clock) EXCEPT
                                ![t] = Stolen(Swept(tasks, clock)[t], p, clock)]
                /\ Grant(p, t, clock)
      BY <2>3
    <3> DEFINE r == Swept(tasks, clock)[t]
               n == Stolen(r, p, clock)
    <3>2. r \in Row /\ r.status = "in_progress"
      BY <2>1, <3>1, SweptRows DEF TypeOK, Stale
    <3>3. n \in Row /\ n.version = r.version + 1 /\ n.status = r.status
      BY <2>1, <3>2, StolenRow
    <3>4. n.version > r.version /\ FinishedRow(n)
      <4> HIDE DEF n, r
      <4> QED BY <3>2, <3>3 DEF Row, FinishedRow
    <3>5. tasks' = [Swept(tasks, clock) EXCEPT ![t] = n]
      BY <3>1
    <3>6. tasks' \in [Tasks -> Row] /\ \A u \in Tasks : RowMove(u)
      <4> HIDE DEF n
      <4> QED BY <3>3, <3>4, <3>5, SweptPutMoves
    <3>7. lease' \in [Procs -> [Tasks -> Nat]]
      BY <2>1, <3>1, LeaseTypes
    <3>8. QED
      BY <2>1, <3>6, <3>7, SameOps DEF StepOK, TypeOK
  <2>4. QED
    BY <1>3, <2>2, <2>3 DEF ClaimOrSteal
<1>4. CASE Sweep(p)
  <2>1. tasks' = Swept(tasks, clock) /\ op' = op /\ clock' = clock /\ lease' = lease
    BY <1>4 DEF Sweep
  <2>2. QED
    BY <2>1, SweptMoves, SameOps DEF StepOK, TypeOK
<1>5. QED
  BY <1>1, <1>2, <1>3, <1>4 DEF Transactions

LEMMA RefuseOrCrashStep ==
    ASSUME TypeOK, NEW p \in Procs, Refuse(p) \/ Crash(p)
    PROVE  StepOK
<1>1. tasks' = tasks /\ clock' = clock /\ Done(p)
  BY DEF Refuse, Crash
<1>2. lease' \in [Procs -> [Tasks -> Nat]]
  BY DEF Refuse, Crash, TypeOK
<1>3. op' \in [Procs -> Op] /\ \A q \in Procs : OpMove(q)
  BY <1>1, DoneOps
<1>4. QED
  BY <1>1, <1>2, <1>3, QuietStep DEF TypeOK

\* Every step of the system moves rows, operations and the clock as described.
LEMMA Step ==
    ASSUME TypeOK, [Next]_vars
    PROVE  StepOK
<1>1. CASE Tick
  <2>1. tasks' = tasks /\ op' = op /\ lease' = lease /\ clock' = clock + 1
    BY <1>1 DEF Tick
  <2>2. clock' \in Nat /\ clock =< clock'
    BY <2>1 DEF TypeOK
  <2>3. QED
    BY <2>1, <2>2, SameOps, QuietStep DEF TypeOK
<1>2. CASE UNCHANGED vars
  <2>1. tasks' = tasks /\ op' = op /\ lease' = lease /\ clock' = clock
    BY <1>2 DEF vars
  <2>2. QED
    BY <2>1, SameOps, QuietStep DEF TypeOK
<1>3. ASSUME NEW p \in Procs, NEW t \in Tasks, Reads(p, t)
      PROVE  StepOK
  BY <1>3, ReadsStep
<1>4. ASSUME NEW p \in Procs, RedistributeRead(p) \/ Writes(p) \/ Transactions(p) \/ Crash(p)
      PROVE  StepOK
  BY <1>4, RedistributeReadStep, TransactionsStep, RefuseOrCrashStep,
     StartWriteStep, CompleteWriteStep, FailWriteStep, LockWriteStep,
     RenewWriteStep, UnlockWriteStep, UpdateWriteStep, StealWriteStep,
     RedistributeWriteStep DEF Writes
<1>5. QED
  BY <1>1, <1>2, <1>3, <1>4 DEF Next

(***************************************************************************)
(* The theorems.                                                           *)
(***************************************************************************)

LEMMA InitTypeOK == Init => TypeOK
<1> SUFFICES ASSUME Init PROVE TypeOK
  OBVIOUS
<1>1. tasks \in [Tasks -> Row]
  BY DEF Init, Row, Statuses
<1>2. Idle \in Op
  BY DEF Op
<1>3. op \in [Procs -> Op]
  BY <1>2 DEF Init
<1>4. clock \in Nat \ {0}
  BY DEF Init
<1>5. lease \in [Procs -> [Tasks -> Nat]]
  BY DEF Init
<1>6. QED
  BY <1>1, <1>3, <1>4, <1>5 DEF TypeOK

\* Rows, snapshots and leases are always well formed.
THEOREM TypeCorrect == Spec => []TypeOK
<1>1. TypeOK /\ [Next]_vars => TypeOK'
  BY Step DEF StepOK
<1>2. QED
  BY <1>1, InitTypeOK, PTL DEF Spec

\* No order of finishing, locking, stealing and reopening leaves a lock on a
\* completed or cancelled task, or a completed task without its time.
THEOREM FinishedUnlockedAlways == Spec => []FinishedUnlocked
<1>1. Init => FinishedUnlocked
  BY DEF Init, FinishedUnlocked
<1>2. TypeOK /\ FinishedUnlocked /\ [Next]_vars => FinishedUnlocked'
  <2> SUFFICES ASSUME TypeOK, FinishedUnlocked, [Next]_vars, NEW t \in Tasks
               PROVE  FinishedRow(tasks'[t])
    BY DEF FinishedUnlocked, FinishedRow
  <2>1. RowMove(t) /\ tasks[t] \in Row
    BY Step DEF StepOK, TypeOK
  <2>2. FinishedRow(tasks[t])
    BY DEF FinishedUnlocked, FinishedRow
  <2>3. CASE tasks'[t] = Unlocked(tasks[t])
    BY <2>1, <2>2, <2>3, UnlockedRow DEF FinishedRow
  <2>4. QED
    BY <2>1, <2>2, <2>3 DEF RowMove
<1>3. QED
  BY <1>1, <1>2, TypeCorrect, PTL DEF Spec

(***************************************************************************)
(* The inductive strengthening of VersionIdentifiesRow: a snapshot is never *)
(* ahead of its row, and was taken in the past.                            *)
(***************************************************************************)
SnapshotOK(p) ==
    op[p].kind \in RowKinds =>
        /\ op[p].at =< clock
        /\ op[p].row.version =< Current(p).version
        /\ Unmoved(p) => \/ Current(p) = op[p].row
                         \/ /\ Current(p) = Unlocked(op[p].row)
                            /\ Expired(op[p].row.locked_at, clock)

SnapshotInv == \A p \in Procs : SnapshotOK(p)

LEMMA ExpiredStays ==
    ASSUME NEW a \in Nat, NEW m \in Nat, NEW n \in Nat, m =< n, Expired(a, m)
    PROVE  Expired(a, n)
  BY ConstantsAssumption DEF Expired

LEMMA UnlockedTwice ==
    ASSUME NEW r \in Row
    PROVE  Unlocked(Unlocked(r)) = Unlocked(r)
  BY DEF Unlocked, Row

LEMMA SnapshotStep ==
    ASSUME TypeOK, SnapshotInv, [Next]_vars, NEW p \in Procs
    PROVE  SnapshotOK(p)'
<1>1. StepOK
  BY Step
<1>2. OpMove(p) /\ clock \in Nat /\ clock' \in Nat /\ clock =< clock'
  BY <1>1 DEF StepOK, TypeOK
<1>3. CASE op'[p] = op[p] /\ op[p].kind \in RowKinds
  <2> DEFINE t == op[p].task
             r == op[p].row
  <2>1. /\ t \in Tasks /\ r \in Row /\ op[p].at \in Nat
        /\ tasks[t] \in Row /\ tasks'[t] \in Row /\ RowMove(t)
    BY <1>1, <1>3, RowOp DEF StepOK, TypeOK
  <2>2. /\ op[p].at =< clock
        /\ r.version =< tasks[t].version
        /\ tasks[t].version = r.version =>
              \/ tasks[t] = r
              \/ tasks[t] = Unlocked(r) /\ Expired(r.locked_at, clock)
    BY <1>3 DEF SnapshotInv, SnapshotOK, Current, Unmoved
  <2>3. Expired(r.locked_at, clock) => Expired(r.locked_at, clock')
    BY <1>2, <2>1, ExpiredStays DEF Row
  <2>4. /\ r.version =< tasks'[t].version
        /\ tasks'[t].version = r.version =>
              \/ tasks'[t] = r
              \/ tasks'[t] = Unlocked(r) /\ Expired(r.locked_at, clock')
    <3>1. CASE tasks'[t] = tasks[t]
      BY <2>2, <2>3, <3>1
    <3>2. CASE tasks'[t].version > tasks[t].version
      BY <2>1, <2>2, <3>2 DEF Row
    <3>3. CASE tasks'[t] = Unlocked(tasks[t]) /\ Expired(tasks[t].locked_at, clock)
      <4>1. tasks'[t].version = tasks[t].version
        BY <2>1, <3>3, UnlockedRow
      <4>2. CASE tasks[t] = r
        BY <1>2, <2>1, <2>2, <2>3, <3>3, <4>1, <4>2
      <4>3. CASE tasks[t] = Unlocked(r) /\ Expired(r.locked_at, clock)
        BY <2>1, <2>2, <2>3, <3>3, <4>1, <4>3, UnlockedTwice
      <4>4. CASE tasks[t].version # r.version
        BY <2>2, <4>1, <4>4
      <4>5. QED
        BY <2>2, <4>2, <4>3, <4>4
    <3>4. QED
      BY <2>1, <3>1, <3>2, <3>3 DEF RowMove
  <2>5. op[p].at =< clock'
    BY <1>2, <2>1, <2>2
  <2>6. QED
    BY <1>3, <2>4, <2>5 DEF SnapshotOK, Current, Unmoved
<1>4. CASE op'[p].kind \notin RowKinds
  BY <1>4 DEF SnapshotOK
<1>5. CASE /\ op'[p] \in RowOps
           /\ op'[p].row = tasks[op'[p].task]
           /\ op'[p].at = clock
           /\ tasks' = tasks
  <2>1. op'[p].task \in Tasks
    BY <1>5 DEF RowOps
  <2>2. op'[p].row.version =< tasks'[op'[p].task].version
    BY <1>5, <2>1 DEF TypeOK, Row
  <2>3. QED
    BY <1>2, <1>5, <2>2 DEF SnapshotOK, Current, Unmoved
<1>6. op'[p] = Idle \/ op'[p] \in ListOps => op'[p].kind \notin RowKinds
  BY DEF ListOps, Idle, RowKinds
<1>7. QED
  BY <1>2, <1>3, <1>4, <1>5, <1>6 DEF OpMove

LEMMA SnapshotAlways == Spec => []SnapshotInv
<1>1. Init => SnapshotInv
  BY DEF Init, SnapshotInv, SnapshotOK, Idle, RowKinds
<1>2. TypeOK /\ SnapshotInv /\ [Next]_vars => SnapshotInv'
  BY SnapshotStep DEF SnapshotInv
<1>3. QED
  BY <1>1, <1>2, TypeCorrect, PTL DEF Spec

\* The version is a sound optimistic lock over all writers of this module.
THEOREM VersionIdentifiesRowAlways == Spec => []VersionIdentifiesRow
<1>1. SnapshotInv => VersionIdentifiesRow
  BY DEF SnapshotInv, SnapshotOK, VersionIdentifiesRow
<1>2. QED
  BY <1>1, SnapshotAlways, PTL

(***************************************************************************)
(* Completion over a live lock.                                            *)
(***************************************************************************)
CheckedInv == \A p \in Procs : op[p].kind \in RowKinds => Checked(op[p], p)

LEMMA CheckedAlways == Spec => []CheckedInv
<1>1. Init => CheckedInv
  BY DEF Init, CheckedInv, Idle, RowKinds
<1>2. TypeOK /\ CheckedInv /\ [Next]_vars => CheckedInv'
  <2> SUFFICES ASSUME TypeOK, CheckedInv, [Next]_vars, NEW p \in Procs,
                      op'[p].kind \in RowKinds
               PROVE  Checked(op'[p], p)
    BY DEF CheckedInv
  <2>1. OpMove(p)
    BY Step DEF StepOK
  <2>2. op'[p] # Idle /\ op'[p] \notin ListOps
    BY DEF Idle, ListOps, RowKinds
  <2>3. QED
    BY <2>1, <2>2 DEF OpMove, CheckedInv
<1>3. QED
  BY <1>1, <1>2, TypeCorrect, PTL DEF Spec

\* An operation that completes a task ends by its own write, or without one.
LEMMA CompletionEnds ==
    ASSUME TypeOK, Next, NEW p \in Procs,
           op[p].kind \in {"complete", "complete_anonymous"}, op'[p] = Idle
    PROVE  CompleteWrite(p) \/ tasks' = tasks
<1>1. op[p] # Idle /\ op \in [Procs -> Op]
  BY DEF Idle, TypeOK
<1>2. CASE Tick
  BY <1>2 DEF Tick
<1>3. ASSUME NEW q \in Procs, Crash(q) \/ Refuse(q) \/ RedistributeRead(q)
      PROVE  tasks' = tasks
  BY <1>3 DEF Crash, Refuse, RedistributeRead
<1>4. ASSUME NEW q \in Procs, NEW t \in Tasks, Reads(q, t)
      PROVE  tasks' = tasks
  BY <1>4 DEF Reads, StartRead, CompleteRead, AnonymousCompleteRead, FailRead,
     LockRead, UnlockRead, ForceUnlockRead, UpdateRead, StealRead, Begin
<1>5. ASSUME NEW q \in Procs, Transactions(q)
      PROVE  tasks' = tasks
  <2>1. CASE RedistributeClaim(q)
    BY <1>1, <2>1 DEF RedistributeClaim, Done, Writing, TypeOK
  <2>2. CASE ~RedistributeClaim(q)
    BY <1>1, <1>5, <2>2 DEF Transactions, ClaimNextTask, ClaimOrSteal, Sweep
  <2>3. QED
    BY <2>1, <2>2
<1>6. ASSUME NEW q \in Procs, Writes(q)
      PROVE  CompleteWrite(p) \/ tasks' = tasks
  <2>1. CASE Refuse(q)
    BY <2>1, <1>3
  <2>2. CASE RedistributeWrite(q)
    <3>1. q # p
      BY <2>2 DEF RedistributeWrite, Writing
    <3>2. op'[p] = op[p]
      BY <1>1, <2>2, <3>1 DEF RedistributeWrite
    <3>3. QED
      BY <1>1, <3>2
  <2>3. CASE CompleteWrite(q)
    BY <1>1, <2>3 DEF CompleteWrite, Done
  <2>4. CASE \/ StartWrite(q) \/ FailWrite(q) \/ LockWrite(q) \/ RenewWrite(q)
             \/ UnlockWrite(q) \/ ForceUnlockWrite(q) \/ UpdateWrite(q) \/ StealWrite(q)
    <3>1. Done(q) /\ op[q].kind \notin {"complete", "complete_anonymous"}
      BY <2>4 DEF StartWrite, FailWrite, LockWrite, RenewWrite, UnlockWrite,
         ForceUnlockWrite, UpdateWrite, StealWrite, Writing
    <3>2. QED
      BY <1>1, <3>1 DEF Done
  <2>5. QED
    BY <1>6, <2>1, <2>2, <2>3, <2>4 DEF Writes
<1>7. QED
  BY <1>2, <1>3, <1>4, <1>5, <1>6 DEF Next

\* completeTask never finishes a task over the live lock of somebody else: the
\* lock it checked is the lock it commits over, because the version is the same,
\* and a lock that had expired stays expired.
THEOREM CompletionByHolderAlways == Spec => CompletionByHolder
<1>1. ASSUME TypeOK, SnapshotInv, CheckedInv, [Next]_vars, NEW p \in Procs, NEW t \in Tasks,
             op[p].kind \in {"complete", "complete_anonymous"},
             op'[p] = Idle,
             tasks'[t].status # tasks[t].status
      PROVE  \/ tasks[t].locked_by = None
             \/ Expired(tasks[t].locked_at, clock)
             \/ op[p].kind = "complete" /\ HeldBy(tasks[t], p)
  <2>1. op[p].kind \in RowKinds
    BY <1>1 DEF RowKinds
  <2>2. CompleteWrite(p)
    BY <1>1, CompletionEnds DEF vars
  <2>3. op[p].task = t
    BY <1>1, <2>2 DEF CompleteWrite, Put, TypeOK
  <2> DEFINE r == op[p].row
  <2>4. /\ r \in Row /\ op[p].at \in Nat /\ op[p].at =< clock /\ clock \in Nat
        /\ tasks[t] = r \/ tasks[t] = Unlocked(r)
    BY <1>1, <2>1, <2>2, <2>3, RowOp DEF CompleteWrite, SnapshotInv, SnapshotOK, Current, TypeOK
  <2>5. CASE tasks[t] = Unlocked(r)
    BY <2>4, <2>5, UnlockedRow
  <2>6. CASE tasks[t] = r
    <3>1. Expired(r.locked_at, op[p].at) => Expired(r.locked_at, clock)
      BY <2>4, ExpiredStays DEF Row
    <3>2. Checked(op[p], p)
      BY <1>1, <2>1 DEF CheckedInv
    <3>3. QED
      BY <1>1, <2>6, <3>1, <3>2 DEF Checked, LockedByOther
  <2>7. QED
    BY <2>4, <2>5, <2>6
<1>2. TypeOK /\ SnapshotInv /\ CheckedInv /\ [Next]_vars =>
        [\A p \in Procs, t \in Tasks :
           /\ op[p].kind \in {"complete", "complete_anonymous"}
           /\ op'[p] = Idle
           /\ tasks'[t].status # tasks[t].status
           => \/ tasks[t].locked_by = None
              \/ Expired(tasks[t].locked_at, clock)
              \/ op[p].kind = "complete" /\ HeldBy(tasks[t], p)]_vars
  BY <1>1
<1>3. QED
  BY <1>2, TypeCorrect, SnapshotAlways, CheckedAlways, PTL DEF Spec, CompletionByHolder

(***************************************************************************)
(* Leases.  They are honoured when every process has a name of its own, a  *)
(* steal waits at least as long as a lease lasts, and nobody uses the three *)
(* operations whose last UPDATE does not check what the first SELECT saw:  *)
(* renewal by re-locking, unlock, and redistribution.                      *)
(***************************************************************************)
LeaseDiscipline ==
    /\ \A p, q \in Procs : AgentOf[p] = AgentOf[q] => p = q
    /\ StealAge >= Expiry
    /\ Kinds \cap {"renew", "unlock", "redistribute"} = {}

Past(r, now) ==
    /\ r.locked_at =< r.updated_at
    /\ r.updated_at =< now
    /\ r.locked_at = 0 => r.locked_by = None

UsedKinds == \A p \in Procs : op[p].kind \in Kinds \cup {"idle"}

PastInv ==
    /\ \A t \in Tasks : Past(tasks[t], clock)
    /\ \A p \in Procs : op[p].kind \in RowKinds =>
            op[p].row.locked_at =< op[p].at /\ op[p].at > 0

LeaseInv ==
    \A p \in Procs, t \in Tasks :
        lease[p][t] >= clock =>
            HeldBy(tasks[t], p) /\ tasks[t].locked_at + Expiry >= lease[p][t]

\* How a step moves a row together with the leases on it.
KeptOrLost(t) == \A q \in Procs : lease'[q][t] = lease[q][t] \/ lease'[q][t] = 0

Granted(t, p) ==
    /\ Takeable(tasks[t], p, clock)
    /\ tasks'[t].locked_by = AgentOf[p]
    /\ tasks'[t].locked_at = tasks'[t].updated_at
    /\ tasks'[t].updated_at \in 1 .. clock
    /\ lease'[p][t] = tasks'[t].locked_at + Expiry
    /\ \A q \in Procs : q # p => lease'[q][t] = lease[q][t]

LeaseMove(t) ==
    \/ tasks'[t] = tasks[t] /\ KeptOrLost(t)
    \/ /\ tasks'[t] = Unlocked(tasks[t])
       /\ Expired(tasks[t].locked_at, clock)
       /\ KeptOrLost(t)
    \/ Past(tasks'[t], clock) /\ \A q \in Procs : lease'[q][t] = 0
    \/ \E p \in Procs : Granted(t, p)
    \/ /\ Past(tasks'[t], clock)
       /\ tasks'[t].locked_by = tasks[t].locked_by
       /\ tasks'[t].locked_at = tasks[t].locked_at
       /\ KeptOrLost(t)

\* What a move of the row does to the invariant.
LEMMA LeaseMoveKeeps ==
    ASSUME TypeOK, TypeOK', PastInv, LeaseInv, LeaseDiscipline, clock =< clock',
           NEW t \in Tasks, LeaseMove(t)
    PROVE  /\ Past(tasks'[t], clock')
           /\ \A p \in Procs : lease'[p][t] >= clock' =>
                /\ HeldBy(tasks'[t], p)
                /\ tasks'[t].locked_at + Expiry >= lease'[p][t]
<1>1. /\ tasks[t] \in Row /\ tasks'[t] \in Row
      /\ clock \in Nat /\ clock' \in Nat /\ clock > 0
      /\ \A q \in Procs : lease[q][t] \in Nat /\ lease'[q][t] \in Nat
      /\ Expiry \in Nat
  BY ConstantsAssumption DEF TypeOK
<1>2. /\ tasks[t].locked_at \in Nat /\ tasks[t].updated_at \in Nat
      /\ tasks'[t].locked_at \in Nat /\ tasks'[t].updated_at \in Nat
  BY <1>1 DEF Row
<1>3. Past(tasks[t], clock)
  BY DEF PastInv
<1>4. \A p \in Procs : lease[p][t] >= clock =>
            HeldBy(tasks[t], p) /\ tasks[t].locked_at + Expiry >= lease[p][t]
  BY DEF LeaseInv
<1>5. CASE tasks'[t] = tasks[t] /\ KeptOrLost(t)
  <2>1. Past(tasks'[t], clock')
    BY <1>1, <1>2, <1>3, <1>5 DEF Past
  <2>2. ASSUME NEW p \in Procs, lease'[p][t] >= clock'
        PROVE  HeldBy(tasks'[t], p) /\ tasks'[t].locked_at + Expiry >= lease'[p][t]
    <3>1. lease'[p][t] = lease[p][t] /\ lease[p][t] >= clock
      BY <1>1, <1>5, <2>2 DEF KeptOrLost
    <3>2. QED
      BY <1>4, <1>5, <3>1
  <2>3. QED
    BY <2>1, <2>2
<1>6. CASE /\ tasks'[t] = Unlocked(tasks[t])
           /\ Expired(tasks[t].locked_at, clock)
           /\ KeptOrLost(t)
  <2>1. /\ tasks'[t].locked_at = 0 /\ tasks'[t].locked_by = None
        /\ tasks'[t].updated_at = tasks[t].updated_at
    BY <1>1, <1>6, UnlockedRow
  <2>2. Past(tasks'[t], clock')
    BY <1>1, <1>2, <1>3, <2>1 DEF Past
  <2>3. ASSUME NEW p \in Procs, lease'[p][t] >= clock'
        PROVE  FALSE
    <3>1. lease[p][t] >= clock
      BY <1>1, <1>6, <2>3 DEF KeptOrLost
    <3>2. HeldBy(tasks[t], p) /\ tasks[t].locked_at + Expiry >= clock
      BY <1>1, <1>2, <1>4, <3>1
    <3>3. tasks[t].locked_at = 0
      BY <1>1, <1>2, <1>6, <3>2 DEF Expired
    <3>4. tasks[t].locked_by = None /\ AgentOf[p] \in Agents
      BY <1>3, <3>3, ConstantsAssumption DEF Past
    <3>5. QED
      BY <3>2, <3>4, ConstantsAssumption DEF HeldBy
  <2>4. QED
    BY <2>2, <2>3
<1>7. CASE Past(tasks'[t], clock) /\ \A q \in Procs : lease'[q][t] = 0
  BY <1>1, <1>2, <1>7 DEF Past
<1>8. CASE \E p \in Procs : Granted(t, p)
  <2>1. PICK p \in Procs : Granted(t, p)
    BY <1>8
  <2>2. Past(tasks'[t], clock')
    BY <1>1, <1>2, <2>1 DEF Past, Granted
  <2>3. HeldBy(tasks'[t], p) /\ tasks'[t].locked_at + Expiry >= lease'[p][t]
    BY <1>1, <1>2, <2>1 DEF Granted, HeldBy
  <2>4. ASSUME NEW q \in Procs, q # p, lease'[q][t] >= clock'
        PROVE  FALSE
    <3>1. lease[q][t] >= clock
      BY <1>1, <2>1, <2>4 DEF Granted
    <3>2. HeldBy(tasks[t], q) /\ tasks[t].locked_at + Expiry >= clock
      BY <1>1, <1>2, <1>4, <3>1
    <3>3. tasks[t].locked_by # None /\ ~HeldBy(tasks[t], p)
      BY <2>4, <3>2, ConstantsAssumption DEF HeldBy, LeaseDiscipline
    <3>4. Expired(tasks[t].locked_at, clock)
      BY <2>1, <3>3 DEF Granted, Takeable
    <3>5. tasks[t].locked_at # 0
      BY <1>3, <3>3 DEF Past
    <3>6. QED
      BY <1>1, <1>2, <3>2, <3>4, <3>5 DEF Expired
  <2>5. QED
    BY <2>2, <2>3, <2>4
<1>9. CASE /\ Past(tasks'[t], clock)
           /\ tasks'[t].locked_by = tasks[t].locked_by
           /\ tasks'[t].locked_at = tasks[t].locked_at
           /\ KeptOrLost(t)
  <2>1. Past(tasks'[t], clock')
    BY <1>1, <1>2, <1>9 DEF Past
  <2>2. ASSUME NEW p \in Procs, lease'[p][t] >= clock'
        PROVE  HeldBy(tasks'[t], p) /\ tasks'[t].locked_at + Expiry >= lease'[p][t]
    <3>1. lease'[p][t] = lease[p][t] /\ lease[p][t] >= clock
      BY <1>1, <1>9, <2>2 DEF KeptOrLost
    <3>2. QED
      BY <1>4, <1>9, <3>1 DEF HeldBy
  <2>3. QED
    BY <2>1, <2>2
<1>10. QED
  BY <1>5, <1>6, <1>7, <1>8, <1>9 DEF LeaseMove

\* A row write whose rows elsewhere stay, and whose leases elsewhere stay.
LEMMA ElsewhereKept ==
    ASSUME TypeOK, NEW p \in Procs, NEW t \in Tasks, NEW ts \in Nat,
           NEW u \in Tasks, u # t,
           Grant(p, t, ts) \/ Revoke(t) \/ UNCHANGED lease
    PROVE  KeptOrLost(u)
  BY DEF TypeOK, KeptOrLost, Grant, Revoke

LEMMA WriteLeaseMove ==
    ASSUME TypeOK, NEW p \in Procs, NEW t \in Tasks, NEW ts \in Nat, NEW n,
           tasks' = [tasks EXCEPT ![t] = n],
           Grant(p, t, ts) \/ Revoke(t) \/ UNCHANGED lease,
           LeaseMove(t)
    PROVE  \A u \in Tasks : LeaseMove(u)
<1>1. ASSUME NEW u \in Tasks, u # t
      PROVE  LeaseMove(u)
  <2>1. tasks'[u] = tasks[u]
    BY <1>1 DEF TypeOK
  <2>2. QED
    BY <1>1, <2>1, ElsewhereKept DEF LeaseMove
<1>2. QED
  BY <1>1

\* Granting the row to p at a time when it could be taken.
LEMMA GrantMove ==
    ASSUME TypeOK, NEW p \in Procs, NEW t \in Tasks, NEW ts \in 1 .. clock, NEW n \in Row,
           tasks'[t] = n, n.locked_by = AgentOf[p], n.locked_at = ts, n.updated_at = ts,
           Takeable(tasks[t], p, clock), Grant(p, t, ts)
    PROVE  LeaseMove(t)
<1>1. lease'[p][t] = ts + Expiry /\ \A q \in Procs : q # p => lease'[q][t] = lease[q][t]
  BY DEF Grant, TypeOK
<1>2. QED
  BY <1>1 DEF Granted, LeaseMove

LEMMA RevokeMove ==
    ASSUME TypeOK, NEW t \in Tasks, NEW ts \in Nat, ts =< clock, NEW n \in Row,
           tasks'[t] = n, n.locked_by = None, n.locked_at = 0, n.updated_at = ts,
           Revoke(t)
    PROVE  LeaseMove(t)
<1>1. \A q \in Procs : lease'[q][t] = 0
  BY DEF Revoke, TypeOK
<1>2. Past(tasks'[t], clock)
  BY DEF Past
<1>3. QED
  BY <1>1, <1>2 DEF LeaseMove

LEMMA TakeableStays ==
    ASSUME NEW r \in Row, NEW p \in Procs, NEW m \in Nat, NEW n \in Nat, m =< n,
           Takeable(r, p, m)
    PROVE  Takeable(r, p, n)
  BY ExpiredStays DEF Takeable, Row

\* Under the discipline a stale row has no live lock.
LEMMA StaleTakeable ==
    ASSUME LeaseDiscipline, NEW r \in Row, NEW p \in Procs, NEW m \in Nat, NEW n \in Nat,
           m =< n, Past(r, n), Stale(r, StealAge, m)
    PROVE  Takeable(r, p, n)
<1>1. /\ r.locked_at \in Nat /\ r.updated_at \in Nat
      /\ StealAge \in Nat /\ Expiry \in Nat
  BY ConstantsAssumption DEF Row
<1>2. n - r.locked_at > Expiry
  BY <1>1 DEF Past, Stale, LeaseDiscipline
<1>3. QED
  BY <1>2 DEF Takeable, Expired

\* A process in the middle of a row writes at a time after its read.
LEMMA WriteTimes ==
    ASSUME TypeOK, PastInv, NEW p \in Procs, op[p].kind \in RowKinds, NEW ts \in Times(p)
    PROVE  /\ ts \in 1 .. clock /\ ts \in Nat /\ ts =< clock
           /\ op[p].task \in Tasks
           /\ Current(p) \in Row
           /\ Current(p) = tasks[op[p].task]
           /\ Past(Current(p), clock)
           /\ op[p].row.locked_at =< ts
<1>1. /\ op[p].task \in Tasks /\ op[p].row \in Row /\ op[p].at \in Nat
      /\ Current(p) \in Row /\ Current(p) = tasks[op[p].task]
      /\ ts \in Nat /\ op[p].at =< ts /\ ts =< clock
  BY RowOp
<1>2. op[p].row.locked_at =< op[p].at /\ op[p].at > 0
  BY DEF PastInv
<1>3. op[p].row.locked_at \in Nat
  BY <1>1 DEF Row
<1>4. QED
  BY <1>1, <1>2, <1>3 DEF PastInv, TypeOK

LEMMA GrantingWrite ==
    ASSUME TypeOK, PastInv, NEW p \in Procs, op[p].kind \in RowKinds,
           NEW ts \in Times(p), NEW n \in Row,
           tasks' = [tasks EXCEPT ![op[p].task] = n],
           n.locked_by = AgentOf[p], n.locked_at = ts, n.updated_at = ts,
           Takeable(Current(p), p, clock),
           Grant(p, op[p].task, ts)
    PROVE  \A u \in Tasks : LeaseMove(u)
<1> DEFINE t == op[p].task
<1>1. t \in Tasks /\ ts \in 1 .. clock /\ ts \in Nat /\ Current(p) = tasks[t]
  BY WriteTimes
<1>2. tasks'[t] = n
  BY <1>1 DEF TypeOK
<1>3. LeaseMove(t)
  BY <1>1, <1>2, GrantMove
<1>4. QED
  BY <1>1, <1>3, WriteLeaseMove

LEMMA RevokingWrite ==
    ASSUME TypeOK, PastInv, NEW p \in Procs, op[p].kind \in RowKinds,
           NEW ts \in Times(p), NEW n \in Row,
           tasks' = [tasks EXCEPT ![op[p].task] = n],
           n.locked_by = None, n.locked_at = 0, n.updated_at = ts,
           Revoke(op[p].task)
    PROVE  \A u \in Tasks : LeaseMove(u)
<1> DEFINE t == op[p].task
<1>1. t \in Tasks /\ ts \in Nat /\ ts =< clock
  BY WriteTimes
<1>2. tasks'[t] = n
  BY <1>1 DEF TypeOK
<1>3. LeaseMove(t)
  BY <1>1, <1>2, RevokeMove
<1>4. QED
  BY <1>1, <1>3, WriteLeaseMove

LEMMA StartLease ==
    ASSUME TypeOK, PastInv, NEW p \in Procs, StartWrite(p) \/ LockWrite(p)
    PROVE  \A u \in Tasks : LeaseMove(u)
<1>1. op[p].kind \in RowKinds
  BY DEF StartWrite, LockWrite, Writing, RowKinds
<1>0. PICK ts \in Times(p) :
          \E n \in {Taken(Current(p), p, ts), Bump(Locked(Current(p), p, ts), ts)} :
             /\ Takeable(Current(p), p, ts)
             /\ tasks' = [tasks EXCEPT ![op[p].task] = n]
             /\ Grant(p, op[p].task, ts)
  BY DEF StartWrite, LockWrite, Put, CanStart, CanLock
<1>2. PICK n \in {Taken(Current(p), p, ts), Bump(Locked(Current(p), p, ts), ts)} :
          /\ Takeable(Current(p), p, ts)
          /\ tasks' = [tasks EXCEPT ![op[p].task] = n]
          /\ Grant(p, op[p].task, ts)
  BY <1>0
<1>3. ts \in Nat /\ ts =< clock /\ Current(p) \in Row /\ clock \in Nat
  BY <1>1, WriteTimes DEF TypeOK
<1>4. /\ n \in Row /\ n.locked_by = AgentOf[p] /\ n.locked_at = ts /\ n.updated_at = ts
  <2>1. CASE n = Taken(Current(p), p, ts)
    BY <1>3, <2>1, TakenRow
  <2>2. CASE n = Bump(Locked(Current(p), p, ts), ts)
    <3> DEFINE l == Locked(Current(p), p, ts)
    <3>1. l \in Row /\ l.locked_by = AgentOf[p] /\ l.locked_at = ts
      BY <1>3, LockedRow
    <3>2. n = Bump(l, ts)
      BY <2>2
    <3> HIDE DEF l
    <3>3. QED
      BY <1>3, <3>1, <3>2, BumpRow
  <2>3. QED
    BY <1>2, <2>1, <2>2
<1>5. Takeable(Current(p), p, clock)
  BY <1>2, <1>3, TakeableStays
<1>6. QED
  BY <1>1, <1>2, <1>4, <1>5, GrantingWrite

LEMMA StealLease ==
    ASSUME TypeOK, PastInv, LeaseDiscipline, NEW p \in Procs, StealWrite(p)
    PROVE  \A u \in Tasks : LeaseMove(u)
<1>1. op[p].kind \in RowKinds
  BY DEF StealWrite, Writing, RowKinds
<1>2. PICK ts \in Times(p) :
          /\ Stale(Current(p), StealAge, ts)
          /\ tasks' = [tasks EXCEPT ![op[p].task] = Stolen(Current(p), p, ts)]
          /\ Grant(p, op[p].task, ts)
  BY DEF StealWrite, Put
<1>3. ts \in Nat /\ ts =< clock /\ Current(p) \in Row /\ clock \in Nat /\ Past(Current(p), clock)
  BY <1>1, WriteTimes DEF TypeOK
<1> DEFINE n == Stolen(Current(p), p, ts)
<1>4. /\ n \in Row /\ n.locked_by = AgentOf[p] /\ n.locked_at = ts /\ n.updated_at = ts
  BY <1>3, StolenRow
<1>5. Takeable(Current(p), p, clock)
  BY <1>2, <1>3, StaleTakeable
<1>6. tasks' = [tasks EXCEPT ![op[p].task] = n]
  BY <1>2
<1> HIDE DEF n
<1>7. QED
  BY <1>1, <1>2, <1>4, <1>5, <1>6, GrantingWrite

LEMMA FinishLease ==
    ASSUME TypeOK, PastInv, NEW p \in Procs,
           CompleteWrite(p) \/ FailWrite(p) \/ ForceUnlockWrite(p)
    PROVE  \A u \in Tasks : LeaseMove(u)
<1>1. op[p].kind \in RowKinds /\ Revoke(op[p].task)
  BY DEF CompleteWrite, FailWrite, ForceUnlockWrite, Writing, RowKinds
<1>0. PICK ts \in Times(p), e \in {0, 1} :
          \E n \in {[Completed(Current(p), ts) EXCEPT !.version = @ + e],
                    Failed(Current(p), ts), Bump(Unlocked(Current(p)), ts)} :
             tasks' = [tasks EXCEPT ![op[p].task] = n]
  BY DEF CompleteWrite, FailWrite, ForceUnlockWrite, Put
<1>2. PICK n \in {[Completed(Current(p), ts) EXCEPT !.version = @ + e],
                  Failed(Current(p), ts), Bump(Unlocked(Current(p)), ts)} :
          tasks' = [tasks EXCEPT ![op[p].task] = n]
  BY <1>0
<1>3. ts \in Nat /\ Current(p) \in Row
  BY <1>1, WriteTimes
<1>4. n \in Row /\ n.locked_by = None /\ n.locked_at = 0 /\ n.updated_at = ts
  <2>1. CASE n = [Completed(Current(p), ts) EXCEPT !.version = @ + e]
    <3> DEFINE c == Completed(Current(p), ts)
    <3>1. c \in Row /\ c.locked_by = None /\ c.locked_at = 0 /\ c.updated_at = ts
      BY <1>3, CompletedRow
    <3>2. n = [c EXCEPT !.version = c.version + e]
      BY <2>1
    <3> HIDE DEF c
    <3>3. QED
      BY <3>1, <3>2 DEF Row
  <2>2. CASE n = Failed(Current(p), ts)
    BY <1>3, <2>2, FailedRow
  <2>3. CASE n = Bump(Unlocked(Current(p)), ts)
    <3> DEFINE l == Unlocked(Current(p))
    <3>1. l \in Row /\ l.locked_by = None /\ l.locked_at = 0
      BY <1>3, UnlockedRow
    <3>2. n = Bump(l, ts)
      BY <2>3
    <3> HIDE DEF l
    <3>3. QED
      BY <1>3, <3>1, <3>2, BumpRow
  <2>4. QED
    BY <1>2, <2>1, <2>2, <2>3
<1>5. QED
  BY <1>1, <1>2, <1>4, RevokingWrite

\* An update that does not finish the task stamps it later than its lock, because
\* the version says that the lock is the one the caller had read.
LEMMA UpdateLease ==
    ASSUME TypeOK, PastInv, SnapshotInv, NEW p \in Procs, UpdateWrite(p)
    PROVE  \A u \in Tasks : LeaseMove(u)
<1>1. op[p].kind \in RowKinds
  BY DEF UpdateWrite, Writing, RowKinds
<1>2. PICK ts \in Times(p) :
          tasks' = [tasks EXCEPT ![op[p].task] = Updated(Current(p), op[p].to, ts)]
  BY DEF UpdateWrite, Put
<1> DEFINE n == Updated(Current(p), op[p].to, ts)
           t == op[p].task
<1>3. /\ ts \in Nat /\ ts =< clock /\ t \in Tasks
      /\ Current(p) \in Row /\ Current(p) = tasks[t] /\ Past(Current(p), clock)
      /\ op[p].row.locked_at =< ts
  BY <1>1, WriteTimes
<1>4. op[p].to \in Statuses /\ op[p].row \in Row
  BY <1>1, RowOp
<1>5. /\ n \in Row /\ n.updated_at = ts
      /\ op[p].to \in Terminal => n.locked_by = None /\ n.locked_at = 0
      /\ op[p].to \notin Terminal => /\ n.locked_by = Current(p).locked_by
                                     /\ n.locked_at = Current(p).locked_at
  BY <1>3, <1>4, UpdatedRow
<1>6. tasks' = [tasks EXCEPT ![t] = n]
  BY <1>2
<1> HIDE DEF n
<1>7. CASE op[p].to \in Terminal
  <2>1. Revoke(op[p].task)
    BY <1>7 DEF UpdateWrite
  <2>2. QED
    BY <1>1, <1>5, <1>6, <1>7, <2>1, RevokingWrite
<1>8. CASE op[p].to \notin Terminal
  <2>1. UNCHANGED lease
    BY <1>8 DEF UpdateWrite
  <2>2. Current(p) = op[p].row \/ Current(p).locked_at = 0
    BY <1>1, <1>4, UnlockedRow DEF UpdateWrite, SnapshotInv, SnapshotOK
  <2>3. Current(p).locked_at =< ts
    BY <1>3, <2>2
  <2>4. Past(n, clock)
    BY <1>3, <1>5, <1>8, <2>3 DEF Past
  <2>5. KeptOrLost(t)
    BY <2>1 DEF KeptOrLost
  <2>6. tasks'[t] = n
    BY <1>3, <1>6 DEF TypeOK
  <2>7. LeaseMove(t)
    BY <1>3, <1>5, <1>8, <2>4, <2>5, <2>6 DEF LeaseMove
  <2>8. QED
    BY <1>3, <1>6, <2>1, <2>7, WriteLeaseMove
<1>9. QED
  BY <1>7, <1>8

LEMMA QuietLease ==
    ASSUME TypeOK, tasks' = tasks,
           \A q \in Procs, t \in Tasks : lease'[q][t] = lease[q][t] \/ lease'[q][t] = 0
    PROVE  \A u \in Tasks : LeaseMove(u)
  BY DEF LeaseMove, KeptOrLost

LEMMA SweptLeaseMove ==
    ASSUME TypeOK, NEW u \in Tasks, tasks'[u] = Swept(tasks, clock)[u], KeptOrLost(u)
    PROVE  LeaseMove(u)
  BY SweptRows DEF TypeOK, LeaseMove

\* Taking or stealing a row of the swept table, at the current time.
LEMMA GrantingTransaction ==
    ASSUME TypeOK, NEW p \in Procs, NEW t \in Tasks, NEW n \in Row,
           tasks' = [Swept(tasks, clock) EXCEPT ![t] = n],
           n.locked_by = AgentOf[p], n.locked_at = clock, n.updated_at = clock,
           Takeable(tasks[t], p, clock),
           Grant(p, t, clock)
    PROVE  \A u \in Tasks : LeaseMove(u)
<1>1. clock \in 1 .. clock /\ clock \in Nat /\ Swept(tasks, clock) \in [Tasks -> Row]
  BY SweptRows DEF TypeOK
<1>2. tasks'[t] = n
  BY <1>1
<1>3. LeaseMove(t)
  BY <1>1, <1>2, GrantMove
<1>4. ASSUME NEW u \in Tasks, u # t
      PROVE  LeaseMove(u)
  <2>1. tasks'[u] = Swept(tasks, clock)[u]
    BY <1>1, <1>4
  <2>2. KeptOrLost(u)
    BY <1>1, <1>4, ElsewhereKept
  <2>3. QED
    BY <2>1, <2>2, SweptLeaseMove
<1>5. QED
  BY <1>3, <1>4

LEMMA NothingLease ==
    ASSUME TypeOK, tasks' = Swept(tasks, clock), lease' = lease
    PROVE  \A u \in Tasks : LeaseMove(u)
  BY SweptLeaseMove DEF KeptOrLost

LEMMA TakeNextLease ==
    ASSUME TypeOK, NEW p \in Procs, TakeNext(p)
    PROVE  \A u \in Tasks : LeaseMove(u)
<1> DEFINE rows == Swept(tasks, clock)
<1>1. PICK t \in Tasks :
          /\ rows[t].locked_by = None \/ Expired(rows[t].locked_at, clock)
          /\ tasks' = [Swept(tasks, clock) EXCEPT ![t] = Taken(rows[t], p, clock)]
          /\ Grant(p, t, clock)
  BY DEF TakeNext, BestCandidates, Candidates
<1>2. /\ clock \in Nat /\ rows[t] \in Row /\ tasks[t] \in Row
      /\ rows[t] = tasks[t] \/ Expired(tasks[t].locked_at, clock)
  BY SweptRows DEF TypeOK
<1> DEFINE n == Taken(rows[t], p, clock)
<1>3. n \in Row /\ n.locked_by = AgentOf[p] /\ n.locked_at = clock /\ n.updated_at = clock
  BY <1>2, TakenRow
<1>4. Takeable(tasks[t], p, clock)
  BY <1>1, <1>2 DEF Takeable
<1>5. tasks' = [Swept(tasks, clock) EXCEPT ![t] = n]
  BY <1>1
<1> HIDE DEF n
<1>6. QED
  BY <1>1, <1>3, <1>4, <1>5, GrantingTransaction

LEMMA ClaimOrStealLease ==
    ASSUME TypeOK, PastInv, LeaseDiscipline, NEW p \in Procs, ClaimOrSteal(p)
    PROVE  \A u \in Tasks : LeaseMove(u)
<1>1. CASE TakeNext(p)
  BY <1>1, TakeNextLease
<1>2. CASE NothingNext(p)
  BY <1>2, NothingLease DEF NothingNext
<1> DEFINE rows == Swept(tasks, clock)
<1>3. CASE \E t \in Tasks :
              /\ Stale(rows[t], StealAge, clock)
              /\ tasks' = [Swept(tasks, clock) EXCEPT ![t] = Stolen(rows[t], p, clock)]
              /\ Grant(p, t, clock)
  <2>1. PICK t \in Tasks :
              /\ Stale(rows[t], StealAge, clock)
              /\ tasks' = [Swept(tasks, clock) EXCEPT ![t] = Stolen(rows[t], p, clock)]
              /\ Grant(p, t, clock)
    BY <1>3
  <2>2. /\ clock \in Nat /\ rows[t] \in Row /\ tasks[t] \in Row
        /\ rows[t] = tasks[t] \/ Expired(tasks[t].locked_at, clock)
        /\ Past(tasks[t], clock)
    BY SweptRows DEF TypeOK, PastInv
  <2> DEFINE n == Stolen(rows[t], p, clock)
  <2>3. n \in Row /\ n.locked_by = AgentOf[p] /\ n.locked_at = clock /\ n.updated_at = clock
    BY <2>2, StolenRow
  <2>4. Takeable(tasks[t], p, clock)
    <3>1. CASE rows[t] = tasks[t]
      BY <2>1, <2>2, <3>1, StaleTakeable
    <3>2. CASE Expired(tasks[t].locked_at, clock)
      BY <3>2 DEF Takeable
    <3>3. QED
      BY <2>2, <3>1, <3>2
  <2>5. tasks' = [Swept(tasks, clock) EXCEPT ![t] = n]
    BY <2>1
  <2> HIDE DEF n
  <2>6. QED
    BY <2>1, <2>3, <2>4, <2>5, GrantingTransaction
<1>4. QED
  BY <1>1, <1>2, <1>3 DEF ClaimOrSteal

\* Under the discipline every step moves every row as LeaseMove says.
LEMMA LeaseStep ==
    ASSUME TypeOK, PastInv, SnapshotInv, UsedKinds, LeaseDiscipline, [Next]_vars
    PROVE  \A u \in Tasks : LeaseMove(u)
<1>1. CASE Tick \/ UNCHANGED vars
  BY <1>1, QuietLease DEF Tick, vars
<1>2. ASSUME NEW p \in Procs, NEW t \in Tasks, Reads(p, t)
      PROVE  \A u \in Tasks : LeaseMove(u)
  <2>1. tasks' = tasks /\ lease' = lease
    BY <1>2 DEF Reads, StartRead, CompleteRead, AnonymousCompleteRead, FailRead,
       LockRead, UnlockRead, ForceUnlockRead, UpdateRead, StealRead, Begin
  <2>2. QED
    BY <2>1, QuietLease
<1>3. ASSUME NEW p \in Procs, RedistributeRead(p) \/ Refuse(p)
      PROVE  \A u \in Tasks : LeaseMove(u)
  BY <1>3, QuietLease DEF RedistributeRead, Refuse
<1>4. ASSUME NEW p \in Procs, Crash(p)
      PROVE  \A u \in Tasks : LeaseMove(u)
  BY <1>4, QuietLease DEF Crash, TypeOK
<1>5. ASSUME NEW p \in Procs, Writes(p)
      PROVE  \A u \in Tasks : LeaseMove(u)
  <2>1. op[p].kind \notin {"renew", "unlock", "redistribute"}
    BY DEF UsedKinds, LeaseDiscipline
  <2>2. ~RenewWrite(p) /\ ~UnlockWrite(p) /\ ~RedistributeWrite(p)
    BY <2>1 DEF RenewWrite, UnlockWrite, RedistributeWrite, Writing
  <2>3. QED
    BY <1>3, <1>5, <2>2, StartLease, StealLease, FinishLease, UpdateLease DEF Writes
<1>6. ASSUME NEW p \in Procs, Transactions(p)
      PROVE  \A u \in Tasks : LeaseMove(u)
  <2>1. CASE ClaimNextTask(p) \/ RedistributeClaim(p)
    BY <2>1, TakeNextLease, NothingLease DEF ClaimNextTask, RedistributeClaim, NothingNext
  <2>2. CASE ClaimOrSteal(p)
    BY <2>2, ClaimOrStealLease
  <2>3. CASE Sweep(p)
    BY <2>3, NothingLease DEF Sweep
  <2>4. QED
    BY <1>6, <2>1, <2>2, <2>3 DEF Transactions
<1>7. QED
  BY <1>1, <1>2, <1>3, <1>4, <1>5, <1>6 DEF Next

LEMMA UsedKindsStep ==
    ASSUME TypeOK, UsedKinds, [Next]_vars
    PROVE  UsedKinds'
<1>1. op \in [Procs -> Op] /\ Idle.kind = "idle"
  BY DEF TypeOK, Idle
<1>2. CASE op' = op
  BY <1>2 DEF UsedKinds
<1>3. ASSUME NEW p \in Procs, Done(p)
      PROVE  UsedKinds'
  BY <1>1, <1>3 DEF UsedKinds, Done
<1>4. ASSUME NEW p \in Procs, NEW t \in Tasks, Reads(p, t)
      PROVE  UsedKinds'
  <2>1. PICK kind \in Kinds : \E to : op' = [op EXCEPT ![p] =
            [kind |-> kind, task |-> t, row |-> tasks[t], at |-> clock, to |-> to]]
    BY <1>4 DEF Reads, StartRead, CompleteRead, AnonymousCompleteRead, FailRead,
       LockRead, UnlockRead, ForceUnlockRead, UpdateRead, StealRead, Begin
  <2>2. QED
    BY <1>1, <2>1 DEF UsedKinds
<1>5. ASSUME NEW p \in Procs, RedistributeRead(p)
      PROVE  UsedKinds'
  BY <1>1, <1>5 DEF RedistributeRead, UsedKinds
<1>6. ASSUME NEW p \in Procs, RedistributeWrite(p)
      PROVE  UsedKinds'
  <2>1. op[p] \in ListOps
    BY <1>6, OpOfKind DEF RedistributeWrite, Writing
  <2>2. op'[p].kind = op[p].kind /\ \A q \in Procs : q # p => op'[q] = op[q]
    BY <1>1, <1>6, <2>1 DEF RedistributeWrite, ListOps
  <2>3. QED
    BY <2>2 DEF UsedKinds
<1>7. QED
  BY <1>2, <1>3, <1>4, <1>5, <1>6 DEF Next, vars, Tick, Writes, Transactions, Crash,
     StartWrite, CompleteWrite, FailWrite, LockWrite, RenewWrite, UnlockWrite,
     ForceUnlockWrite, UpdateWrite, StealWrite, Refuse, ClaimNextTask,
     RedistributeClaim, ClaimOrSteal, Sweep

LEMMA PastSnapshots ==
    ASSUME TypeOK, PastInv, [Next]_vars, NEW p \in Procs, op'[p].kind \in RowKinds
    PROVE  op'[p].row.locked_at =< op'[p].at /\ op'[p].at > 0
<1>1. OpMove(p)
  BY Step DEF StepOK
<1>2. op'[p] # Idle /\ op'[p] \notin ListOps
  BY DEF Idle, ListOps, RowKinds
<1>3. CASE op'[p] \in RowOps /\ op'[p].row = tasks[op'[p].task] /\ op'[p].at = clock
  <2>1. op'[p].task \in Tasks
    BY <1>3 DEF RowOps
  <2>2. Past(tasks[op'[p].task], clock) /\ tasks[op'[p].task] \in Row /\ clock \in Nat /\ clock > 0
    BY <2>1 DEF PastInv, TypeOK
  <2>3. QED
    BY <1>3, <2>2 DEF Past, Row
<1>4. QED
  BY <1>1, <1>2, <1>3 DEF OpMove, PastInv

\* The inductive invariant of the leases.
LHInv == UsedKinds /\ PastInv /\ LeaseInv

LEMMA LeaseInvAlways ==
    ASSUME LeaseDiscipline
    PROVE  Spec => []LHInv
<1>1. Init => LHInv
  <2> SUFFICES ASSUME Init PROVE LHInv
    OBVIOUS
  <2>1. UsedKinds
    BY DEF Init, UsedKinds, Idle
  <2>2. PastInv
    BY DEF Init, PastInv, Past, Idle, RowKinds
  <2>3. LeaseInv
    BY DEF Init, LeaseInv
  <2>4. QED
    BY <2>1, <2>2, <2>3 DEF LHInv
<1>2. TypeOK /\ SnapshotInv /\ LHInv /\ [Next]_vars => LHInv'
  <2> SUFFICES ASSUME TypeOK, SnapshotInv, LHInv, [Next]_vars PROVE LHInv'
    OBVIOUS
  <2> USE DEF LHInv
  <2>1. UsedKinds'
    BY UsedKindsStep
  <2>2. TypeOK' /\ clock =< clock'
    BY Step DEF StepOK
  <2>3. ASSUME NEW t \in Tasks
        PROVE  /\ Past(tasks'[t], clock')
               /\ \A p \in Procs : lease'[p][t] >= clock' =>
                    /\ HeldBy(tasks'[t], p)
                    /\ tasks'[t].locked_at + Expiry >= lease'[p][t]
    <3>1. LeaseMove(t)
      BY LeaseStep
    <3>2. QED
      BY <2>2, <3>1, LeaseMoveKeeps
  <2>4. PastInv'
    BY <2>3, PastSnapshots DEF PastInv, Past
  <2>5. LeaseInv'
    BY <2>3 DEF LeaseInv, HeldBy
  <2>6. QED
    BY <2>1, <2>4, <2>5
<1>3. QED
  BY <1>1, <1>2, TypeCorrect, SnapshotAlways, PTL DEF Spec

\* Under the discipline, whoever was told that it holds a task holds it in the
\* table until the lease runs out.
THEOREM LeaseHonouredAlways ==
    ASSUME LeaseDiscipline
    PROVE  Spec => []LeaseHonoured
<1>1. LHInv => LeaseHonoured
  BY DEF LHInv, LeaseInv, LeaseHonoured
<1>2. QED
  BY <1>1, LeaseInvAlways, PTL

(***************************************************************************)
(* The abstract lease.  A step of the processes is a grant to one of them  *)
(* of a row that is then its own, or takes leases away.                    *)
(***************************************************************************)
Granting(p, t) ==
    /\ tasks'[t].locked_by = AgentOf[p]
    /\ \E ts \in Nat : ts =< clock /\ Grant(p, t, ts)

LEMMA GrantingWrites ==
    ASSUME TypeOK, PastInv, NEW p \in Procs,
           StartWrite(p) \/ LockWrite(p) \/ StealWrite(p)
    PROVE  \E t \in Tasks : Granting(p, t)
<1>1. op[p].kind \in RowKinds
  BY DEF StartWrite, LockWrite, StealWrite, Writing, RowKinds
<1>2. PICK ts \in Times(p) :
          /\ \/ tasks' = [tasks EXCEPT ![op[p].task] = Taken(Current(p), p, ts)]
             \/ tasks' = [tasks EXCEPT ![op[p].task] = Bump(Locked(Current(p), p, ts), ts)]
             \/ tasks' = [tasks EXCEPT ![op[p].task] = Stolen(Current(p), p, ts)]
          /\ Grant(p, op[p].task, ts)
  BY DEF StartWrite, LockWrite, StealWrite, Put
<1>3. /\ ts \in Nat /\ ts =< clock /\ Current(p) \in Row /\ op[p].task \in Tasks
  BY <1>1, WriteTimes
<1>4. Taken(Current(p), p, ts).locked_by = AgentOf[p]
  BY <1>3, TakenRow
<1>5. Stolen(Current(p), p, ts).locked_by = AgentOf[p]
  BY <1>3, StolenRow
<1>6. Bump(Locked(Current(p), p, ts), ts).locked_by = AgentOf[p]
  <2> DEFINE l == Locked(Current(p), p, ts)
  <2>1. l \in Row /\ l.locked_by = AgentOf[p]
    BY <1>3, LockedRow
  <2>2. Bump(Locked(Current(p), p, ts), ts) = Bump(l, ts)
    OBVIOUS
  <2> HIDE DEF l
  <2>3. Bump(l, ts).locked_by = AgentOf[p]
    BY <1>3, <2>1, BumpRow
  <2>4. QED
    BY <2>2, <2>3
<1>7. tasks'[op[p].task].locked_by = AgentOf[p]
  BY <1>2, <1>3, <1>4, <1>5, <1>6 DEF TypeOK
<1>8. QED
  BY <1>2, <1>3, <1>7 DEF Granting

LEMMA GrantingTransactions ==
    ASSUME TypeOK, NEW p \in Procs, Transactions(p), lease' # lease
    PROVE  \E t \in Tasks : Granting(p, t)
<1> DEFINE rows == Swept(tasks, clock)
<1>1. PICK t \in Tasks :
          /\ \/ tasks' = [rows EXCEPT ![t] = Taken(rows[t], p, clock)]
             \/ tasks' = [rows EXCEPT ![t] = Stolen(rows[t], p, clock)]
          /\ Grant(p, t, clock)
  BY DEF Transactions, ClaimNextTask, RedistributeClaim, ClaimOrSteal, Sweep,
         TakeNext, NothingNext, BestCandidates, Candidates
<1>2. clock \in Nat /\ rows \in [Tasks -> Row] /\ rows[t] \in Row
  BY SweptRows DEF TypeOK
<1>3. Taken(rows[t], p, clock).locked_by = AgentOf[p]
  BY <1>2, TakenRow
<1>4. Stolen(rows[t], p, clock).locked_by = AgentOf[p]
  BY <1>2, StolenRow
<1> HIDE DEF rows
<1>5. tasks'[t].locked_by = AgentOf[p]
  BY <1>1, <1>2, <1>3, <1>4
<1>6. QED
  BY <1>1, <1>2, <1>5 DEF Granting

LEMMA GrantOrLoss ==
    ASSUME TypeOK, PastInv, UsedKinds, LeaseDiscipline, [Next]_vars
    PROVE  \/ Tick
           \/ clock' = clock /\ \A t \in Tasks : KeptOrLost(t)
           \/ clock' = clock /\ \E p \in Procs, t \in Tasks : Granting(p, t)
<1>1. CASE UNCHANGED <<clock, lease>>
  BY <1>1 DEF KeptOrLost
<1>2. ASSUME NEW p \in Procs, Crash(p)
      PROVE  clock' = clock /\ \A t \in Tasks : KeptOrLost(t)
  BY <1>2 DEF Crash, KeptOrLost, TypeOK
<1>3. ASSUME NEW p \in Procs, CompleteWrite(p) \/ FailWrite(p) \/ ForceUnlockWrite(p) \/ UpdateWrite(p)
      PROVE  clock' = clock /\ \A t \in Tasks : KeptOrLost(t)
  BY <1>3 DEF CompleteWrite, FailWrite, ForceUnlockWrite, UpdateWrite, Revoke, KeptOrLost, TypeOK
<1>4. ASSUME NEW p \in Procs, StartWrite(p) \/ LockWrite(p) \/ StealWrite(p)
      PROVE  clock' = clock /\ \E q \in Procs, t \in Tasks : Granting(q, t)
  BY <1>4, GrantingWrites DEF StartWrite, LockWrite, StealWrite
<1>5. ASSUME NEW p \in Procs, Transactions(p), lease' # lease
      PROVE  clock' = clock /\ \E q \in Procs, t \in Tasks : Granting(q, t)
  BY <1>5, GrantingTransactions
     DEF Transactions, ClaimNextTask, RedistributeClaim, ClaimOrSteal, Sweep
<1>6. ASSUME NEW p \in Procs, Transactions(p)
      PROVE  clock' = clock
  BY <1>6 DEF Transactions, ClaimNextTask, RedistributeClaim, ClaimOrSteal, Sweep
<1>7. ASSUME NEW p \in Procs
      PROVE  ~RenewWrite(p) /\ ~UnlockWrite(p)
  BY DEF UsedKinds, LeaseDiscipline, RenewWrite, UnlockWrite, Writing
<1>8. ASSUME NEW p \in Procs, NEW t \in Tasks, Reads(p, t)
      PROVE  UNCHANGED <<clock, lease>>
  BY <1>8 DEF Reads, StartRead, CompleteRead, AnonymousCompleteRead, FailRead,
     LockRead, UnlockRead, ForceUnlockRead, UpdateRead, StealRead, Begin
<1>9. QED
  BY <1>1, <1>2, <1>3, <1>4, <1>5, <1>6, <1>7, <1>8
     DEF Next, vars, RedistributeRead, Writes, RedistributeWrite, Refuse

LEMMA AbstractLeaseStep ==
    ASSUME TypeOK, TypeOK', LHInv, LHInv', LeaseDiscipline, [Next]_vars
    PROVE  [Lease!Next]_(Lease!vars)
<1> DEFINE until == [t \in Tasks |-> [p \in Procs |-> lease[p][t]]]
<1>1. /\ clock \in Nat /\ Expiry \in Nat
      /\ until \in [Tasks -> [Procs -> Nat]] /\ until' \in [Tasks -> [Procs -> Nat]]
  BY ConstantsAssumption DEF TypeOK
<1>2. CASE Tick
  BY <1>2 DEF Tick, Lease!Next, Lease!Tick
<1>3. CASE clock' = clock /\ \A t \in Tasks : KeptOrLost(t)
  BY <1>1, <1>3 DEF KeptOrLost, Lease!Next, Lease!GiveUp
<1>4. ASSUME clock' = clock, NEW p \in Procs, NEW t \in Tasks, Granting(p, t)
      PROVE  Lease!Grant(t, p)
  <2>1. PICK ts \in Nat : ts =< clock /\ lease' = [lease EXCEPT ![p][t] = ts + Expiry]
    BY <1>4 DEF Granting, Grant
  <2>2. until' = [until EXCEPT ![t][p] = ts + Expiry]
    <3>1. \A u \in Tasks, q \in Procs :
              until'[u][q] = IF u = t /\ q = p THEN ts + Expiry ELSE until[u][q]
      BY <2>1 DEF TypeOK
    <3> HIDE DEF until
    <3>2. QED
      BY <1>1, <3>1
  <2>3. ASSUME NEW q \in Procs \ {p}, lease[q][t] >= clock
        PROVE  FALSE
    <3>1. lease'[q][t] >= clock'
      BY <1>4, <2>1, <2>3 DEF TypeOK
    <3>2. tasks'[t].locked_by = AgentOf[q]
      BY <3>1 DEF LHInv, LeaseInv, HeldBy
    <3>3. QED
      BY <1>4, <2>3, <3>2 DEF Granting, LeaseDiscipline
  <2>4. \A q \in Procs \ {p} : ~Lease!Holds(t, q)
    BY <2>3 DEF Lease!Holds
  <2>5. ts + Expiry \in 0 .. clock + Expiry
    BY <1>1, <2>1
  <2>6. QED
    BY <1>4, <2>2, <2>4, <2>5 DEF Lease!Grant
<1>5. QED
  BY <1>2, <1>3, <1>4, GrantOrLoss DEF LHInv, Lease!Next

\* Under the discipline the tasks are under an exclusive lease: a start, a lock, a
\* steal or a claim is only reported successful when the lease of every other process
\* is over, however long ago it read the row.
THEOREM TasksImplementLeases ==
    ASSUME LeaseDiscipline
    PROVE  Spec => TasksAreLeased
<1>1. Init => Lease!Init
  BY DEF Init, Lease!Init
<1>2. TypeOK /\ TypeOK' /\ LHInv /\ LHInv' /\ [Next]_vars => [Lease!Next]_(Lease!vars)
  BY AbstractLeaseStep
<1>3. QED
  BY <1>1, <1>2, TypeCorrect, LeaseInvAlways, PTL DEF Spec, TasksAreLeased, Lease!Spec

(***************************************************************************)
(* Outcomes.  The status of a row is changed by an UPDATE that compares    *)
(* the version, or finds the row unfinished when it writes, or belongs to  *)
(* a redistribution.                                                       *)
(***************************************************************************)
\* Sweeping, taking and stealing leave a finished row its status.
LEMMA TransactionKeepsOutcomes ==
    ASSUME TypeOK, NEW p \in Procs, Transactions(p), NEW t \in Tasks,
           tasks[t].status \in Terminal
    PROVE  tasks'[t].status = tasks[t].status
<1> DEFINE rows == Swept(tasks, clock)
<1>1. /\ rows \in [Tasks -> Row] /\ clock \in Nat
      /\ \A u \in Tasks : rows[u].status = tasks[u].status
  BY SweptRows, UnlockedRow DEF TypeOK
<1> HIDE DEF rows
<1>2. CASE TakeNext(p)
  <2>1. PICK u \in Tasks : /\ rows[u].status = "pending"
                           /\ tasks' = [rows EXCEPT ![u] = Taken(rows[u], p, clock)]
    BY <1>2 DEF TakeNext, BestCandidates, Candidates, rows
  <2>2. u # t
    BY <1>1, <2>1 DEF Terminal
  <2> QED
    BY <1>1, <2>1, <2>2
<1>3. CASE tasks' = rows
  BY <1>1, <1>3
<1>4. CASE \E u \in Tasks : tasks' = [rows EXCEPT ![u] = Stolen(rows[u], p, clock)]
  <2>1. PICK u \in Tasks : tasks' = [rows EXCEPT ![u] = Stolen(rows[u], p, clock)]
    BY <1>4
  <2>2. Stolen(rows[u], p, clock).status = rows[u].status
    BY <1>1, StolenRow
  <2> QED
    BY <1>1, <2>1, <2>2
<1> QED
  BY <1>2, <1>3, <1>4 DEF Transactions, ClaimNextTask, RedistributeClaim, ClaimOrSteal,
     Sweep, NothingNext, rows

\* An UPDATE that compares the version finds the status that was read.
LEMMA KnowingWrite ==
    ASSUME TypeOK, SnapshotInv, NEW p \in Procs,
           CompleteWrite(p) \/ FailWrite(p) \/ UpdateWrite(p),
           NEW t \in Tasks, tasks'[t].status # tasks[t].status
    PROVE  /\ op[p].kind \in RowKinds /\ op'[p] = Idle
           /\ op[p].task = t /\ op[p].row.status = tasks[t].status
<1>1. op[p].kind \in RowKinds /\ Unmoved(p) /\ Done(p)
  BY DEF CompleteWrite, FailWrite, UpdateWrite, Writing, RowKinds
<1>2. op'[p] = Idle
  BY <1>1 DEF Done, TypeOK
<1>3. op[p].task = t
  BY DEF CompleteWrite, FailWrite, UpdateWrite, Put, TypeOK
<1>4. op[p].row.status = Current(p).status
  <2>1. op[p].row \in Row
    BY <1>1, RowOp
  <2> QED
    BY <1>1, <2>1, UnlockedRow DEF SnapshotInv, SnapshotOK
<1> QED
  BY <1>1, <1>2, <1>3, <1>4 DEF Current

\* The other UPDATEs keep the status, or start a task that is not finished.
LEMMA OtherWrite ==
    ASSUME TypeOK, NEW p \in Procs,
           \/ StartWrite(p) \/ LockWrite(p) \/ RenewWrite(p) \/ UnlockWrite(p)
           \/ ForceUnlockWrite(p) \/ StealWrite(p),
           NEW t \in Tasks, tasks[t].status \in Terminal
    PROVE  tasks'[t].status = tasks[t].status
<1>1. op[p].kind \in RowKinds
  BY DEF StartWrite, LockWrite, RenewWrite, UnlockWrite, ForceUnlockWrite, StealWrite,
     Writing, RowKinds
<1>2. /\ op[p].task \in Tasks /\ Current(p) \in Row /\ Current(p) = tasks[op[p].task]
      /\ \A ts \in Times(p) : ts \in Nat
  BY <1>1, RowOp
<1>3. CASE StartWrite(p)
  <2>1. Current(p).status \notin Terminal
    BY <1>3 DEF StartWrite, CanStart, Startable, Terminal
  <2>2. op[p].task # t
    BY <1>2, <2>1
  <2> QED
    BY <1>3, <2>2 DEF StartWrite, Put, TypeOK
<1>4. CASE tasks' = tasks
  BY <1>4
<1>5. ASSUME NEW n, n.status = Current(p).status, tasks' = [tasks EXCEPT ![op[p].task] = n]
      PROVE  tasks'[t].status = tasks[t].status
  BY <1>2, <1>5 DEF TypeOK
<1>6. ASSUME NEW ts \in Times(p)
      PROVE  /\ Bump(Locked(Current(p), p, ts), ts).status = Current(p).status
             /\ Bump([Current(p) EXCEPT !.locked_at = ts], ts).status = Current(p).status
             /\ Bump(Unlocked(Current(p)), ts).status = Current(p).status
             /\ Stolen(Current(p), p, ts).status = Current(p).status
  <2>1. ts \in Nat
    BY <1>2
  <2>2. [Current(p) EXCEPT !.locked_at = ts] \in Row
    BY <1>2, <2>1 DEF Row
  <2>3. [Current(p) EXCEPT !.locked_at = ts].status = Current(p).status
    BY <1>2 DEF Row
  <2>4. Bump([Current(p) EXCEPT !.locked_at = ts], ts).status = Current(p).status
    BY <2>1, <2>2, <2>3, BumpRow
  <2>5. Bump(Locked(Current(p), p, ts), ts).status = Current(p).status
    BY <1>2, <2>1, LockedRow, BumpRow
  <2>6. Bump(Unlocked(Current(p)), ts).status = Current(p).status
    BY <1>2, <2>1, UnlockedRow, BumpRow
  <2> QED
    BY <1>2, <2>1, <2>4, <2>5, <2>6, StolenRow
<1>7. CASE LockWrite(p) \/ RenewWrite(p) \/ UnlockWrite(p) \/ ForceUnlockWrite(p) \/ StealWrite(p)
  BY <1>4, <1>5, <1>6, <1>7 DEF LockWrite, RenewWrite, UnlockWrite, ForceUnlockWrite,
     StealWrite, Put
<1> QED
  BY <1>3, <1>7

\* Without redistribution, nobody overwrites the outcome of a task without having
\* read it: the operation that changes it began after the task had finished.
THEOREM OutcomeOverwrittenKnowinglyAlways ==
    ASSUME "redistribute" \notin Kinds
    PROVE  Spec => OutcomeOverwrittenKnowingly
<1> DEFINE Knowingly ==
             \A t \in Tasks :
               /\ tasks[t].status \in Terminal
               /\ tasks'[t].status # tasks[t].status
               => \E p \in Procs : /\ op[p].kind \in RowKinds
                                   /\ op'[p] = Idle
                                   /\ op[p].task = t
                                   /\ op[p].row.status = tasks[t].status
<1>1. ASSUME TypeOK, SnapshotInv, UsedKinds, Next PROVE Knowingly
  <2> SUFFICES ASSUME NEW t \in Tasks, tasks[t].status \in Terminal,
                      tasks'[t].status # tasks[t].status
               PROVE  \E p \in Procs : /\ op[p].kind \in RowKinds
                                       /\ op'[p] = Idle
                                       /\ op[p].task = t
                                       /\ op[p].row.status = tasks[t].status
    OBVIOUS
  <2>1. tasks' # tasks
    OBVIOUS
  <2>2. PICK p \in Procs : Writes(p) \/ Transactions(p)
    BY <1>1, <2>1 DEF Next, Tick, Crash, RedistributeRead, Reads, StartRead, CompleteRead,
       AnonymousCompleteRead, FailRead, LockRead, UnlockRead, ForceUnlockRead, UpdateRead,
       StealRead, Begin
  <2>3. ~RedistributeWrite(p)
    BY <1>1 DEF UsedKinds, RedistributeWrite, Writing
  <2>4. CompleteWrite(p) \/ FailWrite(p) \/ UpdateWrite(p)
    BY <1>1, <2>1, <2>2, <2>3, TransactionKeepsOutcomes, OtherWrite DEF Writes, Refuse
  <2> QED
    BY <1>1, <2>4, KnowingWrite
<1>2. TypeOK /\ SnapshotInv /\ UsedKinds /\ [Next]_vars => [Knowingly]_vars
  BY <1>1
<1>3. Init => UsedKinds
  BY DEF Init, UsedKinds, Idle
<1>4. TypeOK /\ UsedKinds /\ [Next]_vars => UsedKinds'
  BY UsedKindsStep
<1> QED
  BY <1>2, <1>3, <1>4, TypeCorrect, SnapshotAlways, PTL DEF Spec, OutcomeOverwrittenKnowingly
=============================================================================
