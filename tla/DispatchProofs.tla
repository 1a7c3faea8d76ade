---------------------------- MODULE DispatchProofs ----------------------------
(* Proofs about Dispatch, for any dispatches, any number of callers and any   *)
(* number of faults: "sent" is true when it is written, what is settled is    *)
(* not sent again, and every repetition of a message has a cause.             *)
EXTENDS Dispatch, FiniteSetTheorems, TLAPS

-----------------------------------------------------------------------------
(* The inductive invariant *)

Sending(j) == j.kind \in {"sweep", "fanout"}

(* A job that will still show d, and one that is past that. *)
Ahead(j, d) == Sending(j) /\ (d \in j.left \/ (d = j.now /\ j.at = "send"))
Past(j, d) ==
  Sending(j) /\ d = j.now /\ j.at \in {"delivered", "logged", "broken", "regret"}

Before(d) == {p \in Procs : Ahead(job[p], d)}
After(d) == {p \in Procs : Past(job[p], d)}

Settled(d) == status[d] \notin {"absent", "pending"}

(* What a job may be, whatever the tables say. *)
JobOK(j) ==
  /\ j.now \notin j.left
  /\ j.now = None => j.at = "rest"
  /\ j.at # "rest" => j.kind \in {"sweep", "fanout", "preview", "rehearsal"}
  /\ j.at \in {"delivered", "logged"} => Sending(j)
  /\ j.kind = "cancel" => j.now # None /\ j.at = "rest" /\ j.left = {}
  /\ j.kind = "none" => j = Resting

(* A job that has a dispatch in hand, or found it due, has found its row. *)
HeldExist(p) ==
  /\ job[p].now # None => status[job[p].now] # "absent"
  /\ job[p].kind \in {"sweep", "preview"} => \A d \in job[p].left : status[d] # "absent"

(* What a job knows of the dispatch in hand. *)
Known(p) ==
  /\ job[p].at \in {"delivered", "logged"} => shown[job[p].now] > 0
  /\ job[p].at = "logged" => "sent" \in logged[job[p].now]

JobsOK == \A p \in Procs : JobOK(job[p]) /\ HeldExist(p) /\ Known(p)

(* While d is pending every copy but those of dead or disabled callers is in  *)
(* the hands of one that will settle it; afterwards those that still hold d   *)
(* are too few to exceed the bound.                                           *)
Counted(d) ==
  /\ status[d] = "absent" => shown[d] = 0
  /\ status[d] = "pending" => shown[d] <= Cardinality(After(d)) + faults
  /\ Settled(d) => shown[d] + Cardinality(Before(d)) <= Cardinality(Procs) + faults

IInv == TypeOK /\ JobsOK /\ SentWasShown
CInv == \A d \in Dispatches : Counted(d)

-----------------------------------------------------------------------------
(* Types *)

USE DEF Statuses, Dry

LEMMA RestingTyped == Resting \in Job
BY DEF Resting, Job

LEMMA StartTyped ==
  /\ \A k \in {"sweep", "preview", "fanout", "rehearsal"}, ds \in SUBSET Dispatches :
       [Resting EXCEPT !.kind = k, !.left = ds] \in Job
  /\ \A d \in Dispatches : [Resting EXCEPT !.kind = "cancel", !.now = d] \in Job
BY DEF Resting, Job

LEMMA MoveTyped ==
  ASSUME NEW j \in Job
  PROVE  /\ \A d \in Dispatches : NextOf(j, d) \in Job
         /\ \A a \in {"delivered", "logged", "broken", "regret"} : [j EXCEPT !.at = a] \in Job
         /\ Done(j) \in Job
         /\ GivenUp(j) \in Job
BY RestingTyped DEF Job, NextOf, Done, GivenUp

LEMMA NowIsADispatch ==
  ASSUME TypeOK, JobsOK, NEW p \in Procs, job[p].at # "rest" \/ job[p].kind = "cancel"
  PROVE  job[p].now \in Dispatches
BY DEF TypeOK, JobsOK, JobOK, Job

LEMMA JobTyped ==
  ASSUME TypeOK, NEW p \in Procs, NEW j \in Job, job' = [job EXCEPT ![p] = j]
  PROVE  job' \in [Procs -> Job] /\ job'[p] = j /\ \A q \in Procs \ {p} : job'[q] = job[q]
BY DEF TypeOK

LEMMA TypeStep ==
  ASSUME TypeOK, JobsOK, [Next]_vars
  PROVE  TypeOK'
<1>1. ASSUME NEW d \in Dispatches, Schedule(d)
      PROVE  TypeOK'
  BY <1>1 DEF Schedule, TypeOK, Marked
<1>2. ASSUME NEW d \in Dispatches, FallDue(d)
      PROVE  TypeOK'
  BY <1>2 DEF FallDue, TypeOK, Marked
<1>3. ASSUME NEW p \in Procs, NEW kind \in {"fanout", "rehearsal"},
             NEW targets \in SUBSET Dispatches, FanOut(p, kind, targets)
      PROVE  TypeOK'
  BY <1>3, StartTyped DEF FanOut, TypeOK, Marked
<1>4. ASSUME NEW p \in Procs, NEW d \in Dispatches, CreateNext(p, d)
      PROVE  TypeOK'
  BY <1>4, MoveTyped DEF CreateNext, TypeOK, Marked
<1>5. ASSUME NEW p \in Procs, NEW kind \in {"sweep", "preview"}, Sweep(p, kind)
      PROVE  TypeOK'
  BY <1>5, StartTyped DEF Sweep, TypeOK, Marked, Due
<1>6. ASSUME NEW p \in Procs, NEW d \in Dispatches, Take(p, d)
      PROVE  TypeOK'
  BY <1>6, MoveTyped DEF Take, TypeOK, Marked
<1>7. ASSUME NEW p \in Procs, Deliver(p)
      PROVE  TypeOK'
  <2>1. job[p] \in Job /\ job[p].now \in Dispatches
    BY <1>7, NowIsADispatch DEF Deliver, TypeOK
  <2>2. PICK at \in {"delivered", "broken"} : job' = [job EXCEPT ![p].at = at]
    BY <1>7 DEF Deliver
  <2>3. job' \in [Procs -> Job]
    BY <2>1, <2>2, MoveTyped DEF TypeOK
  <2>4. shown' \in [Dispatches -> Nat]
    BY <1>7, <2>1 DEF Deliver, TypeOK
  <2> QED
    BY <1>7, <2>3, <2>4 DEF Deliver, TypeOK
<1>8. ASSUME NEW p \in Procs, Break(p)
      PROVE  TypeOK'
  BY <1>8, NowIsADispatch, MoveTyped DEF Break, TypeOK, Marked
<1>9. ASSUME NEW p \in Procs, LogPreview(p)
      PROVE  TypeOK'
  BY <1>9, NowIsADispatch, MoveTyped DEF LogPreview, TypeOK, Marked
<1>10. ASSUME NEW p \in Procs, LogSent(p)
      PROVE  TypeOK'
  BY <1>10, NowIsADispatch, MoveTyped DEF LogSent, TypeOK, Marked
<1>11. ASSUME NEW p \in Procs, MarkSent(p)
      PROVE  TypeOK'
  BY <1>11, NowIsADispatch, MoveTyped DEF MarkSent, TypeOK, Marked
<1>12. ASSUME NEW p \in Procs, LogFailed(p)
      PROVE  TypeOK'
  BY <1>12, NowIsADispatch, MoveTyped DEF LogFailed, TypeOK, Marked
<1>13. ASSUME NEW p \in Procs, MarkFailed(p)
      PROVE  TypeOK'
  BY <1>13, NowIsADispatch, MoveTyped DEF MarkFailed, TypeOK, Marked
<1>14. ASSUME NEW p \in Procs, WriteFails(p)
      PROVE  TypeOK'
  <2>1. job[p] \in Job /\ faults' \in 0 .. MaxFaults
    BY <1>14, DispatchAssumption DEF WriteFails, TypeOK
  <2>2. job' \in [Procs -> Job]
    <3>1. CASE job' = [job EXCEPT ![p].at = "broken"]
      BY <2>1, <3>1, MoveTyped DEF TypeOK
    <3>2. CASE job' = [job EXCEPT ![p] = GivenUp(job[p])]
      BY <2>1, <3>2, MoveTyped DEF TypeOK
    <3> QED
      BY <1>14, <3>1, <3>2 DEF WriteFails
  <2> QED
    BY <1>14, <2>1, <2>2 DEF WriteFails, TypeOK
<1>15. ASSUME NEW p \in Procs, NEW d \in Dispatches, AskCancel(p, d)
      PROVE  TypeOK'
  BY <1>15, StartTyped DEF AskCancel, TypeOK, Marked
<1>16. ASSUME NEW p \in Procs, Cancel(p)
      PROVE  TypeOK'
  BY <1>16, NowIsADispatch, RestingTyped DEF Cancel, TypeOK, Marked
<1>17. ASSUME NEW p \in Procs, Crash(p)
      PROVE  TypeOK'
  BY <1>17, RestingTyped, DispatchAssumption DEF Crash, TypeOK, Marked
<1>18. CASE UNCHANGED vars
  BY <1>18 DEF vars, TypeOK
<1>19. QED
  BY <1>1, <1>2, <1>3, <1>4, <1>5, <1>6, <1>7, <1>8, <1>9, <1>10, <1>11, <1>12, <1>13,
     <1>14, <1>15, <1>16, <1>17, <1>18 DEF Next, Proceed

-----------------------------------------------------------------------------
(* What jobs know *)

(* Rows stay, copies and log entries are never taken back. *)
Grows ==
  \A d \in Dispatches :
    /\ status[d] # "absent" => status'[d] # "absent"
    /\ shown[d] <= shown'[d]
    /\ logged[d] \subseteq logged'[d]

LEMMA GrowsStep ==
  ASSUME TypeOK, JobsOK, [Next]_vars
  PROVE  Grows
<1>1. ASSUME NEW d \in Dispatches, Schedule(d)
      PROVE  Grows
  BY <1>1 DEF Schedule, Grows, TypeOK, Marked
<1>2. ASSUME NEW d \in Dispatches, FallDue(d)
      PROVE  Grows
  BY <1>2 DEF FallDue, Grows, TypeOK, Marked
<1>3. ASSUME NEW p \in Procs, NEW kind \in {"fanout", "rehearsal"},
             NEW targets \in SUBSET Dispatches, FanOut(p, kind, targets)
      PROVE  Grows
  BY <1>3 DEF FanOut, Grows, TypeOK, Marked
<1>4. ASSUME NEW p \in Procs, NEW d \in Dispatches, CreateNext(p, d)
      PROVE  Grows
  BY <1>4 DEF CreateNext, Grows, TypeOK, Marked
<1>5. ASSUME NEW p \in Procs, NEW kind \in {"sweep", "preview"}, Sweep(p, kind)
      PROVE  Grows
  BY <1>5 DEF Sweep, Grows, TypeOK, Marked
<1>6. ASSUME NEW p \in Procs, NEW d \in Dispatches, Take(p, d)
      PROVE  Grows
  BY <1>6 DEF Take, Grows, TypeOK, Marked
<1>7. ASSUME NEW p \in Procs, Deliver(p)
      PROVE  Grows
  BY <1>7, NowIsADispatch DEF Deliver, Grows, TypeOK, Marked
<1>8. ASSUME NEW p \in Procs, Break(p)
      PROVE  Grows
  BY <1>8, NowIsADispatch DEF Break, Grows, TypeOK, Marked
<1>9. ASSUME NEW p \in Procs, LogPreview(p)
      PROVE  Grows
  BY <1>9, NowIsADispatch DEF LogPreview, Grows, TypeOK, Marked
<1>10. ASSUME NEW p \in Procs, LogSent(p)
      PROVE  Grows
  BY <1>10, NowIsADispatch DEF LogSent, Grows, TypeOK, Marked
<1>11. ASSUME NEW p \in Procs, MarkSent(p)
      PROVE  Grows
  BY <1>11, NowIsADispatch DEF MarkSent, Grows, TypeOK, Marked
<1>12. ASSUME NEW p \in Procs, LogFailed(p)
      PROVE  Grows
  BY <1>12, NowIsADispatch DEF LogFailed, Grows, TypeOK, Marked
<1>13. ASSUME NEW p \in Procs, MarkFailed(p)
      PROVE  Grows
  BY <1>13, NowIsADispatch DEF MarkFailed, Grows, TypeOK, Marked
<1>14. ASSUME NEW p \in Procs, WriteFails(p)
      PROVE  Grows
  BY <1>14, NowIsADispatch DEF WriteFails, Grows, TypeOK, Marked
<1>15. ASSUME NEW p \in Procs, NEW d \in Dispatches, AskCancel(p, d)
      PROVE  Grows
  BY <1>15 DEF AskCancel, Grows, TypeOK, Marked
<1>16. ASSUME NEW p \in Procs, Cancel(p)
      PROVE  Grows
  BY <1>16, NowIsADispatch DEF Cancel, Grows, TypeOK, Marked
<1>17. ASSUME NEW p \in Procs, Crash(p)
      PROVE  Grows
  BY <1>17 DEF Crash, Grows, TypeOK, Marked
<1>18. CASE UNCHANGED vars
  BY <1>18 DEF vars, Grows, TypeOK
<1>19. QED
  BY <1>1, <1>2, <1>3, <1>4, <1>5, <1>6, <1>7, <1>8, <1>9, <1>10, <1>11, <1>12, <1>13,
     <1>14, <1>15, <1>16, <1>17, <1>18 DEF Next, Proceed

LEMMA OthersStep ==
  ASSUME TypeOK, TypeOK', JobsOK, Grows, NEW q \in Procs, job'[q] = job[q]
  PROVE  JobOK(job'[q]) /\ HeldExist(q)' /\ Known(q)'
<1>1. JobOK(job[q]) /\ HeldExist(q) /\ Known(q) /\ job[q] \in Job
  BY DEF JobsOK, TypeOK
<1>2. HeldExist(q)'
  BY <1>1 DEF HeldExist, Grows, Job
<1>3. Known(q)'
  <2>1. CASE job[q].at \in {"delivered", "logged"}
    <3>1. job[q].now \in Dispatches
      BY <2>1, <1>1 DEF JobOK, Job
    <3>2. shown[job[q].now] \in Nat /\ shown'[job[q].now] >= shown[job[q].now]
      BY <3>1 DEF TypeOK, Grows
    <3>3. shown[job[q].now] > 0 /\ (job[q].at = "logged" => "sent" \in logged[job[q].now])
      BY <1>1, <2>1 DEF Known
    <3>4. shown'[job[q].now] > 0
      BY <3>2, <3>3, <3>1 DEF Grows, TypeOK
    <3>5. logged[job[q].now] \subseteq logged'[job[q].now]
      BY <3>1 DEF Grows
    <3> QED
      BY <3>3, <3>4, <3>5 DEF Known
  <2>2. CASE job[q].at \notin {"delivered", "logged"}
    BY <2>2 DEF Known
  <2> QED
    BY <2>1, <2>2
<1> QED
  BY <1>1, <1>2, <1>3

LEMMA RestingOK == JobOK(Resting)
BY DEF JobOK, Resting, Sending

LEMMA DoneOK ==
  ASSUME NEW j \in Job, JobOK(j)
  PROVE  /\ JobOK(Done(j)) /\ JobOK(GivenUp(j))
         /\ Done(j).now = None /\ Done(j).at = "rest"
         /\ GivenUp(j).now = None /\ GivenUp(j).at = "rest"
         /\ Done(j) = Resting \/ (Done(j).left = j.left /\ Done(j).kind = j.kind)
         /\ GivenUp(j) = Resting \/ (GivenUp(j).left = j.left /\ GivenUp(j).kind = j.kind)
<1>1. CASE j.left = {}
  BY <1>1, RestingOK DEF Done, GivenUp, Resting
<1>2. CASE j.left # {}
  <2>1. Done(j) = [j EXCEPT !.now = None, !.at = "rest"] /\ GivenUp(j) \in {Done(j), Resting}
    BY <1>2 DEF Done, GivenUp
  <2>2. /\ Done(j).left = j.left /\ Done(j).kind = j.kind
        /\ Done(j).now = None /\ Done(j).at = "rest"
    BY <2>1 DEF Job
  <2>3. j.left \in SUBSET Dispatches /\ None \notin j.left
    BY DispatchAssumption DEF Job
  <2>4. j.kind # "cancel" /\ j.kind # "none"
    BY <1>2 DEF JobOK, Resting
  <2>5. JobOK(Done(j))
    BY <2>2, <2>3, <2>4 DEF JobOK
  <2>6. Resting.now = None /\ Resting.at = "rest"
    BY DEF Resting
  <2> QED
    BY <2>1, <2>2, <2>5, <2>6, RestingOK
<1> QED
  BY <1>1, <1>2

LEMMA JobsStep ==
  ASSUME TypeOK, JobsOK, [Next]_vars
  PROVE  JobsOK'
<1>1. ASSUME NEW d \in Dispatches, Schedule(d)
      PROVE  JobsOK'
  BY <1>1, GrowsStep, TypeStep, OthersStep DEF Schedule, JobsOK
<1>2. ASSUME NEW d \in Dispatches, FallDue(d)
      PROVE  JobsOK'
  BY <1>2, GrowsStep, TypeStep, OthersStep DEF FallDue, JobsOK
<1>3. ASSUME NEW p \in Procs, NEW kind \in {"fanout", "rehearsal"},
             NEW targets \in SUBSET Dispatches, FanOut(p, kind, targets)
      PROVE  JobsOK'
  <2>1. Grows /\ job[p] \in Job /\ JobOK(job[p]) /\ HeldExist(p) /\ Known(p)
    BY GrowsStep DEF JobsOK, TypeOK
  <2>2. JobOK(job'[p]) /\ HeldExist(p)' /\ Known(p)'
    BY <1>3, <2>1, DispatchAssumption DEF FanOut, TypeOK, JobOK, HeldExist, Known,
       Sending, Job, Resting
  <2>3. \A q \in Procs \ {p} : job'[q] = job[q]
    BY <1>3 DEF FanOut, TypeOK
  <2> QED
    BY <2>1, <2>2, <2>3, TypeStep, OthersStep DEF JobsOK
<1>4. ASSUME NEW p \in Procs, NEW d \in Dispatches, CreateNext(p, d)
      PROVE  JobsOK'
  <2>1. Grows /\ job[p] \in Job /\ JobOK(job[p]) /\ HeldExist(p) /\ Known(p)
    BY GrowsStep DEF JobsOK, TypeOK
  <2>2. JobOK(job'[p]) /\ HeldExist(p)' /\ Known(p)'
    BY <1>4, <2>1, DispatchAssumption DEF CreateNext, TypeOK, JobOK, HeldExist, Known,
       Sending, Job, NextOf, Marked
  <2>3. \A q \in Procs \ {p} : job'[q] = job[q]
    BY <1>4 DEF CreateNext, TypeOK
  <2> QED
    BY <2>1, <2>2, <2>3, TypeStep, OthersStep DEF JobsOK
<1>5. ASSUME NEW p \in Procs, NEW kind \in {"sweep", "preview"}, Sweep(p, kind)
      PROVE  JobsOK'
  <2>1. Grows /\ job[p] \in Job /\ JobOK(job[p]) /\ HeldExist(p) /\ Known(p)
    BY GrowsStep DEF JobsOK, TypeOK
  <2>2. JobOK(job'[p]) /\ HeldExist(p)' /\ Known(p)'
    BY <1>5, <2>1, DispatchAssumption DEF Sweep, TypeOK, JobOK, HeldExist, Known,
       Sending, Job, Resting, Due
  <2>3. \A q \in Procs \ {p} : job'[q] = job[q]
    BY <1>5 DEF Sweep, TypeOK
  <2> QED
    BY <2>1, <2>2, <2>3, TypeStep, OthersStep DEF JobsOK
<1>6. ASSUME NEW p \in Procs, NEW d \in Dispatches, Take(p, d)
      PROVE  JobsOK'
  <2>1. Grows /\ job[p] \in Job /\ JobOK(job[p]) /\ HeldExist(p) /\ Known(p)
    BY GrowsStep DEF JobsOK, TypeOK
  <2>2. JobOK(job'[p]) /\ HeldExist(p)' /\ Known(p)'
    BY <1>6, <2>1, DispatchAssumption DEF Take, TypeOK, JobOK, HeldExist, Known,
       Sending, Job, NextOf, Marked
  <2>3. \A q \in Procs \ {p} : job'[q] = job[q]
    BY <1>6 DEF Take, TypeOK
  <2> QED
    BY <2>1, <2>2, <2>3, TypeStep, OthersStep DEF JobsOK
<1>7. ASSUME NEW p \in Procs, Deliver(p)
      PROVE  JobsOK'
  <2>1. Grows /\ job[p] \in Job /\ JobOK(job[p]) /\ HeldExist(p) /\ Known(p)
    BY GrowsStep DEF JobsOK, TypeOK
  <2>2. JobOK(job'[p]) /\ HeldExist(p)' /\ Known(p)'
    BY <1>7, <2>1, DispatchAssumption, NowIsADispatch DEF Deliver, TypeOK, JobOK,
       HeldExist, Known, Sending, Job
  <2>3. \A q \in Procs \ {p} : job'[q] = job[q]
    BY <1>7 DEF Deliver, TypeOK
  <2> QED
    BY <2>1, <2>2, <2>3, TypeStep, OthersStep DEF JobsOK
<1>8. ASSUME NEW p \in Procs, Break(p)
      PROVE  JobsOK'
  <2>1. Grows /\ job[p] \in Job /\ JobOK(job[p]) /\ HeldExist(p) /\ Known(p)
    BY GrowsStep DEF JobsOK, TypeOK
  <2>2. JobOK(job'[p]) /\ HeldExist(p)' /\ Known(p)'
    BY <1>8, <2>1, DispatchAssumption, NowIsADispatch DEF Break, TypeOK, JobOK,
       HeldExist, Known, Sending, Job
  <2>3. \A q \in Procs \ {p} : job'[q] = job[q]
    BY <1>8 DEF Break, TypeOK
  <2> QED
    BY <2>1, <2>2, <2>3, TypeStep, OthersStep DEF JobsOK
<1>9. ASSUME NEW p \in Procs, LogPreview(p)
      PROVE  JobsOK'
  <2>1. Grows /\ job[p] \in Job /\ JobOK(job[p]) /\ HeldExist(p) /\ Known(p)
    BY GrowsStep DEF JobsOK, TypeOK
  <2>2. JobOK(job'[p]) /\ HeldExist(p)' /\ Known(p)'
    <3>1. job'[p] = Done(job[p])
      BY <1>9 DEF LogPreview, TypeOK
    <3>2. JobOK(job'[p]) /\ job'[p].now = None /\ job'[p].at = "rest"
      BY <2>1, <3>1, DoneOK
    <3>3. job'[p] = Resting \/ (job'[p].left = job[p].left /\ job'[p].kind = job[p].kind)
      BY <2>1, <3>1, DoneOK
    <3>4. HeldExist(p)'
      BY <2>1, <3>2, <3>3 DEF HeldExist, Grows, Resting, Job
    <3> QED
      BY <3>2, <3>4 DEF Known
  <2>3. \A q \in Procs \ {p} : job'[q] = job[q]
    BY <1>9 DEF LogPreview, TypeOK
  <2> QED
    BY <2>1, <2>2, <2>3, TypeStep, OthersStep DEF JobsOK
<1>10. ASSUME NEW p \in Procs, LogSent(p)
      PROVE  JobsOK'
  <2>1. Grows /\ job[p] \in Job /\ JobOK(job[p]) /\ HeldExist(p) /\ Known(p)
    BY GrowsStep DEF JobsOK, TypeOK
  <2>2. JobOK(job'[p]) /\ HeldExist(p)' /\ Known(p)'
    BY <1>10, <2>1, DispatchAssumption, NowIsADispatch DEF LogSent, TypeOK, JobOK,
       HeldExist, Known, Sending, Job
  <2>3. \A q \in Procs \ {p} : job'[q] = job[q]
    BY <1>10 DEF LogSent, TypeOK
  <2> QED
    BY <2>1, <2>2, <2>3, TypeStep, OthersStep DEF JobsOK
<1>11. ASSUME NEW p \in Procs, MarkSent(p)
      PROVE  JobsOK'
  <2>1. Grows /\ job[p] \in Job /\ JobOK(job[p]) /\ HeldExist(p) /\ Known(p)
    BY GrowsStep DEF JobsOK, TypeOK
  <2>2. JobOK(job'[p]) /\ HeldExist(p)' /\ Known(p)'
    <3>1. job'[p] = Done(job[p])
      BY <1>11 DEF MarkSent, TypeOK
    <3>2. JobOK(job'[p]) /\ job'[p].now = None /\ job'[p].at = "rest"
      BY <2>1, <3>1, DoneOK
    <3>3. job'[p] = Resting \/ (job'[p].left = job[p].left /\ job'[p].kind = job[p].kind)
      BY <2>1, <3>1, DoneOK
    <3>4. HeldExist(p)'
      BY <2>1, <3>2, <3>3 DEF HeldExist, Grows, Resting, Job
    <3> QED
      BY <3>2, <3>4 DEF Known
  <2>3. \A q \in Procs \ {p} : job'[q] = job[q]
    BY <1>11 DEF MarkSent, TypeOK
  <2> QED
    BY <2>1, <2>2, <2>3, TypeStep, OthersStep DEF JobsOK
<1>12. ASSUME NEW p \in Procs, LogFailed(p)
      PROVE  JobsOK'
  <2>1. Grows /\ job[p] \in Job /\ JobOK(job[p]) /\ HeldExist(p) /\ Known(p)
    BY GrowsStep DEF JobsOK, TypeOK
  <2>2. JobOK(job'[p]) /\ HeldExist(p)' /\ Known(p)'
    BY <1>12, <2>1, DispatchAssumption, NowIsADispatch DEF LogFailed, TypeOK, JobOK,
       HeldExist, Known, Sending, Job
  <2>3. \A q \in Procs \ {p} : job'[q] = job[q]
    BY <1>12 DEF LogFailed, TypeOK
  <2> QED
    BY <2>1, <2>2, <2>3, TypeStep, OthersStep DEF JobsOK
<1>13. ASSUME NEW p \in Procs, MarkFailed(p)
      PROVE  JobsOK'
  <2>1. Grows /\ job[p] \in Job /\ JobOK(job[p]) /\ HeldExist(p) /\ Known(p)
    BY GrowsStep DEF JobsOK, TypeOK
  <2>2. JobOK(job'[p]) /\ HeldExist(p)' /\ Known(p)'
    <3>1. job'[p] = GivenUp(job[p])
      BY <1>13 DEF MarkFailed, TypeOK
    <3>2. JobOK(job'[p]) /\ job'[p].now = None /\ job'[p].at = "rest"
      BY <2>1, <3>1, DoneOK
    <3>3. job'[p] = Resting \/ (job'[p].left = job[p].left /\ job'[p].kind = job[p].kind)
      BY <2>1, <3>1, DoneOK
    <3>4. HeldExist(p)'
      BY <2>1, <3>2, <3>3 DEF HeldExist, Grows, Resting, Job
    <3> QED
      BY <3>2, <3>4 DEF Known
  <2>3. \A q \in Procs \ {p} : job'[q] = job[q]
    BY <1>13 DEF MarkFailed, TypeOK
  <2> QED
    BY <2>1, <2>2, <2>3, TypeStep, OthersStep DEF JobsOK
<1>14. ASSUME NEW p \in Procs, WriteFails(p)
      PROVE  JobsOK'
  <2>1. Grows /\ job[p] \in Job /\ JobOK(job[p]) /\ HeldExist(p) /\ Known(p)
    BY GrowsStep DEF JobsOK, TypeOK
  <2>2. JobOK(job'[p]) /\ HeldExist(p)' /\ Known(p)'
    <3>1. CASE job' = [job EXCEPT ![p].at = "broken"] /\ job[p].at # "rest"
      BY <1>14, <2>1, <3>1 DEF WriteFails, TypeOK, JobOK, HeldExist, Known, Sending, Job
    <3>2. CASE job' = [job EXCEPT ![p] = GivenUp(@)]
      <4>1. job'[p] = GivenUp(job[p])
        BY <3>2 DEF TypeOK
      <4>2. JobOK(job'[p]) /\ job'[p].now = None /\ job'[p].at = "rest"
        BY <2>1, <4>1, DoneOK
      <4>3. job'[p] = Resting \/ (job'[p].left = job[p].left /\ job'[p].kind = job[p].kind)
        BY <2>1, <4>1, DoneOK
      <4>4. HeldExist(p)'
        BY <2>1, <4>2, <4>3 DEF HeldExist, Grows, Resting, Job
      <4> QED
        BY <4>2, <4>4 DEF Known
    <3> QED
      BY <1>14, <3>1, <3>2 DEF WriteFails
  <2>3. \A q \in Procs \ {p} : job'[q] = job[q]
    BY <1>14 DEF WriteFails, TypeOK
  <2> QED
    BY <2>1, <2>2, <2>3, TypeStep, OthersStep DEF JobsOK
<1>15. ASSUME NEW p \in Procs, NEW d \in Dispatches, AskCancel(p, d)
      PROVE  JobsOK'
  <2>1. Grows /\ job[p] \in Job /\ JobOK(job[p]) /\ HeldExist(p) /\ Known(p)
    BY GrowsStep DEF JobsOK, TypeOK
  <2>2. JobOK(job'[p]) /\ HeldExist(p)' /\ Known(p)'
    BY <1>15, <2>1, DispatchAssumption DEF AskCancel, TypeOK, JobOK, HeldExist, Known,
       Sending, Job, Resting, Cancellable
  <2>3. \A q \in Procs \ {p} : job'[q] = job[q]
    BY <1>15 DEF AskCancel, TypeOK
  <2> QED
    BY <2>1, <2>2, <2>3, TypeStep, OthersStep DEF JobsOK
<1>16. ASSUME NEW p \in Procs, Cancel(p)
      PROVE  JobsOK'
  <2>1. Grows /\ job[p] \in Job /\ JobOK(job[p]) /\ HeldExist(p) /\ Known(p)
    BY GrowsStep DEF JobsOK, TypeOK
  <2>2. JobOK(job'[p]) /\ HeldExist(p)' /\ Known(p)'
    BY <1>16, <2>1, DispatchAssumption, NowIsADispatch DEF Cancel, TypeOK, JobOK,
       HeldExist, Known, Sending, Job, Resting, Resting, Marked
  <2>3. \A q \in Procs \ {p} : job'[q] = job[q]
    BY <1>16 DEF Cancel, TypeOK
  <2> QED
    BY <2>1, <2>2, <2>3, TypeStep, OthersStep DEF JobsOK
<1>17. ASSUME NEW p \in Procs, Crash(p)
      PROVE  JobsOK'
  <2>1. Grows /\ job[p] \in Job /\ JobOK(job[p]) /\ HeldExist(p) /\ Known(p)
    BY GrowsStep DEF JobsOK, TypeOK
  <2>2. JobOK(job'[p]) /\ HeldExist(p)' /\ Known(p)'
    BY <1>17, <2>1, DispatchAssumption DEF Crash, TypeOK, JobOK, HeldExist, Known,
       Sending, Job, Resting, Resting
  <2>3. \A q \in Procs \ {p} : job'[q] = job[q]
    BY <1>17 DEF Crash, TypeOK
  <2> QED
    BY <2>1, <2>2, <2>3, TypeStep, OthersStep DEF JobsOK
<1>18. CASE UNCHANGED vars
  BY <1>18, GrowsStep, TypeStep, OthersStep DEF vars, JobsOK
<1>19. QED
  BY <1>1, <1>2, <1>3, <1>4, <1>5, <1>6, <1>7, <1>8, <1>9, <1>10, <1>11, <1>12, <1>13,
     <1>14, <1>15, <1>16, <1>17, <1>18 DEF Next, Proceed

-----------------------------------------------------------------------------
(* "Sent" is true when it is written *)

LEMMA SentStep ==
  ASSUME TypeOK, JobsOK, SentWasShown, [Next]_vars
  PROVE  SentWasShown'
<1>1. ASSUME NEW d \in Dispatches, Schedule(d)
      PROVE  SentWasShown'
  <2>1. \A d2 \in Dispatches : status'[d2] = "sent" => status[d2] = "sent"
    BY <1>1 DEF Schedule, Marked, TypeOK
  <2> QED
    BY <2>1, GrowsStep, TypeStep DEF SentWasShown, Grows, TypeOK
<1>2. ASSUME NEW d \in Dispatches, FallDue(d)
      PROVE  SentWasShown'
  <2>1. \A d2 \in Dispatches : status'[d2] = "sent" => status[d2] = "sent"
    BY <1>2 DEF FallDue, Marked, TypeOK
  <2> QED
    BY <2>1, GrowsStep, TypeStep DEF SentWasShown, Grows, TypeOK
<1>3. ASSUME NEW p \in Procs, NEW kind \in {"fanout", "rehearsal"},
             NEW targets \in SUBSET Dispatches, FanOut(p, kind, targets)
      PROVE  SentWasShown'
  <2>1. \A d2 \in Dispatches : status'[d2] = "sent" => status[d2] = "sent"
    BY <1>3 DEF FanOut, Marked, TypeOK
  <2> QED
    BY <2>1, GrowsStep, TypeStep DEF SentWasShown, Grows, TypeOK
<1>4. ASSUME NEW p \in Procs, NEW d \in Dispatches, CreateNext(p, d)
      PROVE  SentWasShown'
  <2>1. \A d2 \in Dispatches : status'[d2] = "sent" => status[d2] = "sent"
    BY <1>4 DEF CreateNext, Marked, TypeOK
  <2> QED
    BY <2>1, GrowsStep, TypeStep DEF SentWasShown, Grows, TypeOK
<1>5. ASSUME NEW p \in Procs, NEW kind \in {"sweep", "preview"}, Sweep(p, kind)
      PROVE  SentWasShown'
  <2>1. \A d2 \in Dispatches : status'[d2] = "sent" => status[d2] = "sent"
    BY <1>5 DEF Sweep, Marked, TypeOK
  <2> QED
    BY <2>1, GrowsStep, TypeStep DEF SentWasShown, Grows, TypeOK
<1>6. ASSUME NEW p \in Procs, NEW d \in Dispatches, Take(p, d)
      PROVE  SentWasShown'
  <2>1. \A d2 \in Dispatches : status'[d2] = "sent" => status[d2] = "sent"
    BY <1>6 DEF Take, Marked, TypeOK
  <2> QED
    BY <2>1, GrowsStep, TypeStep DEF SentWasShown, Grows, TypeOK
<1>7. ASSUME NEW p \in Procs, Deliver(p)
      PROVE  SentWasShown'
  <2>1. \A d2 \in Dispatches : status'[d2] = "sent" => status[d2] = "sent"
    BY <1>7, NowIsADispatch DEF Deliver, Marked, TypeOK
  <2> QED
    BY <2>1, GrowsStep, TypeStep DEF SentWasShown, Grows, TypeOK
<1>8. ASSUME NEW p \in Procs, Break(p)
      PROVE  SentWasShown'
  <2>1. \A d2 \in Dispatches : status'[d2] = "sent" => status[d2] = "sent"
    BY <1>8, NowIsADispatch DEF Break, Marked, TypeOK
  <2> QED
    BY <2>1, GrowsStep, TypeStep DEF SentWasShown, Grows, TypeOK
<1>9. ASSUME NEW p \in Procs, LogPreview(p)
      PROVE  SentWasShown'
  <2>1. \A d2 \in Dispatches : status'[d2] = "sent" => status[d2] = "sent"
    BY <1>9, NowIsADispatch DEF LogPreview, Marked, TypeOK
  <2> QED
    BY <2>1, GrowsStep, TypeStep DEF SentWasShown, Grows, TypeOK
<1>10. ASSUME NEW p \in Procs, LogSent(p)
      PROVE  SentWasShown'
  <2>1. \A d2 \in Dispatches : status'[d2] = "sent" => status[d2] = "sent"
    BY <1>10, NowIsADispatch DEF LogSent, Marked, TypeOK
  <2> QED
    BY <2>1, GrowsStep, TypeStep DEF SentWasShown, Grows, TypeOK
<1>11. ASSUME NEW p \in Procs, MarkSent(p)
      PROVE  SentWasShown'
  <2>1. job[p].now \in Dispatches /\ Known(p)
    BY <1>11, NowIsADispatch DEF MarkSent, JobsOK
  <2>2. shown[job[p].now] > 0 /\ "sent" \in logged[job[p].now]
    BY <1>11, <2>1 DEF MarkSent, Known
  <2> QED
    BY <1>11, <2>1, <2>2 DEF MarkSent, SentWasShown, Marked, TypeOK
<1>12. ASSUME NEW p \in Procs, LogFailed(p)
      PROVE  SentWasShown'
  <2>1. \A d2 \in Dispatches : status'[d2] = "sent" => status[d2] = "sent"
    BY <1>12, NowIsADispatch DEF LogFailed, Marked, TypeOK
  <2> QED
    BY <2>1, GrowsStep, TypeStep DEF SentWasShown, Grows, TypeOK
<1>13. ASSUME NEW p \in Procs, MarkFailed(p)
      PROVE  SentWasShown'
  <2>1. \A d2 \in Dispatches : status'[d2] = "sent" => status[d2] = "sent"
    BY <1>13, NowIsADispatch DEF MarkFailed, Marked, TypeOK
  <2> QED
    BY <2>1, GrowsStep, TypeStep DEF SentWasShown, Grows, TypeOK
<1>14. ASSUME NEW p \in Procs, WriteFails(p)
      PROVE  SentWasShown'
  <2>1. \A d2 \in Dispatches : status'[d2] = "sent" => status[d2] = "sent"
    BY <1>14, NowIsADispatch DEF WriteFails, Marked, TypeOK
  <2> QED
    BY <2>1, GrowsStep, TypeStep DEF SentWasShown, Grows, TypeOK
<1>15. ASSUME NEW p \in Procs, NEW d \in Dispatches, AskCancel(p, d)
      PROVE  SentWasShown'
  <2>1. \A d2 \in Dispatches : status'[d2] = "sent" => status[d2] = "sent"
    BY <1>15 DEF AskCancel, Marked, TypeOK
  <2> QED
    BY <2>1, GrowsStep, TypeStep DEF SentWasShown, Grows, TypeOK
<1>16. ASSUME NEW p \in Procs, Cancel(p)
      PROVE  SentWasShown'
  <2>1. \A d2 \in Dispatches : status'[d2] = "sent" => status[d2] = "sent"
    BY <1>16, NowIsADispatch DEF Cancel, Marked, TypeOK
  <2> QED
    BY <2>1, GrowsStep, TypeStep DEF SentWasShown, Grows, TypeOK
<1>17. ASSUME NEW p \in Procs, Crash(p)
      PROVE  SentWasShown'
  <2>1. \A d2 \in Dispatches : status'[d2] = "sent" => status[d2] = "sent"
    BY <1>17 DEF Crash, Marked, TypeOK
  <2> QED
    BY <2>1, GrowsStep, TypeStep DEF SentWasShown, Grows, TypeOK
<1>18. CASE UNCHANGED vars
  BY <1>18 DEF vars, SentWasShown
<1>19. QED
  BY <1>1, <1>2, <1>3, <1>4, <1>5, <1>6, <1>7, <1>8, <1>9, <1>10, <1>11, <1>12, <1>13,
     <1>14, <1>15, <1>16, <1>17, <1>18 DEF Next, Proceed

-----------------------------------------------------------------------------
(* Counting copies *)

(* All that a step may do to the count of d. *)
CountStep(d) ==
  \/ /\ status'[d] = status[d] /\ shown'[d] = shown[d] /\ faults' = faults
     /\ status[d] = "pending" => After(d) \subseteq After(d)'
     /\ Settled(d) => Before(d)' \subseteq Before(d)
  \/ /\ status'[d] = status[d] /\ shown'[d] = shown[d] + 1 /\ faults' = faults
     /\ status[d] # "absent"
     /\ \E p \in Procs : /\ p \in Before(d) /\ Before(d)' \subseteq Before(d) \ {p}
                        /\ p \notin After(d) /\ After(d) \cup {p} \subseteq After(d)'
  \/ /\ status'[d] = status[d] /\ shown'[d] = shown[d] /\ faults' = faults + 1
     /\ \E p \in Procs : After(d) \ {p} \subseteq After(d)'
     /\ Before(d)' \subseteq Before(d)
  \/ /\ status[d] # "absent" /\ Settled(d)'
     /\ shown'[d] = shown[d] /\ faults' = faults
     /\ Before(d)' \subseteq Before(d)
  \/ /\ status[d] = "absent" /\ status'[d] = "pending"
     /\ shown'[d] = shown[d] /\ faults' = faults

LEMMA Apart ==
  ASSUME JobsOK, NEW d \in Dispatches
  PROVE  Before(d) \cap After(d) = {}
BY DEF JobsOK, JobOK, Before, After, Ahead, Past

LEMMA Sizes ==
  ASSUME NEW d \in Dispatches
  PROVE  /\ IsFiniteSet(Before(d)) /\ Cardinality(Before(d)) \in Nat
         /\ IsFiniteSet(After(d)) /\ Cardinality(After(d)) \in Nat
         /\ Cardinality(Procs) \in Nat
<1>1. Before(d) \in SUBSET Procs /\ After(d) \in SUBSET Procs
  BY DEF Before, After
<1> QED
  BY <1>1, DispatchAssumption, FS_Subset, FS_CardinalityType

LEMMA SizesNext ==
  ASSUME NEW d \in Dispatches
  PROVE  /\ IsFiniteSet(Before(d)') /\ Cardinality(Before(d)') \in Nat
         /\ IsFiniteSet(After(d)') /\ Cardinality(After(d)') \in Nat
<1>1. Before(d)' \in SUBSET Procs /\ After(d)' \in SUBSET Procs
  BY DEF Before, After
<1> QED
  BY <1>1, DispatchAssumption, FS_Subset, FS_CardinalityType

(* The callers that hold d before and after its copy are different callers. *)
LEMMA Together ==
  ASSUME JobsOK, NEW d \in Dispatches
  PROVE  Cardinality(Before(d)) + Cardinality(After(d)) <= Cardinality(Procs)
<1>1. Cardinality(Before(d) \cup After(d))
        = Cardinality(Before(d)) + Cardinality(After(d)) - Cardinality(Before(d) \cap After(d))
  BY Sizes, FS_Union
<1>2. Cardinality(Before(d) \cap After(d)) = 0
  BY Apart, FS_EmptySet
<1>3. Before(d) \cup After(d) \in SUBSET Procs
  BY DEF Before, After
<1>4. Cardinality(Before(d) \cup After(d)) <= Cardinality(Procs)
  BY <1>3, DispatchAssumption, FS_Subset
<1> QED
  BY <1>1, <1>2, <1>4, Sizes

LEMMA CountKept ==
  ASSUME TypeOK, JobsOK, NEW d \in Dispatches, Counted(d), CountStep(d)
  PROVE  Counted(d)'
<1>1. /\ shown[d] \in Nat /\ faults \in Nat /\ status[d] \in Statuses
      /\ Cardinality(Before(d)) \in Nat /\ Cardinality(After(d)) \in Nat
      /\ Cardinality(Before(d)') \in Nat /\ Cardinality(After(d)') \in Nat
      /\ Cardinality(Procs) \in Nat
  BY Sizes, SizesNext, DispatchAssumption DEF TypeOK
<1>2. After(d) \subseteq After(d)' => Cardinality(After(d)) <= Cardinality(After(d)')
  BY SizesNext, FS_Subset
<1>3. Before(d)' \subseteq Before(d) => Cardinality(Before(d)') <= Cardinality(Before(d))
  BY Sizes, FS_Subset
<1>4. CASE /\ status'[d] = status[d] /\ shown'[d] = shown[d] /\ faults' = faults
           /\ status[d] = "pending" => After(d) \subseteq After(d)'
           /\ Settled(d) => Before(d)' \subseteq Before(d)
  BY <1>1, <1>2, <1>3, <1>4 DEF Counted, Settled
<1>5. CASE /\ status'[d] = status[d] /\ shown'[d] = shown[d] + 1 /\ faults' = faults
           /\ status[d] # "absent"
           /\ \E p \in Procs : /\ p \in Before(d) /\ Before(d)' \subseteq Before(d) \ {p}
                              /\ p \notin After(d) /\ After(d) \cup {p} \subseteq After(d)'
  <2>1. PICK p \in Procs : /\ p \in Before(d) /\ Before(d)' \subseteq Before(d) \ {p}
                           /\ p \notin After(d) /\ After(d) \cup {p} \subseteq After(d)'
    BY <1>5
  <2>2. /\ IsFiniteSet(Before(d) \ {p})
        /\ Cardinality(Before(d) \ {p}) = Cardinality(Before(d)) - 1
    BY <2>1, Sizes, FS_RemoveElement
  <2>3. Cardinality(Before(d)') <= Cardinality(Before(d)) - 1
    BY <2>1, <2>2, FS_Subset
  <2>4. Cardinality(After(d) \cup {p}) = Cardinality(After(d)) + 1
    BY <2>1, Sizes, FS_AddElement
  <2>5. Cardinality(After(d)') >= Cardinality(After(d)) + 1
    BY <2>1, <2>4, SizesNext, FS_Subset
  <2> QED
    BY <1>1, <1>5, <2>3, <2>5 DEF Counted, Settled
<1>6. CASE /\ status'[d] = status[d] /\ shown'[d] = shown[d] /\ faults' = faults + 1
           /\ \E p \in Procs : After(d) \ {p} \subseteq After(d)'
           /\ Before(d)' \subseteq Before(d)
  <2>1. PICK p \in Procs : After(d) \ {p} \subseteq After(d)'
    BY <1>6
  <2>2. Cardinality(After(d) \ {p}) >= Cardinality(After(d)) - 1
    BY <1>1, Sizes, FS_RemoveElement
  <2>3. Cardinality(After(d) \ {p}) <= Cardinality(After(d)')
    BY <2>1, SizesNext, FS_Subset
  <2>4. Cardinality(After(d) \ {p}) \in Int
    BY <1>1, Sizes, FS_RemoveElement
  <2>5. Cardinality(After(d)') >= Cardinality(After(d)) - 1
    BY <1>1, <2>2, <2>3, <2>4
  <2> QED
    BY <1>1, <1>3, <1>6, <2>5 DEF Counted, Settled
<1>7. CASE /\ status[d] # "absent" /\ Settled(d)'
           /\ shown'[d] = shown[d] /\ faults' = faults
           /\ Before(d)' \subseteq Before(d)
  <2>1. shown[d] + Cardinality(Before(d)) <= Cardinality(Procs) + faults
    BY <1>1, <1>7, Together DEF Counted, Settled
  <2> QED
    BY <1>1, <1>3, <1>7, <2>1 DEF Counted, Settled
<1>8. CASE /\ status[d] = "absent" /\ status'[d] = "pending"
           /\ shown'[d] = shown[d] /\ faults' = faults
  BY <1>1, <1>8 DEF Counted, Settled
<1> QED
  BY <1>4, <1>5, <1>6, <1>7, <1>8 DEF CountStep

LEMMA SetsMove ==
  ASSUME NEW p \in Procs, \A q \in Procs \ {p} : job'[q] = job[q], NEW d \in Dispatches
  PROVE  /\ (Ahead(job'[p], d) => Ahead(job[p], d)) => Before(d)' \subseteq Before(d)
         /\ (~Ahead(job'[p], d)) => Before(d)' \subseteq Before(d) \ {p}
         /\ (Past(job[p], d) => Past(job'[p], d)) => After(d) \subseteq After(d)'
         /\ Past(job'[p], d) => After(d) \cup {p} \subseteq After(d)'
         /\ After(d) \ {p} \subseteq After(d)'
         /\ p \in Before(d) <=> Ahead(job[p], d)
         /\ p \in After(d) <=> Past(job[p], d)
BY DEF Before, After

(* Through with a dispatch, a job has no more ahead of it than before. *)
LEMMA DoneIsLess ==
  ASSUME NEW j \in Job, JobOK(j), NEW d \in Dispatches,
         NEW k, k = Done(j) \/ k = GivenUp(j)
  PROVE  Ahead(k, d) => Ahead(j, d)
<1>1. k.now = None /\ (k = Resting \/ (k.left = j.left /\ k.kind = j.kind))
  BY DoneOK
<1> QED
  BY <1>1, DispatchAssumption DEF Ahead, Sending, Resting

LEMMA CountSteps ==
  ASSUME TypeOK, JobsOK, [Next]_vars
  PROVE  \A d2 \in Dispatches : CountStep(d2)
<1> SUFFICES ASSUME NEW d2 \in Dispatches PROVE CountStep(d2)
  OBVIOUS
<1>1. ASSUME NEW d \in Dispatches, Schedule(d)
      PROVE  CountStep(d2)
  <2>1. shown' = shown /\ faults' = faults /\ job' = job /\ status[d] = "absent"
    BY <1>1 DEF Schedule, Unused
  <2>2. CASE d2 = d
    BY <1>1, <2>1, <2>2 DEF Schedule, Marked, CountStep, TypeOK
  <2>3. CASE d2 # d
    <3>1. status'[d2] = status[d2]
      BY <1>1, <2>3 DEF Schedule, Marked, TypeOK
    <3> QED
      BY <2>1, <3>1 DEF CountStep, Before, After
  <2> QED
    BY <2>2, <2>3
<1>2. ASSUME NEW d \in Dispatches, FallDue(d)
      PROVE  CountStep(d2)
  <2>1. status'[d2] = status[d2] /\ shown' = shown /\ faults' = faults /\ job' = job
    BY <1>2 DEF FallDue
  <2> QED
    BY <2>1 DEF CountStep, Before, After
<1>3. ASSUME NEW p \in Procs, NEW kind \in {"fanout", "rehearsal"},
             NEW targets \in SUBSET Dispatches, FanOut(p, kind, targets)
      PROVE  CountStep(d2)
  <2>1. \A q \in Procs \ {p} : job'[q] = job[q]
    BY <1>3 DEF FanOut, TypeOK
  <2>2. job[p] \in Job /\ JobOK(job[p]) /\ HeldExist(p)
    BY DEF TypeOK, JobsOK
  <2>3. status'[d2] = status[d2] /\ shown'[d2] = shown[d2] /\ faults' = faults
    BY <1>3 DEF FanOut, TypeOK
  <2>4. status[d2] = "pending" => (Past(job[p], d2) => Past(job'[p], d2))
    BY <1>3, <2>2 DEF FanOut, TypeOK, Past, Resting, Sending, Unused
  <2>5. Settled(d2) => (Ahead(job'[p], d2) => Ahead(job[p], d2))
    BY <1>3, <2>2, DispatchAssumption DEF FanOut, TypeOK, Ahead, Settled, Resting, Sending, Unused
  <2> QED
    BY <2>1, <2>3, <2>4, <2>5, SetsMove DEF CountStep
<1>4. ASSUME NEW p \in Procs, NEW d \in Dispatches, CreateNext(p, d)
      PROVE  CountStep(d2)
  <2>1. \A q \in Procs \ {p} : job'[q] = job[q]
    BY <1>4 DEF CreateNext, TypeOK
  <2>2. job[p] \in Job /\ JobOK(job[p]) /\ HeldExist(p)
    BY DEF TypeOK, JobsOK
  <2>3. shown'[d2] = shown[d2] /\ faults' = faults
    BY <1>4 DEF CreateNext
  <2>4. CASE d2 = d
    BY <1>4, <2>3, <2>4 DEF CreateNext, Marked, CountStep, TypeOK
  <2>5. CASE d2 # d
    <3>1. status'[d2] = status[d2]
      BY <1>4, <2>5 DEF CreateNext, Marked, TypeOK
    <3>2. Past(job[p], d2) => Past(job'[p], d2)
      BY <1>4 DEF CreateNext, Past
    <3>3. Ahead(job'[p], d2) => Ahead(job[p], d2)
      BY <1>4, <2>2, <2>5 DEF CreateNext, NextOf, Ahead, Sending, TypeOK, Job
    <3> QED
      BY <2>1, <2>3, <3>1, <3>2, <3>3, SetsMove DEF CountStep
  <2> QED
    BY <2>4, <2>5
<1>5. ASSUME NEW p \in Procs, NEW kind \in {"sweep", "preview"}, Sweep(p, kind)
      PROVE  CountStep(d2)
  <2>1. \A q \in Procs \ {p} : job'[q] = job[q]
    BY <1>5 DEF Sweep, TypeOK
  <2>2. job[p] \in Job /\ JobOK(job[p]) /\ HeldExist(p)
    BY DEF TypeOK, JobsOK
  <2>3. status'[d2] = status[d2] /\ shown'[d2] = shown[d2] /\ faults' = faults
    BY <1>5 DEF Sweep, TypeOK
  <2>4. status[d2] = "pending" => (Past(job[p], d2) => Past(job'[p], d2))
    BY <1>5, <2>2 DEF Sweep, TypeOK, Past, Resting, Sending, Due
  <2>5. Settled(d2) => (Ahead(job'[p], d2) => Ahead(job[p], d2))
    BY <1>5, <2>2, DispatchAssumption DEF Sweep, TypeOK, Ahead, Settled, Resting, Sending, Due
  <2> QED
    BY <2>1, <2>3, <2>4, <2>5, SetsMove DEF CountStep
<1>6. ASSUME NEW p \in Procs, NEW d \in Dispatches, Take(p, d)
      PROVE  CountStep(d2)
  <2>1. \A q \in Procs \ {p} : job'[q] = job[q]
    BY <1>6 DEF Take, TypeOK
  <2>2. job[p] \in Job /\ JobOK(job[p]) /\ HeldExist(p)
    BY DEF TypeOK, JobsOK
  <2>3. status'[d2] = status[d2] /\ shown'[d2] = shown[d2] /\ faults' = faults
    BY <1>6 DEF Take, TypeOK
  <2>4. status[d2] = "pending" => (Past(job[p], d2) => Past(job'[p], d2))
    BY <1>6, <2>2 DEF Take, TypeOK, Past, NextOf, Sending, Job, JobOK
  <2>5. Settled(d2) => (Ahead(job'[p], d2) => Ahead(job[p], d2))
    BY <1>6, <2>2, DispatchAssumption DEF Take, TypeOK, Ahead, Settled, NextOf, Sending, Job, JobOK
  <2> QED
    BY <2>1, <2>3, <2>4, <2>5, SetsMove DEF CountStep
<1>7. ASSUME NEW p \in Procs, Deliver(p)
      PROVE  CountStep(d2)
  <2>1. \A q \in Procs \ {p} : job'[q] = job[q]
    BY <1>7 DEF Deliver, TypeOK
  <2>2. job[p] \in Job /\ JobOK(job[p]) /\ HeldExist(p)
    BY DEF TypeOK, JobsOK
  <2>3. PICK at \in {"delivered", "broken"} : job' = [job EXCEPT ![p].at = at]
    BY <1>7 DEF Deliver
  <2>4. /\ job[p].at = "send" /\ ~Dry(job[p]) /\ job[p].now \in Dispatches
        /\ Sending(job[p])
    BY <1>7, <2>2, NowIsADispatch DEF Deliver, JobOK, Sending
  <2>5. job'[p] = [job[p] EXCEPT !.at = at]
    BY <2>3 DEF TypeOK
  <2>6. status'[d2] = status[d2] /\ faults' = faults
    BY <1>7 DEF Deliver
  <2>7. CASE d2 = job[p].now
    <3>1. shown'[d2] = shown[d2] + 1
      BY <1>7, <2>7 DEF Deliver, TypeOK
    <3>2. Ahead(job[p], d2) /\ ~Past(job[p], d2)
      BY <2>4, <2>7 DEF Ahead, Past
    <3>3. Past(job'[p], d2)
      BY <2>2, <2>4, <2>5, <2>7 DEF Past, Sending, Job
    <3>4. ~Ahead(job'[p], d2)
      BY <2>2, <2>5, <2>7 DEF Ahead, Sending, Job, JobOK
    <3>5. status[d2] # "absent"
      BY <2>2, <2>4, <2>7, DispatchAssumption DEF HeldExist
    <3> QED
      BY <2>1, <2>6, <3>1, <3>2, <3>3, <3>4, <3>5, SetsMove DEF CountStep
  <2>8. CASE d2 # job[p].now
    <3>1. shown'[d2] = shown[d2]
      BY <1>7, <2>8 DEF Deliver, TypeOK
    <3>2. ~Past(job[p], d2)
      BY <2>8 DEF Past
    <3>3. Ahead(job'[p], d2) => Ahead(job[p], d2)
      BY <2>2, <2>5, <2>8 DEF Ahead, Sending, Job
    <3> QED
      BY <2>1, <2>6, <3>1, <3>2, <3>3, SetsMove DEF CountStep
  <2> QED
    BY <2>7, <2>8
<1>8. ASSUME NEW p \in Procs, Break(p)
      PROVE  CountStep(d2)
  <2>1. \A q \in Procs \ {p} : job'[q] = job[q]
    BY <1>8 DEF Break, TypeOK
  <2>2. job[p] \in Job /\ JobOK(job[p]) /\ HeldExist(p)
    BY DEF TypeOK, JobsOK
  <2>3. status'[d2] = status[d2] /\ shown'[d2] = shown[d2] /\ faults' = faults
    BY <1>8, NowIsADispatch DEF Break, TypeOK
  <2>4. status[d2] = "pending" => (Past(job[p], d2) => Past(job'[p], d2))
    BY <1>8, <2>2 DEF Break, TypeOK, Past, Sending, Job, JobOK
  <2>5. Settled(d2) => (Ahead(job'[p], d2) => Ahead(job[p], d2))
    BY <1>8, <2>2, DispatchAssumption DEF Break, TypeOK, Ahead, Settled, Sending, Job, JobOK
  <2> QED
    BY <2>1, <2>3, <2>4, <2>5, SetsMove DEF CountStep
<1>9. ASSUME NEW p \in Procs, LogPreview(p)
      PROVE  CountStep(d2)
  <2>1. \A q \in Procs \ {p} : job'[q] = job[q]
    BY <1>9 DEF LogPreview, TypeOK
  <2>2. job[p] \in Job /\ JobOK(job[p]) /\ HeldExist(p)
    BY DEF TypeOK, JobsOK
  <2>3. status'[d2] = status[d2] /\ shown'[d2] = shown[d2] /\ faults' = faults
    BY <1>9 DEF LogPreview, TypeOK
  <2>4. ~Past(job[p], d2)
    BY <1>9 DEF LogPreview, Past, Sending
  <2>5. job'[p] = Done(job[p])
    BY <1>9 DEF LogPreview, TypeOK
  <2>6. Ahead(job'[p], d2) => Ahead(job[p], d2)
    BY <2>2, <2>5, DoneIsLess
  <2> QED
    BY <2>1, <2>3, <2>4, <2>6, SetsMove DEF CountStep
<1>10. ASSUME NEW p \in Procs, LogSent(p)
      PROVE  CountStep(d2)
  <2>1. \A q \in Procs \ {p} : job'[q] = job[q]
    BY <1>10 DEF LogSent, TypeOK
  <2>2. job[p] \in Job /\ JobOK(job[p]) /\ HeldExist(p)
    BY DEF TypeOK, JobsOK
  <2>3. status'[d2] = status[d2] /\ shown'[d2] = shown[d2] /\ faults' = faults
    BY <1>10, NowIsADispatch DEF LogSent, TypeOK
  <2>4. status[d2] = "pending" => (Past(job[p], d2) => Past(job'[p], d2))
    BY <1>10, <2>2 DEF LogSent, TypeOK, Past, Sending, Job, JobOK
  <2>5. Settled(d2) => (Ahead(job'[p], d2) => Ahead(job[p], d2))
    BY <1>10, <2>2, DispatchAssumption DEF LogSent, TypeOK, Ahead, Settled, Sending, Job, JobOK
  <2> QED
    BY <2>1, <2>3, <2>4, <2>5, SetsMove DEF CountStep
<1>11. ASSUME NEW p \in Procs, MarkSent(p)
      PROVE  CountStep(d2)
  <2>1. \A q \in Procs \ {p} : job'[q] = job[q]
    BY <1>11 DEF MarkSent, TypeOK
  <2>2. job[p] \in Job /\ JobOK(job[p]) /\ HeldExist(p)
    BY DEF TypeOK, JobsOK
  <2>3. shown'[d2] = shown[d2] /\ faults' = faults /\ job[p].now \in Dispatches
    BY <1>11, NowIsADispatch DEF MarkSent
  <2>4. job'[p] = Done(job[p])
    BY <1>11 DEF MarkSent, TypeOK
  <2>5. Ahead(job'[p], d2) => Ahead(job[p], d2)
    BY <2>2, <2>4, DoneIsLess
  <2>6. CASE d2 = job[p].now
    <3>1. status'[d2] = "sent" /\ status[d2] # "absent"
      BY <1>11, <2>2, <2>3, <2>6, DispatchAssumption DEF MarkSent, Marked, TypeOK, HeldExist
    <3> QED
      BY <2>1, <2>3, <2>5, <3>1, SetsMove DEF CountStep, Settled
  <2>7. CASE d2 # job[p].now
    <3>1. status'[d2] = status[d2]
      BY <1>11, <2>7 DEF MarkSent, Marked, TypeOK
    <3>2. ~Past(job[p], d2)
      BY <2>7 DEF Past
    <3> QED
      BY <2>1, <2>3, <2>5, <3>1, <3>2, SetsMove DEF CountStep
  <2> QED
    BY <2>6, <2>7
<1>12. ASSUME NEW p \in Procs, LogFailed(p)
      PROVE  CountStep(d2)
  <2>1. \A q \in Procs \ {p} : job'[q] = job[q]
    BY <1>12 DEF LogFailed, TypeOK
  <2>2. job[p] \in Job /\ JobOK(job[p]) /\ HeldExist(p)
    BY DEF TypeOK, JobsOK
  <2>3. status'[d2] = status[d2] /\ shown'[d2] = shown[d2] /\ faults' = faults
    BY <1>12, NowIsADispatch DEF LogFailed, TypeOK
  <2>4. status[d2] = "pending" => (Past(job[p], d2) => Past(job'[p], d2))
    BY <1>12, <2>2 DEF LogFailed, TypeOK, Past, Sending, Job, JobOK
  <2>5. Settled(d2) => (Ahead(job'[p], d2) => Ahead(job[p], d2))
    BY <1>12, <2>2, DispatchAssumption DEF LogFailed, TypeOK, Ahead, Settled, Sending, Job, JobOK
  <2> QED
    BY <2>1, <2>3, <2>4, <2>5, SetsMove DEF CountStep
<1>13. ASSUME NEW p \in Procs, MarkFailed(p)
      PROVE  CountStep(d2)
  <2>1. \A q \in Procs \ {p} : job'[q] = job[q]
    BY <1>13 DEF MarkFailed, TypeOK
  <2>2. job[p] \in Job /\ JobOK(job[p]) /\ HeldExist(p)
    BY DEF TypeOK, JobsOK
  <2>3. shown'[d2] = shown[d2] /\ faults' = faults /\ job[p].now \in Dispatches
    BY <1>13, NowIsADispatch DEF MarkFailed
  <2>4. job'[p] = GivenUp(job[p])
    BY <1>13 DEF MarkFailed, TypeOK
  <2>5. Ahead(job'[p], d2) => Ahead(job[p], d2)
    BY <2>2, <2>4, DoneIsLess
  <2>6. CASE d2 = job[p].now
    <3>1. status'[d2] = "failed" /\ status[d2] # "absent"
      BY <1>13, <2>2, <2>3, <2>6, DispatchAssumption DEF MarkFailed, Marked, TypeOK, HeldExist
    <3> QED
      BY <2>1, <2>3, <2>5, <3>1, SetsMove DEF CountStep, Settled
  <2>7. CASE d2 # job[p].now
    <3>1. status'[d2] = status[d2]
      BY <1>13, <2>7 DEF MarkFailed, Marked, TypeOK
    <3>2. ~Past(job[p], d2)
      BY <2>7 DEF Past
    <3> QED
      BY <2>1, <2>3, <2>5, <3>1, <3>2, SetsMove DEF CountStep
  <2> QED
    BY <2>6, <2>7
<1>14. ASSUME NEW p \in Procs, WriteFails(p)
      PROVE  CountStep(d2)
  <2>1. \A q \in Procs \ {p} : job'[q] = job[q]
    BY <1>14 DEF WriteFails, TypeOK
  <2>2. job[p] \in Job /\ JobOK(job[p]) /\ HeldExist(p)
    BY DEF TypeOK, JobsOK
  <2>3. status'[d2] = status[d2] /\ shown'[d2] = shown[d2] /\ faults' = faults + 1
    BY <1>14 DEF WriteFails
  <2>4. Ahead(job'[p], d2) => Ahead(job[p], d2)
    <3>1. CASE job' = [job EXCEPT ![p].at = "broken"]
      BY <2>2, <3>1 DEF Ahead, Sending, Job, TypeOK
    <3>2. CASE job' = [job EXCEPT ![p] = GivenUp(@)]
      <4>1. job'[p] = GivenUp(job[p])
        BY <3>2 DEF TypeOK
      <4> QED
        BY <2>2, <4>1, DoneIsLess
    <3> QED
      BY <1>14, <3>1, <3>2 DEF WriteFails
  <2> QED
    BY <2>1, <2>3, <2>4, SetsMove DEF CountStep
<1>15. ASSUME NEW p \in Procs, NEW d \in Dispatches, AskCancel(p, d)
      PROVE  CountStep(d2)
  <2>1. \A q \in Procs \ {p} : job'[q] = job[q]
    BY <1>15 DEF AskCancel, TypeOK
  <2>2. job[p] \in Job /\ JobOK(job[p]) /\ HeldExist(p)
    BY DEF TypeOK, JobsOK
  <2>3. status'[d2] = status[d2] /\ shown'[d2] = shown[d2] /\ faults' = faults
    BY <1>15 DEF AskCancel, TypeOK
  <2>4. status[d2] = "pending" => (Past(job[p], d2) => Past(job'[p], d2))
    BY <1>15, <2>2 DEF AskCancel, TypeOK, Past, Resting, Sending
  <2>5. Settled(d2) => (Ahead(job'[p], d2) => Ahead(job[p], d2))
    BY <1>15, <2>2, DispatchAssumption DEF AskCancel, TypeOK, Ahead, Settled, Resting, Sending
  <2> QED
    BY <2>1, <2>3, <2>4, <2>5, SetsMove DEF CountStep
<1>16. ASSUME NEW p \in Procs, Cancel(p)
      PROVE  CountStep(d2)
  <2>1. \A q \in Procs \ {p} : job'[q] = job[q]
    BY <1>16 DEF Cancel, TypeOK
  <2>2. job[p] \in Job /\ JobOK(job[p]) /\ HeldExist(p)
    BY DEF TypeOK, JobsOK
  <2>3. shown'[d2] = shown[d2] /\ faults' = faults /\ job[p].now \in Dispatches
    BY <1>16, NowIsADispatch DEF Cancel
  <2>4. job'[p] = Resting
    BY <1>16 DEF Cancel, TypeOK
  <2>5. Ahead(job'[p], d2) => Ahead(job[p], d2)
    BY <2>4 DEF Ahead, Sending, Resting
  <2>6. CASE d2 = job[p].now
    <3>1. status'[d2] = "cancelled" /\ status[d2] # "absent"
      BY <1>16, <2>2, <2>3, <2>6, DispatchAssumption DEF Cancel, Marked, TypeOK, HeldExist
    <3> QED
      BY <2>1, <2>3, <2>5, <3>1, SetsMove DEF CountStep, Settled
  <2>7. CASE d2 # job[p].now
    <3>1. status'[d2] = status[d2]
      BY <1>16, <2>7 DEF Cancel, Marked, TypeOK
    <3>2. ~Past(job[p], d2)
      BY <2>7 DEF Past
    <3> QED
      BY <2>1, <2>3, <2>5, <3>1, <3>2, SetsMove DEF CountStep
  <2> QED
    BY <2>6, <2>7
<1>17. ASSUME NEW p \in Procs, Crash(p)
      PROVE  CountStep(d2)
  <2>1. \A q \in Procs \ {p} : job'[q] = job[q]
    BY <1>17 DEF Crash, TypeOK
  <2>2. job[p] \in Job /\ JobOK(job[p]) /\ HeldExist(p)
    BY DEF TypeOK, JobsOK
  <2>3. status'[d2] = status[d2] /\ shown'[d2] = shown[d2] /\ faults' = faults + 1
    BY <1>17 DEF Crash
  <2>4. ~Ahead(job'[p], d2)
    BY <1>17 DEF Crash, Ahead, Resting, Sending, TypeOK
  <2> QED
    BY <2>1, <2>3, <2>4, SetsMove DEF CountStep
<1>18. CASE UNCHANGED vars
  BY <1>18 DEF vars, CountStep, Before, After
<1>19. QED
  BY <1>1, <1>2, <1>3, <1>4, <1>5, <1>6, <1>7, <1>8, <1>9, <1>10, <1>11, <1>12, <1>13,
     <1>14, <1>15, <1>16, <1>17, <1>18 DEF Next, Proceed

-----------------------------------------------------------------------------
(* Theorems *)

LEMMA Start == Init => IInv /\ CInv
<1> SUFFICES ASSUME Init PROVE IInv /\ CInv
  OBVIOUS
<1>1. TypeOK
  BY RestingTyped, DispatchAssumption DEF Init, TypeOK
<1>2. JobsOK
  BY RestingOK DEF Init, JobsOK, HeldExist, Known, Resting
<1>3. SentWasShown /\ CInv
  BY DEF Init, SentWasShown, CInv, Counted, Settled
<1> QED
  BY <1>1, <1>2, <1>3 DEF IInv

LEMMA Kept == IInv /\ CInv /\ [Next]_vars => IInv' /\ CInv'
<1> SUFFICES ASSUME IInv, CInv, [Next]_vars PROVE IInv' /\ CInv'
  OBVIOUS
<1>1. IInv'
  BY TypeStep, JobsStep, SentStep DEF IInv
<1>2. CInv'
  BY CountSteps, CountKept DEF IInv, CInv
<1> QED
  BY <1>1, <1>2

THEOREM Inductive == Spec => [](IInv /\ CInv)
BY Start, Kept, PTL DEF Spec

(* Rows, counters and jobs keep their types, for any dispatches, callers and   *)
(* bound of faults.                                                            *)
THEOREM TypeCorrect == Spec => []TypeOK
<1>1. IInv /\ CInv => TypeOK
  BY DEF IInv
<1> QED
  BY <1>1, Inductive, PTL

(* executeDispatch writes "sent" only after the text was in the window and the *)
(* log said so, wherever its process dies and whichever write fails.           *)
THEOREM SentWasShownAlways == Spec => []SentWasShown
<1>1. IInv /\ CInv => SentWasShown
  BY DEF IInv
<1> QED
  BY <1>1, Inductive, PTL

(* However many callers run what is due, a message is typed at most once for   *)
(* each of them and once more for each death or failed write.                  *)
THEOREM RepeatsHaveACauseAlways == Spec => []RepeatsHaveACause
<1>1. IInv /\ CInv => RepeatsHaveACause
  <2> SUFFICES ASSUME IInv, CInv, NEW d \in Dispatches
               PROVE  shown[d] <= Cardinality(Procs) + faults
    BY DEF RepeatsHaveACause
  <2>1. /\ shown[d] \in Nat /\ faults \in Nat /\ status[d] \in Statuses
        /\ Cardinality(Before(d)) \in Nat /\ Cardinality(After(d)) \in Nat
        /\ Cardinality(Procs) \in Nat
    BY Sizes, DispatchAssumption DEF IInv, TypeOK
  <2>2. Cardinality(Before(d)) + Cardinality(After(d)) <= Cardinality(Procs)
    BY Together DEF IInv
  <2> QED
    BY <2>1, <2>2 DEF CInv, Counted, Settled
<1> QED
  BY <1>1, Inductive, PTL

(* What was sent, has failed or was cancelled is not sent again by a call that *)
(* begins afterwards: runDueDispatches takes pending rows only, and nothing    *)
(* makes a row pending twice.                                                  *)
THEOREM SettledIsQuietAlways == Spec => SettledIsQuiet
<1> DEFINE Stays ==
         \A d \in Dispatches : Quiet(d) => Quiet(d)' /\ shown'[d] = shown[d]
<1>1. IInv /\ CInv /\ [Next]_vars => [Stays]_vars
  <2> SUFFICES ASSUME IInv, [Next]_vars, NEW d \in Dispatches, Quiet(d)
               PROVE  Quiet(d)' /\ shown'[d] = shown[d]
    OBVIOUS
  <2>1. CountStep(d)
    BY CountSteps DEF IInv
  <2>2. Before(d) = {} /\ Settled(d)
    BY DEF Before, Ahead, Sending, Senders, Quiet, Settled
  <2>3. Before(d)' = {} /\ Settled(d)' /\ shown'[d] = shown[d]
    BY <2>1, <2>2 DEF CountStep, Settled
  <2> QED
    BY <2>3 DEF Before, Ahead, Sending, Senders, Quiet, Settled
<1>2. Spec => [][Stays]_vars
  BY <1>1, Inductive, PTL DEF Spec
<1> QED
  BY <1>2 DEF SettledIsQuiet
=============================================================================
