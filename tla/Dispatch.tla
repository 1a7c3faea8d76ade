------------------------------ MODULE Dispatch ------------------------------
(***************************************************************************)
(* src/lib/dispatch.ts and src/db/dispatches.ts: messages typed into tmux  *)
(* windows, at once or when they fall due.  A sender awaits tmux between   *)
(* its reading of a dispatch and its two writes, the log and the status,   *)
(* neither of which looks at the row again.                                *)
(***************************************************************************)
EXTENDS Integers, FiniteSets

CONSTANTS
    Dispatches,
    Procs,          \* calls in progress, of one process or of several
    Sweepers,       \* those among them that only ever run what is due
    MaxFaults,      \* bound of the processes that die and of the writes that fail
    None

ASSUME DispatchAssumption ==
    /\ IsFiniteSet(Procs)
    /\ Sweepers \subseteq Procs
    /\ None \notin Dispatches
    /\ MaxFaults \in Nat

VARIABLES
    status,         \* the column of dispatches; "absent" before the row is created
    due,            \* scheduled_at is NULL or has passed
    logged,         \* the statuses in dispatch_logs
    shown,          \* how often the text reached the window (tmux keeps that)
    job,            \* what each call is doing
    faults

vars == <<status, due, logged, shown, job, faults>>

Statuses == {"absent", "pending", "sent", "failed", "cancelled"}
Resting == [kind |-> "none", left |-> {}, now |-> None, at |-> "rest"]
Job == [kind : {"none", "sweep", "preview", "fanout", "rehearsal", "cancel"},
        left : SUBSET Dispatches, now : Dispatches \cup {None},
        at : {"rest", "send", "delivered", "logged", "broken", "regret"}]

----------------------------------------------------------------------------
\* Mutant of Due: a dispatch that failed is tried again.
DueOrFailed(d) == status[d] \in {"pending", "failed"} /\ due[d]

\* Mutant of Due: a dispatch with an entry in the log counts as done.
DueUnlogged(d) == status[d] = "pending" /\ due[d] /\ logged[d] = {}

\* opts.dryRun, of a sweep and of a fan-out.
Dry(j) == j.kind \in {"preview", "rehearsal"}

\* getDueDispatches.
Due(d) == status[d] = "pending" /\ due[d]

\* What a call turns to when it is through with a dispatch: a sweep goes on after a
\* failure too, a fan-out stops there.
NextOf(j, d) == [j EXCEPT !.left = @ \ {d}, !.now = d, !.at = "send"]
Done(j) == IF j.left = {} THEN Resting ELSE [j EXCEPT !.now = None, !.at = "rest"]
GivenUp(j) == IF j.kind \in {"fanout", "rehearsal"} THEN Resting ELSE Done(j)

\* Mutant of Marked: a status the CHECK of the column does not list.
MarkedRaw(d, s) == [status EXCEPT ![d] = IF s = "failed" THEN "error" ELSE s]

Marked(d, s) == [status EXCEPT ![d] = s]

Init ==
    /\ status = [d \in Dispatches |-> "absent"]
    /\ due = [d \in Dispatches |-> FALSE]
    /\ logged = [d \in Dispatches |-> {}]
    /\ shown = [d \in Dispatches |-> 0]
    /\ job = [p \in Procs |-> Resting]
    /\ faults = 0

\* uuid(): an id is nobody's before its row is created.
Unused(d) == status[d] = "absent" /\ \A p \in Procs : d \notin job[p].left

\* createDispatch for later.
Schedule(d) ==
    /\ Unused(d)
    /\ status' = Marked(d, "pending")
    /\ UNCHANGED <<due, logged, shown, job, faults>>

FallDue(d) ==
    /\ status[d] # "absent" /\ ~due[d]
    /\ due' = [due EXCEPT ![d] = TRUE]
    /\ UNCHANGED <<status, logged, shown, job, faults>>

\* dispatchToMultiple, and with one target what the CLI and the MCP tool do without a
\* time: rows are created one by one, for a dry run too, and executed whatever their
\* time is.
FanOut(p, kind, targets) ==
    /\ job[p] = Resting /\ p \notin Sweepers
    /\ \A d \in targets : Unused(d)
    /\ job' = [job EXCEPT ![p] = [Resting EXCEPT !.kind = kind, !.left = targets]]
    /\ UNCHANGED <<status, due, logged, shown, faults>>

CreateNext(p, d) ==
    /\ job[p].kind \in {"fanout", "rehearsal"} /\ job[p].at = "rest"
    /\ d \in job[p].left /\ status[d] = "absent"
    /\ status' = Marked(d, "pending")
    /\ \E b \in BOOLEAN : due' = [due EXCEPT ![d] = b]
    /\ job' = [job EXCEPT ![p] = NextOf(@, d)]
    /\ UNCHANGED <<logged, shown, faults>>

\* runDueDispatches, for real or as a dry run: one SELECT for all that follows.
Sweep(p, kind) ==
    LET found == {d \in Dispatches : Due(d)}
    IN  /\ job[p] = Resting
        /\ kind = "preview" => p \notin Sweepers
        /\ found # {}
        /\ job' = [job EXCEPT ![p] = [Resting EXCEPT !.kind = kind, !.left = found]]
        /\ UNCHANGED <<status, due, logged, shown, faults>>

Take(p, d) ==
    /\ job[p].kind \in {"sweep", "preview"} /\ job[p].at = "rest"
    /\ d \in job[p].left
    /\ job' = [job EXCEPT ![p] = NextOf(@, d)]
    /\ UNCHANGED <<status, due, logged, shown, faults>>

\* sendToTmux.  It may fail before the text is typed, or after it, when Enter does.
Deliver(p) ==
    /\ job[p].at = "send" /\ ~Dry(job[p])
    /\ shown' = [shown EXCEPT ![job[p].now] = @ + 1]
    /\ \E at \in {"delivered", "broken"} : job' = [job EXCEPT ![p].at = at]
    /\ UNCHANGED <<status, due, logged, faults>>

Break(p) ==
    /\ job[p].at = "send" /\ ~Dry(job[p])
    /\ job' = [job EXCEPT ![p].at = "broken"]
    /\ UNCHANGED <<status, due, logged, shown, faults>>

\* A dry run sends nothing, logs "sent" and leaves the status alone.
LogPreview(p) ==
    /\ job[p].at = "send" /\ Dry(job[p])
    /\ logged' = [logged EXCEPT ![job[p].now] = @ \cup {"sent"}]
    /\ job' = [job EXCEPT ![p] = Done(@)]
    /\ UNCHANGED <<status, due, shown, faults>>

LogSent(p) ==
    /\ job[p].at = "delivered"
    /\ logged' = [logged EXCEPT ![job[p].now] = @ \cup {"sent"}]
    /\ job' = [job EXCEPT ![p].at = "logged"]
    /\ UNCHANGED <<status, due, shown, faults>>

\* Mutant of MarkSent: the status is written whether or not the message was sent.
MarkSentAnyway(p) ==
    /\ job[p].at \in {"logged", "broken"}
    /\ status' = Marked(job[p].now, "sent")
    /\ job' = [job EXCEPT ![p] = Done(@)]
    /\ UNCHANGED <<due, logged, shown, faults>>

MarkSent(p) ==
    /\ job[p].at = "logged"
    /\ status' = Marked(job[p].now, "sent")
    /\ job' = [job EXCEPT ![p] = Done(@)]
    /\ UNCHANGED <<due, logged, shown, faults>>

LogFailed(p) ==
    /\ job[p].at = "broken"
    /\ logged' = [logged EXCEPT ![job[p].now] = @ \cup {"failed"}]
    /\ job' = [job EXCEPT ![p].at = "regret"]
    /\ UNCHANGED <<status, due, shown, faults>>

\* Mutant of MarkFailed: a failure queues the dispatch again.
MarkFailedForRetry(p) ==
    /\ job[p].at = "regret"
    /\ status' = Marked(job[p].now, "pending")
    /\ job' = [job EXCEPT ![p] = GivenUp(@)]
    /\ UNCHANGED <<due, logged, shown, faults>>

MarkFailed(p) ==
    /\ job[p].at = "regret"
    /\ status' = Marked(job[p].now, "failed")
    /\ job' = [job EXCEPT ![p] = GivenUp(@)]
    /\ UNCHANGED <<due, logged, shown, faults>>

\* A write throws: of the first two that is a failed dispatch, whatever was typed; of
\* the last two it leaves the dispatch as it is.
WriteFails(p) ==
    /\ faults < MaxFaults
    /\ faults' = faults + 1
    /\ \/ /\ job[p].at \in {"delivered", "logged"} \/ (job[p].at = "send" /\ Dry(job[p]))
          /\ job' = [job EXCEPT ![p].at = "broken"]
       \/ /\ job[p].at \in {"broken", "regret"}
          /\ job' = [job EXCEPT ![p] = GivenUp(@)]
    /\ UNCHANGED <<status, due, logged, shown>>

\* cancelDispatch: a SELECT, and an UPDATE by id that does not look again.
Cancellable(d) == status[d] \in {"pending", "failed"}

AskCancel(p, d) ==
    /\ job[p] = Resting /\ p \notin Sweepers
    /\ Cancellable(d)
    /\ job' = [job EXCEPT ![p] = [Resting EXCEPT !.kind = "cancel", !.now = d]]
    /\ UNCHANGED <<status, due, logged, shown, faults>>

Cancel(p) ==
    /\ job[p].kind = "cancel"
    /\ status' = Marked(job[p].now, "cancelled")
    /\ job' = [job EXCEPT ![p] = Resting]
    /\ UNCHANGED <<due, logged, shown, faults>>

Crash(p) ==
    /\ job[p] # Resting
    /\ faults < MaxFaults
    /\ faults' = faults + 1
    /\ job' = [job EXCEPT ![p] = Resting]
    /\ UNCHANGED <<status, due, logged, shown>>

\* What a call that was begun does next.
Proceed(p) ==
    \/ \E d \in Dispatches : CreateNext(p, d) \/ Take(p, d)
    \/ Deliver(p) \/ Break(p) \/ LogPreview(p)
    \/ LogSent(p) \/ MarkSent(p) \/ LogFailed(p) \/ MarkFailed(p) \/ Cancel(p)

Next ==
    \/ \E d \in Dispatches : Schedule(d) \/ FallDue(d)
    \/ \E p \in Procs :
         \/ Proceed(p) \/ WriteFails(p) \/ Crash(p)
         \/ Sweep(p, "sweep") \/ Sweep(p, "preview")
         \/ \E targets \in (SUBSET Dispatches) \ {{}} : FanOut(p, "fanout", targets) \/ FanOut(p, "rehearsal", targets)
         \/ \E d \in Dispatches : AskCancel(p, d)

Spec == Init /\ [][Next]_vars

\* tmux answers, and somebody calls run_due_dispatches again and again: the code has no
\* timer of its own.
FairSpec ==
    /\ Spec
    /\ \A p \in Procs : WF_vars(Proceed(p))
    /\ \A p \in Sweepers : WF_vars(Sweep(p, "sweep"))

----------------------------------------------------------------------------
\* The calls that will still show d.
Senders(d) ==
    {p \in Procs :
        /\ job[p].kind \in {"sweep", "fanout"}
        /\ d \in job[p].left \/ (d = job[p].now /\ job[p].at = "send")}

Quiet(d) == status[d] \notin {"absent", "pending"} /\ Senders(d) = {}

\* Rows and jobs have their types.
TypeOK ==
    /\ status \in [Dispatches -> Statuses]
    /\ due \in [Dispatches -> BOOLEAN]
    /\ logged \in [Dispatches -> SUBSET {"sent", "failed"}]
    /\ shown \in [Dispatches -> Nat]
    /\ job \in [Procs -> Job]
    /\ faults \in 0 .. MaxFaults

\* "Sent" is never claimed before the fact: the text was in the window and the log says
\* so before the status does, wherever a process dies.
SentWasShown ==
    \A d \in Dispatches : status[d] = "sent" => shown[d] > 0 /\ "sent" \in logged[d]

\* A message is repeated only for a reason: every copy beyond the first has a rival that
\* read the dispatch before it was settled, or a process that died or could not write
\* while it held it.
RepeatsHaveACause ==
    \A d \in Dispatches : shown[d] <= Cardinality(Procs) + faults

\* A dispatch that was sent, failed or was cancelled is settled for good once those that
\* read it before have sent it: no call takes it up again and no copy follows.
SettledIsQuiet ==
    [][\A d \in Dispatches : Quiet(d) => Quiet(d)' /\ shown'[d] = shown[d]]_vars

\* What is due is settled in the end: no failure of another dispatch, dry run, rival or
\* dead process leaves it pending for ever.
DueIsSettled ==
    \A d \in Dispatches : status[d] = "pending" /\ due[d] ~> status[d] # "pending"
=============================================================================
