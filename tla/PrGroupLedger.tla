--------------------------- MODULE PrGroupLedger ---------------------------
(***************************************************************************)
(* The ledger of one PR group: successive writers (attempts, each with its *)
(* own generation) work towards one merge, reviewers judge exact heads, a  *)
(* merge operator acts on an approval, and the end of the group is final.  *)
(*                                                                         *)
(* Every call is one transaction over the locked group row, so every call  *)
(* is one action.  A refused call and the replay of a recorded one change  *)
(* nothing.  Timestamps come from the callers, who may always bring later  *)
(* ones: the checks on them refuse calls and forbid no sequence of calls.  *)
(***************************************************************************)
EXTENDS Integers, Sequences

CONSTANTS
    Attempts,     \* attempts; an attempt stands for its writer generation too
    Heads,        \* commits under review
    Actors,       \* reviewers and merge operators, each with its run
    Verdicts,     \* outcomes a reviewer gives
    RepairLimit,  \* PR_GROUP_REPAIR_CYCLE_LIMIT
    MaxLog,       \* bound on the receipts of the group
    None          \* NULL

ASSUME LedgerAssumption ==
    /\ Verdicts \subseteq {"approved", "changes_requested", "dismissed"}
    /\ RepairLimit \in Nat
    /\ MaxLog \in Nat
    /\ None \notin Attempts \cup Heads \cup Actors
    /\ None \notin {"merged", "cancelled", "failed", "no_go"}

VARIABLES
    group,    \* the row of pr_groups
    attempt,  \* status of each attempt; "none" before it is admitted
    log       \* receipts in the order of their sequence numbers

vars == <<group, attempt, log>>

Outcomes == {"merged", "cancelled", "failed", "no_go"}
States == Outcomes \cup
    {"absent", "admitted", "started", "in_progress", "handed_off", "review_requested",
     "reviewed", "repair", "merge_ready", "merge_not_merged", "cleanup_eligible"}
Working == {"admitted", "started", "in_progress", "handed_off", "reviewing", "repair",
            "merge_ready"}
Statuses == Working \cup Outcomes \cup {"none", "fenced"}

Group == [state : States, active : Attempts \cup {None}, repairs : 0..RepairLimit,
          outcome : Outcomes \cup {None}, endedBy : Attempts \cup {None},
          head : Heads \cup {None}]

Receipt == [type : {"review_requested", "review_receipt", "conditional_merge_receipt",
                    "merge_outcome"},
            by : Attempts, head : Heads,
            actor : Actors \cup {None},     \* None for a request
            expected : Actors \cup {None},  \* the reviewer a request names
            outcome : Verdicts \cup {"merged", "not_merged", None},
            key : Nat,                      \* receipt_key, 0 for none
            bound : Nat]                    \* the receipt_key it relies on, 0 for none

----------------------------------------------------------------------------
Init ==
    /\ group = [state |-> "absent", active |-> None, repairs |-> 0,
                outcome |-> None, endedBy |-> None, head |-> None]
    /\ attempt = [a \in Attempts |-> "none"]
    /\ log = <<>>

\* assertLegalTransition, for the events that are no end of the group.
Legal == [s \in States |->
    CASE s = "admitted" -> {"started", "progress", "heartbeat", "handoff"}
      [] s \in {"started", "in_progress"} -> {"progress", "heartbeat", "handoff"}
      [] s = "handed_off" -> {"review_requested"}
      [] s = "review_requested" -> {"review_receipt"}
      [] s = "reviewed" -> {"review_receipt", "repair_accepted", "repair_rejected",
                            "conditional_merge_receipt"}
      [] s = "repair" -> {"progress", "heartbeat", "handoff", "repair_rejected"}
      [] s = "merge_ready" -> {"merge_outcome"}
      [] s = "merge_not_merged" -> {"review_requested"}
      [] OTHER -> {}]

\* Mutant of Owns: any admitted generation writes.
OwnsAdmitted(a) == group.outcome = None /\ attempt[a] # "none"

\* The writer fence: only the active attempt of a group that has not ended writes.
Owns(a) == group.outcome = None /\ group.active = a

MayAppend(a, type) == Owns(a) /\ type \in Legal[group.state]

\* findEvent: the latest receipt of a type that an attempt has in the log.
Latest(i, a, type) ==
    /\ i \in DOMAIN log
    /\ log[i].by = a /\ log[i].type = type
    /\ \A j \in DOMAIN log : log[j].by = a /\ log[j].type = type => j <= i

BoundKeys == {log[i].key : i \in DOMAIN log} \ {0}

\* A caller brings a key of its own or repeats one; a bound key is refused.
OfferedKeys == BoundKeys \cup {Len(log) + 1}
Unbound(k) == k \notin BoundKeys

Record(e) == Len(log) < MaxLog /\ log' = Append(log, e)

Advance(a, state, status) ==
    /\ group' = [group EXCEPT !.state = state]
    /\ attempt' = [attempt EXCEPT ![a] = status]

\* Mutant of EndHead: only a no-go keeps its head.
EndHeadNoGo(outcome, h) == IF outcome = "no_go" THEN h ELSE None

EndHead(outcome, h) == IF outcome \in {"merged", "no_go"} THEN h ELSE None

\* Mutant of Ended: the writer stays active.
EndedActive(a, outcome, h) ==
    [group EXCEPT !.state = outcome, !.outcome = outcome, !.endedBy = a,
                  !.head = EndHead(outcome, h)]

Ended(a, outcome, h) ==
    [group EXCEPT !.state = outcome, !.outcome = outcome, !.endedBy = a,
                  !.head = EndHead(outcome, h), !.active = None]

End(a, outcome, h) ==
    /\ group' = Ended(a, outcome, h)
    /\ attempt' = [attempt EXCEPT ![a] = outcome]

----------------------------------------------------------------------------
\* Mutant of Admissible: whatever group has no writer takes one.
AdmissibleIdle == group.active = None

Admissible == group.state = "absent"

\* admit creates the group; with a group there it adopts its own earlier admission
\* or is refused.
Admit(a) ==
    /\ Admissible
    /\ attempt[a] = "none"
    /\ group' = [group EXCEPT !.state = "admitted", !.active = a]
    /\ attempt' = [attempt EXCEPT ![a] = "admitted"]
    /\ UNCHANGED log

\* Mutant of Fenced: the previous attempt keeps its status.
FencedNot(a, b) == [attempt EXCEPT ![b] = "admitted"]

Fenced(a, b) == [attempt EXCEPT ![a] = "fenced", ![b] = "admitted"]

\* A new generation takes over from a writer whose lease ran out.
Recover(a, b) ==
    /\ Owns(a)
    /\ attempt[b] = "none"
    /\ group' = [group EXCEPT !.state = "admitted", !.active = b]
    /\ attempt' = Fenced(a, b)
    /\ UNCHANGED log

Progress(a) ==
    /\ \/ MayAppend(a, "started") /\ Advance(a, "started", "started")
       \/ /\ MayAppend(a, "progress") \/ MayAppend(a, "heartbeat")
          /\ Advance(a, "in_progress", "in_progress")
       \/ MayAppend(a, "handoff") /\ Advance(a, "handed_off", "handed_off")
    /\ UNCHANGED log

RequestReview(a, h, reviewer) ==
    /\ MayAppend(a, "review_requested")
    /\ Record([type |-> "review_requested", by |-> a, head |-> h, actor |-> None,
               expected |-> reviewer, outcome |-> None, key |-> 0, bound |-> 0])
    /\ Advance(a, "review_requested", "reviewing")

\* The review answers the latest request of the attempt: its head, its reviewer.
Answers(a, h, r) ==
    \E q \in DOMAIN log :
        /\ Latest(q, a, "review_requested")
        /\ log[q].head = h
        /\ log[q].expected \in {r, None}

\* A rejection after the last repair is the end of the group.
Review(a, r, h, verdict, k) ==
    /\ MayAppend(a, "review_receipt")
    /\ Unbound(k)
    /\ Answers(a, h, r)
    /\ Record([type |-> "review_receipt", by |-> a, head |-> h, actor |-> r,
               expected |-> None, outcome |-> verdict, key |-> k, bound |-> 0])
    /\ IF verdict # "approved" /\ group.repairs >= RepairLimit
       THEN End(a, "no_go", h)
       ELSE Advance(a, "reviewed", "reviewing")

LastVerdict(a, verdicts) ==
    \E i \in DOMAIN log : Latest(i, a, "review_receipt") /\ log[i].outcome \in verdicts

AcceptRepair(a) ==
    /\ MayAppend(a, "repair_accepted")
    /\ LastVerdict(a, {"changes_requested", "dismissed"})
    /\ group.repairs < RepairLimit
    /\ group' = [group EXCEPT !.state = "repair", !.repairs = @ + 1]
    /\ attempt' = [attempt EXCEPT ![a] = "repair"]
    /\ UNCHANGED log

\* The cycle a rejection names is the current one, and at least 1.
RejectRepair(a, h) ==
    /\ MayAppend(a, "repair_rejected")
    /\ LastVerdict(a, {"changes_requested", "dismissed"})
    /\ group.repairs >= 1
    /\ End(a, "no_go", h)
    /\ UNCHANGED log

\* Mutant of Approves: any approval of the head counts, revoked or not.
ApprovesOnce(i, a, h, operator) ==
    /\ log[i].by = a /\ log[i].type = "review_receipt"
    /\ log[i].head = h /\ log[i].outcome = "approved" /\ log[i].actor # operator

Approves(i, a, h, operator) ==
    /\ Latest(i, a, "review_receipt")
    /\ log[i].head = h /\ log[i].outcome = "approved" /\ log[i].actor # operator

ConditionalMerge(a, operator, h, k) ==
    /\ MayAppend(a, "conditional_merge_receipt")
    /\ Unbound(k)
    /\ \E q \in DOMAIN log : Latest(q, a, "review_requested") /\ log[q].head = h
    /\ \E i \in DOMAIN log :
         /\ Approves(i, a, h, operator)
         /\ Record([type |-> "conditional_merge_receipt", by |-> a, head |-> h,
                    actor |-> operator, expected |-> None, outcome |-> None,
                    key |-> k, bound |-> log[i].key])
    /\ Advance(a, "merge_ready", "merge_ready")

\* The receipt a merge outcome cites: any conditional receipt of the attempt.
Cited(i, a, h, operator) ==
    /\ log[i].by = a /\ log[i].type = "conditional_merge_receipt"
    /\ log[i].head = h /\ log[i].actor = operator

MergeOutcome(a, operator, h, outcome, k) ==
    /\ MayAppend(a, "merge_outcome")
    /\ Unbound(k)
    /\ \E i \in DOMAIN log :
         /\ Cited(i, a, h, operator)
         /\ Record([type |-> "merge_outcome", by |-> a, head |-> h, actor |-> operator,
                    expected |-> None, outcome |-> outcome, key |-> k,
                    bound |-> log[i].key])
    /\ IF outcome = "merged"
       THEN End(a, "merged", h)
       ELSE Advance(a, "merge_not_merged", "handed_off")

\* cancellation, failure and terminal_outcome; none of them claims a merge.
GiveUp(a, outcome, h) ==
    /\ Owns(a)
    /\ End(a, outcome, h)
    /\ UNCHANGED log

\* What the proof of a cleanup must cite.
Proven ==
    \/ /\ group.outcome = "merged"
       /\ \E r, c, m \in DOMAIN log :
            /\ log[r].type = "review_receipt" /\ log[r].outcome = "approved"
            /\ log[c].type = "conditional_merge_receipt"
            /\ log[m].type = "merge_outcome" /\ log[m].outcome = "merged"
            /\ \A i \in {r, c, m} : log[i].head = group.head
            /\ log[c].bound = log[r].key /\ log[m].bound = log[c].key
    \/ /\ group.outcome = "no_go"
       /\ \E r \in DOMAIN log :
            /\ log[r].type = "review_receipt" /\ log[r].outcome # "approved"
            /\ log[r].head = group.head

MayCleanUp(a) ==
    /\ group.outcome # None /\ group.endedBy = a
    /\ group.state # "cleanup_eligible"
    /\ Proven

CleanUp(a) ==
    /\ MayCleanUp(a)
    /\ group' = [group EXCEPT !.state = "cleanup_eligible"]
    /\ UNCHANGED <<attempt, log>>

Next ==
    \E a \in Attempts :
        \/ Admit(a) \/ Progress(a) \/ AcceptRepair(a) \/ CleanUp(a)
        \/ \E b \in Attempts : Recover(a, b)
        \/ \E h \in Heads, r \in Actors \cup {None} : RequestReview(a, h, r)
        \/ \E h \in Heads \cup {None} :
             \/ RejectRepair(a, h)
             \/ \E o \in {"cancelled", "failed", "no_go"} : GiveUp(a, o, h)
        \/ \E h \in Heads, r \in Actors, k \in OfferedKeys :
             \/ \E v \in Verdicts : Review(a, r, h, v, k)
             \/ ConditionalMerge(a, r, h, k)
             \/ \E o \in {"merged", "not_merged"} : MergeOutcome(a, r, h, o, k)

Spec == Init /\ [][Next]_vars

\* Whoever ended a group asks for its cleanup in the end.
FairSpec == Spec /\ \A a \in Attempts : WF_vars(CleanUp(a))

----------------------------------------------------------------------------
(***************************************************************************)
(* Properties.                                                             *)
(***************************************************************************)

\* Rows and receipts have their types; a group has a writer exactly from its
\* admission to its end.
TypeOK ==
    /\ group \in Group
    /\ attempt \in [Attempts -> Statuses]
    /\ log \in Seq(Receipt)
    /\ (group.active = None) <=> (group.state = "absent" \/ group.outcome # None)
    /\ (group.endedBy = None) <=> (group.outcome = None)
    /\ group.outcome # None => group.state \in {group.outcome, "cleanup_eligible"}

\* The table of attempts agrees with the row of the group: the active attempt is the
\* only one still working, and the one that ended the group carries its outcome.
OneWriter ==
    /\ \A a \in Attempts : attempt[a] \in Working <=> group.active = a
    /\ \A a \in Attempts : attempt[a] \in Outcomes <=> group.endedBy = a
    /\ group.endedBy # None => attempt[group.endedBy] = group.outcome

\* A fenced writer is silent for ever ("recovery fences stale generations while
\* preserving all prior attempt evidence"): the receipts of one attempt are never
\* interleaved with those of another.
GenerationsInOrder ==
    \A i, j, k \in DOMAIN log :
        i < j /\ j < k /\ log[i].by = log[k].by => log[j].by = log[i].by

\* What is recorded as merged was approved at exactly that head, by another than the
\* operator, and the approval was the last word when the operator relied on it.
MergedWasApproved ==
    group.outcome = "merged" =>
        \E r, c, m \in DOMAIN log :
            /\ r < c /\ c < m
            /\ log[r].type = "review_receipt" /\ log[r].outcome = "approved"
            /\ log[c].type = "conditional_merge_receipt" /\ log[c].bound = log[r].key
            /\ log[m].type = "merge_outcome" /\ log[m].bound = log[c].key
            /\ log[c].actor # log[r].actor /\ log[m].actor = log[c].actor
            /\ \A i \in {r, c, m} : log[i].head = group.head /\ log[i].by = group.endedBy
            /\ \A i \in DOMAIN log :
                 r < i /\ i < c
                     => log[i].type \notin {"review_requested", "review_receipt"}

\* The end of a group is final: nothing follows but one receipt of its cleanup
\* ("terminal facts are immutable and only one cleanup receipt may follow").
TerminalIsFinal ==
    [][group.outcome # None =>
         /\ UNCHANGED <<attempt, log>>
         /\ group' \in {group, [group EXCEPT !.state = "cleanup_eligible"]}]_vars

\* A merged group can always prove its cleanup from its own receipts, whatever
\* recoveries, repairs and abandoned merges came before.
MergedIsCleanedUp == group.outcome = "merged" ~> group.state = "cleanup_eligible"

\* What was said to the present writer: its requests and their reviews, the approval
\* that is the last of them, and the licences it gave.
Spoken(i) ==
    log[i].by = group.active /\ log[i].type \in {"review_requested", "review_receipt"}

Stands(i) ==
    /\ Spoken(i) /\ \A j \in DOMAIN log : Spoken(j) => j <= i
    /\ log[i].type = "review_receipt" /\ log[i].outcome = "approved"

Licenses(i) == log[i].by = group.active /\ log[i].type = "conditional_merge_receipt"

Standing == {<<log[i].head, log[i].actor>> : i \in {i \in DOMAIN log : Stands(i)}}

Licences == {<<log[i].head, log[i].actor>> : i \in {i \in DOMAIN log : Licenses(i)}}

Contract == INSTANCE ReviewedMerge WITH
    Writers <- Attempts,
    Nobody <- None,
    writer <- group.active,
    retired <- {a \in Attempts : attempt[a] \in Outcomes \cup {"fenced"}},
    standing <- Standing,
    licences <- Licences,
    merged <- IF group.outcome = "merged" THEN {group.head} ELSE {}

\* The ledger is a reviewed merge: whatever is recorded as merged was licensed to its
\* operator by the writer that merged it, when the last word of the reviewers to that
\* writer was another's approval of that head.
MergesAreReviewed == Contract!Spec
=============================================================================
