------------------------ MODULE PrGroupLedgerProofs ------------------------
(***************************************************************************)
(* Proofs about PrGroupLedger, for any sets of attempts, heads, actors and *)
(* verdicts, any limit of repairs and any length of the log.               *)
(***************************************************************************)
EXTENDS PrGroupLedger, TLAPS

----------------------------------------------------------------------------
(***************************************************************************)
(* Types.                                                                  *)
(***************************************************************************)

LEMMA LegalConditional ==
    ASSUME NEW s \in States, "conditional_merge_receipt" \in Legal[s]
    PROVE  s = "reviewed"
  BY DEF Legal

\* What recording a receipt does to the log.
LEMMA RecordStep ==
    ASSUME log \in Seq(Receipt), NEW e \in Receipt, Record(e)
    PROVE  /\ log' = Append(log, e)
           /\ log' \in Seq(Receipt)
           /\ DOMAIN log = 1..Len(log) /\ Len(log) \in Nat
           /\ DOMAIN log' = 1..(Len(log) + 1)
           /\ log'[Len(log) + 1] = e
           /\ \A i \in DOMAIN log : log'[i] = log[i]
  BY DEF Record

LEMMA KeysTyped ==
    ASSUME TypeOK
    PROVE  OfferedKeys \subseteq Nat /\ \A i \in DOMAIN log : log[i] \in Receipt
<1>1. \A i \in DOMAIN log : log[i] \in Receipt
  BY DEF TypeOK
<1>2. BoundKeys \subseteq Nat
  BY <1>1 DEF BoundKeys, Receipt
<1>3. Len(log) + 1 \in Nat
  BY DEF TypeOK
<1>4. OfferedKeys \subseteq Nat
  BY <1>2, <1>3 DEF OfferedKeys
<1>5. QED
  BY <1>1, <1>4

\* The fields of the group's row.
LEMMA GroupFields ==
    ASSUME TypeOK
    PROVE  /\ group.state \in States /\ group.active \in Attempts \cup {None}
           /\ group.repairs \in 0..RepairLimit
           /\ group.outcome \in Outcomes \cup {None}
           /\ group.endedBy \in Attempts \cup {None}
           /\ group.head \in Heads \cup {None}
  BY DEF TypeOK, Group

\* What an owner may do to the row without ending the group keeps its type.
LEMMA AdvanceTyped ==
    ASSUME TypeOK, NEW a \in Attempts, Owns(a), NEW s \in States, NEW w \in Working,
           NEW n \in 0..RepairLimit, s \notin {"absent", "cleanup_eligible"}, log' \in Seq(Receipt),
           group' = [group EXCEPT !.state = s, !.repairs = n],
           attempt' = [attempt EXCEPT ![a] = w]
    PROVE  TypeOK'
<1>1. group' \in Group
  BY GroupFields DEF TypeOK, Group
<1>2. attempt' \in [Attempts -> Statuses]
  BY DEF TypeOK, Statuses
<1>3. group'.active = a /\ group'.outcome = None /\ group'.endedBy = None /\ group'.state = s
  BY GroupFields DEF TypeOK, Owns, Group
<1>4. QED
  BY <1>1, <1>2, <1>3, LedgerAssumption DEF TypeOK

LEMMA EndTyped ==
    ASSUME TypeOK, NEW a \in Attempts, Owns(a), NEW o \in Outcomes,
           NEW h \in Heads \cup {None}, End(a, o, h), log' \in Seq(Receipt)
    PROVE  TypeOK'
<1>1. EndHead(o, h) \in Heads \cup {None}
  BY DEF EndHead
<1>2. group' \in Group
  BY <1>1, GroupFields DEF TypeOK, Group, End, Ended, States
<1>3. attempt' \in [Attempts -> Statuses]
  BY DEF TypeOK, Statuses, End
<1>4. group'.active = None /\ group'.outcome = o /\ group'.endedBy = a /\ group'.state = o
  BY GroupFields DEF TypeOK, Group, End, Ended
<1>5. QED
  BY <1>2, <1>3, <1>4, LedgerAssumption DEF TypeOK, Outcomes

LEMMA PlainAdvance ==
    ASSUME TypeOK, NEW a \in Attempts, Owns(a), NEW s \in States, NEW w \in Working,
           s \notin {"absent", "cleanup_eligible"}, log' \in Seq(Receipt),
           Advance(a, s, w)
    PROVE  TypeOK'
<1>1. group' = [group EXCEPT !.state = s, !.repairs = group.repairs]
  BY DEF Advance, TypeOK, Group
<1>2. QED
  BY <1>1, AdvanceTyped, GroupFields DEF Advance

LEMMA TypeInit == Init => TypeOK
  BY LedgerAssumption DEF Init, TypeOK, Group, States, Outcomes, Statuses

\* The receipts each action records.
LEMMA RequestTyped ==
    ASSUME TypeOK, NEW a \in Attempts, NEW h \in Heads, NEW r \in Actors \cup {None}
    PROVE  [type |-> "review_requested", by |-> a, head |-> h, actor |-> None,
            expected |-> r, outcome |-> None, key |-> 0, bound |-> 0] \in Receipt
  BY DEF Receipt

LEMMA ReviewTyped ==
    ASSUME TypeOK, NEW a \in Attempts, NEW h \in Heads, NEW r \in Actors,
           NEW v \in Verdicts, NEW k \in OfferedKeys
    PROVE  [type |-> "review_receipt", by |-> a, head |-> h, actor |-> r,
            expected |-> None, outcome |-> v, key |-> k, bound |-> 0] \in Receipt
  BY KeysTyped DEF Receipt

LEMMA ConditionalTyped ==
    ASSUME TypeOK, NEW a \in Attempts, NEW h \in Heads, NEW r \in Actors,
           NEW k \in OfferedKeys, NEW i \in DOMAIN log
    PROVE  [type |-> "conditional_merge_receipt", by |-> a, head |-> h, actor |-> r,
            expected |-> None, outcome |-> None, key |-> k,
            bound |-> log[i].key] \in Receipt
<1>1. log[i].key \in Nat
  BY KeysTyped DEF Receipt
<1>2. QED
  BY <1>1, KeysTyped DEF Receipt

LEMMA MergeTyped ==
    ASSUME TypeOK, NEW a \in Attempts, NEW h \in Heads, NEW r \in Actors,
           NEW k \in OfferedKeys, NEW i \in DOMAIN log, NEW o \in {"merged", "not_merged"}
    PROVE  [type |-> "merge_outcome", by |-> a, head |-> h, actor |-> r,
            expected |-> None, outcome |-> o, key |-> k,
            bound |-> log[i].key] \in Receipt
<1>1. log[i].key \in Nat
  BY KeysTyped DEF Receipt
<1>2. QED
  BY <1>1, KeysTyped DEF Receipt

----------------------------------------------------------------------------
(***************************************************************************)
(* What a step may do.  Every step is a stutter, a take-over, a move of    *)
(* the owner that records nothing, one receipt of the owner, or a cleanup. *)
(***************************************************************************)

\* The owner a moves the group on, or ends it.
Moves(a) ==
    \/ \E s \in States, w \in Working, n \in 0..RepairLimit :
         /\ s \notin {"absent", "cleanup_eligible"}
         /\ group' = [group EXCEPT !.state = s, !.repairs = n]
         /\ attempt' = [attempt EXCEPT ![a] = w]
    \/ \E o \in Outcomes, h \in Heads \cup {None} : End(a, o, h)

\* The owner a adds the receipt e to the log.
Adds(a, e) ==
    /\ log' = Append(log, e)
    /\ e.by = a
    /\ e.type # "review_requested" => e.actor \in Actors
    /\ e.type = "conditional_merge_receipt"
         => \E i \in DOMAIN log :
              Approves(i, a, e.head, e.actor) /\ e.bound = log[i].key
    /\ e.type = "merge_outcome"
         => \E i \in DOMAIN log :
              Cited(i, a, e.head, e.actor) /\ e.bound = log[i].key

\* States in which the group is reviewed come from a review and nothing else, and
\* merged ones from a merge.
Quiet ==
    /\ group'.state # "reviewed"
    /\ group'.outcome # "merged"

Step ==
    \/ UNCHANGED vars
    \/ \E b \in Attempts :
         /\ Admit(b) \/ \E a \in Attempts : Recover(a, b)
    \/ \E a \in Attempts :
         /\ Owns(a) /\ Moves(a) /\ UNCHANGED log /\ Quiet
    \/ \E a \in Attempts, e \in Receipt :
         /\ Owns(a) /\ Moves(a) /\ Adds(a, e)
         /\ group'.state = "reviewed" => e.type = "review_receipt"
         /\ group'.outcome = "merged"
              => e.type = "merge_outcome" /\ e.outcome = "merged" /\ e.head = group'.head
         /\ e.type = "conditional_merge_receipt" => group.state = "reviewed"
    \/ \E a \in Attempts : CleanUp(a)

LEMMA AdvanceMoves ==
    ASSUME TypeOK, NEW a \in Attempts, NEW s \in States, NEW w \in Working,
           s \notin {"absent", "cleanup_eligible"}, Advance(a, s, w)
    PROVE  /\ Moves(a)
           /\ group'.state = s /\ group'.outcome = group.outcome
<1>1. group' = [group EXCEPT !.state = s, !.repairs = group.repairs]
  BY DEF Advance, TypeOK, Group
<1>2. attempt' = [attempt EXCEPT ![a] = w]
  BY DEF Advance
<1>3. Moves(a)
  BY <1>1, <1>2, GroupFields DEF Moves
<1>4. group'.state = s /\ group'.outcome = group.outcome
  BY <1>1 DEF TypeOK, Group
<1>5. QED
  BY <1>3, <1>4

LEMMA EndMoves ==
    ASSUME TypeOK, NEW a \in Attempts, NEW o \in Outcomes, NEW h \in Heads \cup {None},
           End(a, o, h)
    PROVE  /\ Moves(a)
           /\ group'.state = o /\ group'.outcome = o
           /\ o = "merged" => group'.head = h
<1>1. Moves(a)
  BY DEF Moves
<1>2. group'.state = o /\ group'.outcome = o /\ group'.head = EndHead(o, h)
  BY DEF End, Ended, TypeOK, Group
<1>3. QED
  BY <1>1, <1>2 DEF EndHead

LEMMA NextIsStep == TypeOK /\ [Next]_vars => Step
<1> SUFFICES ASSUME TypeOK, [Next]_vars
             PROVE  Step
  OBVIOUS
<1>1. CASE UNCHANGED vars
  BY <1>1 DEF Step
<1>2. ASSUME NEW a \in Attempts, Admit(a) PROVE Step
  BY <1>2 DEF Step
<1>3. ASSUME NEW a \in Attempts, NEW b \in Attempts, Recover(a, b) PROVE Step
  BY <1>3 DEF Step
<1>4. ASSUME NEW a \in Attempts, CleanUp(a) PROVE Step
  BY <1>4 DEF Step
<1>5. ASSUME NEW a \in Attempts, Progress(a) PROVE Step
  <2>1. Owns(a) /\ UNCHANGED log
    BY <1>5 DEF Progress, MayAppend
  <2>2. PICK s \in {"started", "in_progress", "handed_off"} : Advance(a, s, s)
    BY <1>5 DEF Progress
  <2>3. s \in States /\ s \in Working
    BY DEF States, Working
  <2>4. Moves(a) /\ group'.state = s /\ group'.outcome = group.outcome
    BY <2>2, <2>3, AdvanceMoves
  <2>5. Quiet
    BY <2>1, <2>4, LedgerAssumption DEF Quiet, Owns
  <2>6. QED
    BY <2>1, <2>4, <2>5 DEF Step
<1>6. ASSUME NEW a \in Attempts, AcceptRepair(a) PROVE Step
  <2>1. Owns(a) /\ UNCHANGED log
    BY <1>6 DEF AcceptRepair, MayAppend
  <2> DEFINE n == group.repairs + 1
  <2>2. n \in 0..RepairLimit
    BY <1>6, GroupFields, LedgerAssumption DEF AcceptRepair
  <2>3. group' = [group EXCEPT !.state = "repair", !.repairs = n]
    BY <1>6 DEF AcceptRepair, TypeOK, Group
  <2> HIDE DEF n
  <2>4. attempt' = [attempt EXCEPT ![a] = "repair"]
    BY <1>6 DEF AcceptRepair
  <2>5. "repair" \in States /\ "repair" \in Working
    BY DEF States, Working
  <2>6. Moves(a)
    BY <2>2, <2>3, <2>4, <2>5 DEF Moves
  <2>7. group'.state = "repair" /\ group'.outcome = group.outcome
    BY <2>3 DEF TypeOK, Group
  <2>8. Quiet
    BY <2>1, <2>7, LedgerAssumption DEF Quiet, Owns
  <2>9. QED
    BY <2>1, <2>6, <2>8 DEF Step
<1>7. ASSUME NEW a \in Attempts, NEW h \in Heads \cup {None}, RejectRepair(a, h) PROVE Step
  <2>1. Owns(a) /\ UNCHANGED log /\ End(a, "no_go", h)
    BY <1>7 DEF RejectRepair, MayAppend
  <2>2. Moves(a) /\ Quiet
    BY <2>1, EndMoves DEF Quiet, Outcomes
  <2>3. QED
    BY <2>1, <2>2 DEF Step
<1>8. ASSUME NEW a \in Attempts, NEW h \in Heads \cup {None},
             NEW o \in {"cancelled", "failed", "no_go"}, GiveUp(a, o, h)
      PROVE  Step
  <2>1. Owns(a) /\ UNCHANGED log /\ End(a, o, h)
    BY <1>8 DEF GiveUp
  <2>2. Moves(a) /\ Quiet
    BY <2>1, EndMoves DEF Quiet, Outcomes
  <2>3. QED
    BY <2>1, <2>2 DEF Step
<1>9. ASSUME NEW a \in Attempts, NEW h \in Heads, NEW r \in Actors \cup {None},
             RequestReview(a, h, r)
      PROVE  Step
  <2> DEFINE e == [type |-> "review_requested", by |-> a, head |-> h, actor |-> None,
                   expected |-> r, outcome |-> None, key |-> 0, bound |-> 0]
  <2>1. Owns(a) /\ e \in Receipt /\ Adds(a, e)
    BY <1>9, RequestTyped DEF RequestReview, MayAppend, Record, Adds
  <2>2. "review_requested" \in States /\ "reviewing" \in Working
    BY DEF States, Working
  <2>3. Advance(a, "review_requested", "reviewing")
    BY <1>9 DEF RequestReview
  <2>4. Moves(a) /\ Quiet
    BY <2>1, <2>2, <2>3, AdvanceMoves, LedgerAssumption DEF Quiet, Owns
  <2>5. e.type = "review_requested"
    OBVIOUS
  <2> HIDE DEF e
  <2>6. QED
    BY <2>1, <2>4, <2>5 DEF Step, Quiet
<1>10. ASSUME NEW a \in Attempts, NEW r \in Actors, NEW h \in Heads, NEW v \in Verdicts,
              NEW k \in OfferedKeys, Review(a, r, h, v, k)
       PROVE  Step
  <2> DEFINE e == [type |-> "review_receipt", by |-> a, head |-> h, actor |-> r,
                   expected |-> None, outcome |-> v, key |-> k, bound |-> 0]
  <2>1. Owns(a) /\ e \in Receipt /\ Adds(a, e)
    BY <1>10, ReviewTyped DEF Review, MayAppend, Record, Adds
  <2>2. Moves(a) /\ group'.outcome # "merged"
    <3>1. CASE End(a, "no_go", h)
      BY <3>1, EndMoves DEF Outcomes
    <3>2. CASE Advance(a, "reviewed", "reviewing")
      <4>1. "reviewed" \in States /\ "reviewing" \in Working
        BY DEF States, Working
      <4>2. QED
        BY <2>1, <3>2, <4>1, AdvanceMoves, LedgerAssumption DEF Owns
    <3>3. QED
      BY <1>10, <3>1, <3>2 DEF Review
  <2>3. e.type = "review_receipt"
    OBVIOUS
  <2> HIDE DEF e
  <2>4. QED
    BY <2>1, <2>2, <2>3 DEF Step
<1>11. ASSUME NEW a \in Attempts, NEW r \in Actors, NEW h \in Heads,
              NEW k \in OfferedKeys, ConditionalMerge(a, r, h, k)
       PROVE  Step
  <2>1. PICK i \in DOMAIN log :
            /\ Approves(i, a, h, r)
            /\ Record([type |-> "conditional_merge_receipt", by |-> a, head |-> h,
                       actor |-> r, expected |-> None, outcome |-> None,
                       key |-> k, bound |-> log[i].key])
    BY <1>11 DEF ConditionalMerge
  <2> DEFINE e == [type |-> "conditional_merge_receipt", by |-> a, head |-> h, actor |-> r,
                   expected |-> None, outcome |-> None, key |-> k, bound |-> log[i].key]
  <2>2. e \in Receipt
    BY ConditionalTyped
  <2>3. /\ e.type = "conditional_merge_receipt" /\ e.by = a /\ e.head = h /\ e.actor = r
        /\ e.bound = log[i].key
    OBVIOUS
  <2>4. log' = Append(log, e)
    BY <2>1 DEF Record
  <2> HIDE DEF e
  <2>5. Adds(a, e)
    BY <2>1, <2>3, <2>4 DEF Adds
  <2>6. Owns(a) /\ group.state = "reviewed"
    BY <1>11, LegalConditional, GroupFields DEF ConditionalMerge, MayAppend
  <2>7. "merge_ready" \in States /\ "merge_ready" \in Working
    BY DEF States, Working
  <2>8. Advance(a, "merge_ready", "merge_ready")
    BY <1>11 DEF ConditionalMerge
  <2>9. Moves(a) /\ Quiet
    BY <2>6, <2>7, <2>8, AdvanceMoves, LedgerAssumption DEF Quiet, Owns
  <2>10. QED
    BY <2>2, <2>5, <2>6, <2>9 DEF Step, Quiet
<1>12. ASSUME NEW a \in Attempts, NEW r \in Actors, NEW h \in Heads,
              NEW k \in OfferedKeys, NEW o \in {"merged", "not_merged"},
              MergeOutcome(a, r, h, o, k)
       PROVE  Step
  <2>1. PICK i \in DOMAIN log :
            /\ Cited(i, a, h, r)
            /\ Record([type |-> "merge_outcome", by |-> a, head |-> h, actor |-> r,
                       expected |-> None, outcome |-> o, key |-> k,
                       bound |-> log[i].key])
    BY <1>12 DEF MergeOutcome
  <2> DEFINE e == [type |-> "merge_outcome", by |-> a, head |-> h, actor |-> r,
                   expected |-> None, outcome |-> o, key |-> k, bound |-> log[i].key]
  <2>2. e \in Receipt
    BY MergeTyped
  <2>3. /\ e.type = "merge_outcome" /\ e.by = a /\ e.head = h /\ e.actor = r
        /\ e.bound = log[i].key /\ e.outcome = o
    OBVIOUS
  <2>4. log' = Append(log, e)
    BY <2>1 DEF Record
  <2> HIDE DEF e
  <2>5. Adds(a, e)
    BY <2>1, <2>3, <2>4 DEF Adds
  <2>6. Owns(a)
    BY <1>12 DEF MergeOutcome, MayAppend
  <2>7. /\ Moves(a) /\ group'.state # "reviewed"
        /\ group'.outcome = "merged" => o = "merged" /\ group'.head = h
    <3>1. CASE o = "merged"
      BY <1>12, <3>1, EndMoves DEF MergeOutcome, Outcomes
    <3>2. CASE o # "merged"
      <4>1. "merge_not_merged" \in States /\ "handed_off" \in Working
        BY DEF States, Working
      <4>2. Advance(a, "merge_not_merged", "handed_off")
        BY <1>12, <3>2 DEF MergeOutcome
      <4>3. QED
        BY <2>6, <4>1, <4>2, AdvanceMoves, LedgerAssumption DEF Owns
    <3>3. QED
      BY <3>1, <3>2
  <2>8. QED
    BY <2>2, <2>3, <2>5, <2>6, <2>7 DEF Step
<1>13. QED
  BY <1>1, <1>2, <1>3, <1>4, <1>5, <1>6, <1>7, <1>8, <1>9, <1>10, <1>11, <1>12 DEF Next

----------------------------------------------------------------------------
(***************************************************************************)
(* Types and writers, kept by every step.                                  *)
(***************************************************************************)
LEMMA MovesTyped ==
    ASSUME TypeOK, NEW a \in Attempts, Owns(a), Moves(a), log' \in Seq(Receipt)
    PROVE  TypeOK'
  BY AdvanceTyped, EndTyped DEF Moves

LEMMA AddsLog ==
    ASSUME TypeOK, NEW a \in Attempts, NEW e \in Receipt, Adds(a, e)
    PROVE  /\ log' \in Seq(Receipt)
           /\ DOMAIN log = 1..Len(log) /\ Len(log) \in Nat
           /\ DOMAIN log' = 1..(Len(log) + 1)
           /\ log'[Len(log) + 1] = e /\ e.by = a
           /\ \A i \in DOMAIN log : i \in DOMAIN log' /\ log'[i] = log[i]
  BY DEF TypeOK, Adds

\* A take-over: what is left of the writer before it, and what the new one gets.
LEMMA TakeOver ==
    ASSUME TypeOK, NEW b \in Attempts, Admit(b) \/ \E a \in Attempts : Recover(a, b)
    PROVE  /\ group' = [group EXCEPT !.state = "admitted", !.active = b]
           /\ group'.state = "admitted" /\ group'.active = b /\ group'.outcome = None
           /\ group'.endedBy = None
           /\ attempt[b] = "none" /\ attempt' \in [Attempts -> Statuses]
           /\ UNCHANGED log
<1>1. /\ group' = [group EXCEPT !.state = "admitted", !.active = b]
      /\ attempt[b] = "none" /\ UNCHANGED log
  BY DEF Admit, Recover
<1>2. group.outcome = None
  BY LedgerAssumption, GroupFields DEF Admit, Recover, Owns, Admissible, TypeOK, Outcomes
<1>3. attempt' \in [Attempts -> Statuses]
  <2>1. CASE Admit(b)
    BY <2>1 DEF Admit, TypeOK, Statuses, Working
  <2>2. CASE \E a \in Attempts : Recover(a, b)
    BY <2>2 DEF Recover, Fenced, TypeOK, Statuses, Working
  <2>3. QED
    BY <2>1, <2>2
<1>4. /\ group'.state = "admitted" /\ group'.active = b
      /\ group'.outcome = group.outcome /\ group'.endedBy = group.endedBy
  BY <1>1 DEF TypeOK, Group
<1>5. QED
  BY <1>1, <1>2, <1>3, <1>4 DEF TypeOK

LEMMA TypeStep == TypeOK /\ [Next]_vars => TypeOK'
<1> SUFFICES ASSUME TypeOK, [Next]_vars
             PROVE  TypeOK'
  OBVIOUS
<1>1. CASE UNCHANGED vars
  BY <1>1 DEF vars, TypeOK, Group
<1>2. ASSUME NEW b \in Attempts, Admit(b) \/ \E a \in Attempts : Recover(a, b)
      PROVE  TypeOK'
  <2>1. /\ group' = [group EXCEPT !.state = "admitted", !.active = b]
        /\ group'.state = "admitted" /\ group'.active = b /\ group'.outcome = None
        /\ group'.endedBy = None
        /\ attempt' \in [Attempts -> Statuses] /\ UNCHANGED log
    BY <1>2, TakeOver
  <2>2. group' \in Group
    BY <2>1 DEF Group, States, TypeOK
  <2>3. b # None
    BY LedgerAssumption
  <2>4. QED
    BY <2>1, <2>2, <2>3 DEF TypeOK
<1>3. ASSUME NEW a \in Attempts, Owns(a), Moves(a), UNCHANGED log
      PROVE  TypeOK'
  BY <1>3, MovesTyped DEF TypeOK
<1>4. ASSUME NEW a \in Attempts, NEW e \in Receipt, Owns(a), Moves(a), Adds(a, e)
      PROVE  TypeOK'
  BY <1>4, AddsLog, MovesTyped
<1>5. ASSUME NEW a \in Attempts, CleanUp(a)
      PROVE  TypeOK'
  <2>1. /\ group' = [group EXCEPT !.state = "cleanup_eligible"]
        /\ group.outcome # None /\ UNCHANGED <<attempt, log>>
    BY <1>5 DEF CleanUp, MayCleanUp
  <2>2. group' \in Group
    BY <2>1, GroupFields DEF Group, States, TypeOK
  <2>3. /\ group'.state = "cleanup_eligible" /\ group'.active = group.active
        /\ group'.outcome = group.outcome /\ group'.endedBy = group.endedBy
    BY <2>1 DEF TypeOK, Group
  <2>4. QED
    BY <2>1, <2>2, <2>3 DEF TypeOK
<1>6. QED
  BY <1>1, <1>2, <1>3, <1>4, <1>5, NextIsStep DEF Step

\* Rows and receipts keep their types, and a group has a writer exactly from its
\* admission to its end, whatever the sizes and the limit of repairs.
THEOREM TypeCorrect == Spec => []TypeOK
<1>1. Init => TypeOK
  BY TypeInit
<1>2. TypeOK /\ [Next]_vars => TypeOK'
  BY TypeStep
<1>3. QED
  BY <1>1, <1>2, PTL DEF Spec

\* The two kinds of moves, by what they do to the writer of the group.
LEMMA MovesWriter ==
    ASSUME TypeOK, NEW a \in Attempts, Owns(a), Moves(a)
    PROVE  \/ /\ group'.active = a /\ group'.endedBy = None /\ group'.outcome = None
              /\ \E w \in Working : attempt' = [attempt EXCEPT ![a] = w]
           \/ /\ group'.active = None /\ group'.endedBy = a /\ group'.outcome \in Outcomes
              /\ attempt' = [attempt EXCEPT ![a] = group'.outcome]
<1>1. group.active = a /\ group.endedBy = None /\ group.outcome = None
  BY DEF Owns, TypeOK
<1>2. ASSUME NEW s \in States, NEW w \in Working, NEW n \in 0..RepairLimit,
             group' = [group EXCEPT !.state = s, !.repairs = n],
             attempt' = [attempt EXCEPT ![a] = w]
      PROVE  /\ group'.active = a /\ group'.endedBy = None /\ group'.outcome = None
             /\ \E x \in Working : attempt' = [attempt EXCEPT ![a] = x]
  BY <1>1, <1>2 DEF TypeOK, Group
<1>3. ASSUME NEW o \in Outcomes, NEW h \in Heads \cup {None}, End(a, o, h)
      PROVE  /\ group'.active = None /\ group'.endedBy = a /\ group'.outcome \in Outcomes
             /\ attempt' = [attempt EXCEPT ![a] = group'.outcome]
  BY <1>3 DEF TypeOK, Group, End, Ended
<1>4. QED
  BY <1>2, <1>3 DEF Moves

LEMMA WriterStep == TypeOK /\ OneWriter /\ [Next]_vars => OneWriter'
<1> SUFFICES ASSUME TypeOK, OneWriter, [Next]_vars
             PROVE  OneWriter'
  OBVIOUS
<1>d. Working \cap Outcomes = {} /\ {"none", "fenced"} \cap (Working \cup Outcomes) = {}
  BY DEF Working, Outcomes
<1>1. CASE UNCHANGED vars
  BY <1>1 DEF vars, OneWriter
<1>2. ASSUME NEW b \in Attempts, Admit(b)
      PROVE  OneWriter'
  <2>1. group.active = None
    BY <1>2 DEF Admit, Admissible, TypeOK
  <2>2. attempt' = [attempt EXCEPT ![b] = "admitted"]
    BY <1>2 DEF Admit
  <2>3. group.endedBy = None
    BY <1>2, LedgerAssumption, GroupFields DEF Admit, Admissible, TypeOK, Outcomes
  <2>4. group'.active = b /\ group'.outcome = None /\ group'.endedBy = None
    BY <1>2, TakeOver
  <2>5. "admitted" \in Working /\ attempt'[b] = "admitted"
    BY <2>2 DEF Working, TypeOK
  <2>6. \A c \in Attempts : c # b => attempt'[c] = attempt[c]
    BY <2>2 DEF TypeOK
  <2>7. QED
    BY <1>d, <2>1, <2>3, <2>4, <2>5, <2>6, LedgerAssumption DEF OneWriter
<1>3. ASSUME NEW a \in Attempts, NEW b \in Attempts, Recover(a, b)
      PROVE  OneWriter'
  <2>1. group.active = a /\ group.endedBy = None
    BY <1>3 DEF Recover, Owns, TypeOK
  <2>2. attempt' = [attempt EXCEPT ![a] = "fenced", ![b] = "admitted"]
    BY <1>3 DEF Recover, Fenced
  <2>3. a # b
    BY <1>3, <1>d, <2>1 DEF Recover, OneWriter
  <2>4. group'.active = b /\ group'.outcome = None /\ group'.endedBy = None
    BY <1>3, TakeOver
  <2>5. /\ "admitted" \in Working /\ attempt'[b] = "admitted"
        /\ attempt'[a] = "fenced"
    BY <2>2, <2>3 DEF Working, TypeOK
  <2>6. \A c \in Attempts \ {a, b} : attempt'[c] = attempt[c]
    BY <2>2 DEF TypeOK
  <2>7. QED
    BY <1>d, <2>1, <2>3, <2>4, <2>5, <2>6, LedgerAssumption DEF OneWriter
<1>4. ASSUME NEW a \in Attempts, Owns(a), Moves(a)
      PROVE  OneWriter'
  <2>1. group.active = a /\ group.endedBy = None
    BY <1>4 DEF Owns, TypeOK
  <2>2. \A c \in Attempts : c # a => attempt'[c] = attempt[c]
    BY <1>4, MovesWriter DEF TypeOK
  <2>3. CASE group'.active = a
    <3>1. attempt'[a] \in Working
      BY <1>4, <2>3, MovesWriter, LedgerAssumption DEF TypeOK
    <3>2. group'.endedBy = None
      BY <1>4, <2>3, MovesWriter, LedgerAssumption
    <3>3. QED
      BY <1>d, <2>1, <2>2, <2>3, <3>1, <3>2, LedgerAssumption DEF OneWriter
  <2>4. CASE group'.active = None
    <3>1. attempt'[a] = group'.outcome /\ group'.outcome \in Outcomes /\ group'.endedBy = a
      BY <1>4, <2>4, MovesWriter, LedgerAssumption DEF TypeOK
    <3>2. QED
      BY <1>d, <2>1, <2>2, <2>4, <3>1, LedgerAssumption DEF OneWriter
  <2>5. QED
    BY <1>4, <2>3, <2>4, MovesWriter
<1>5. ASSUME NEW a \in Attempts, CleanUp(a)
      PROVE  OneWriter'
  <2>1. group' = [group EXCEPT !.state = "cleanup_eligible"] /\ attempt' = attempt
    BY <1>5 DEF CleanUp, MayCleanUp
  <2>2. /\ group'.active = group.active /\ group'.outcome = group.outcome
        /\ group'.endedBy = group.endedBy
    BY <2>1 DEF TypeOK, Group
  <2>3. QED
    BY <2>1, <2>2 DEF OneWriter
<1>6. QED
  BY <1>1, <1>2, <1>3, <1>4, <1>5, NextIsStep DEF Step

LEMMA WriterInit == Init => OneWriter
  BY LedgerAssumption DEF Init, OneWriter, Working, Outcomes

\* However many generations take over from one another, only the active one is at
\* work, and only the one that ended the group bears its outcome.
THEOREM OneWriterAlways == Spec => []OneWriter
<1>1. TypeOK /\ OneWriter /\ [Next]_vars => OneWriter'
  BY WriterStep
<1>2. QED
  BY <1>1, WriterInit, TypeCorrect, PTL DEF Spec

\* A group that has ended changes only to become eligible for cleanup, once.
THEOREM TerminalIsFinalAlways == Spec => TerminalIsFinal
<1>1. TypeOK /\ [Next]_vars =>
        [group.outcome # None =>
           /\ UNCHANGED <<attempt, log>>
           /\ group' \in {group, [group EXCEPT !.state = "cleanup_eligible"]}]_vars
  <2> SUFFICES ASSUME TypeOK, [Next]_vars, group.outcome # None
               PROVE  /\ UNCHANGED <<attempt, log>>
                      /\ group' \in {group, [group EXCEPT !.state = "cleanup_eligible"]}
    OBVIOUS
  <2>1. \A a \in Attempts : ~Owns(a)
    BY DEF Owns
  <2>2. ASSUME NEW b \in Attempts, Admit(b) \/ \E a \in Attempts : Recover(a, b)
        PROVE  FALSE
    BY <2>1, <2>2, LedgerAssumption, GroupFields
       DEF Admit, Admissible, Recover, TypeOK, Outcomes
  <2>3. (\E a \in Attempts : CleanUp(a)) \/ UNCHANGED vars
    BY <2>1, <2>2, NextIsStep DEF Step
  <2>4. QED
    BY <2>3 DEF CleanUp, MayCleanUp, vars
<1>2. QED
  BY <1>1, TypeCorrect, PTL DEF Spec, TerminalIsFinal

----------------------------------------------------------------------------
(***************************************************************************)
(* Generations do not interleave.  The owner of the log's tail is the      *)
(* active attempt, if it has written at all, and one that takes over has   *)
(* written nothing yet.                                                    *)
(***************************************************************************)
ActiveIsLast ==
    \A i, j \in DOMAIN log : i < j /\ log[i].by = group.active => log[j].by = group.active

WritersWereAdmitted == \A i \in DOMAIN log : attempt[log[i].by] # "none"

GenerationsInv == ActiveIsLast /\ WritersWereAdmitted /\ GenerationsInOrder

\* None of the three says more about a log that stays as it is.
LEMMA SameLog ==
    ASSUME TypeOK, GenerationsInv, UNCHANGED log,
           group'.active \in {group.active, None},
           \A a \in Attempts : attempt[a] # "none" => attempt'[a] # "none"
    PROVE  GenerationsInv'
<1>1. \A i \in DOMAIN log : log[i].by \in Attempts
  BY KeysTyped DEF Receipt
<1>2. ActiveIsLast'
  BY <1>1, LedgerAssumption DEF GenerationsInv, ActiveIsLast
<1>3. WritersWereAdmitted'
  BY <1>1 DEF GenerationsInv, WritersWereAdmitted
<1>4. GenerationsInOrder'
  BY DEF GenerationsInv, GenerationsInOrder
<1>5. QED
  BY <1>2, <1>3, <1>4 DEF GenerationsInv

\* Whoever moves the group keeps every attempt admitted.
LEMMA StaysAdmitted ==
    ASSUME TypeOK, NEW a \in Attempts, Owns(a), Moves(a)
    PROVE  /\ group'.active \in {group.active, None}
           /\ attempt'[a] # "none"
           /\ \A c \in Attempts : attempt[c] # "none" => attempt'[c] # "none"
<1>1. "none" \notin Working \cup Outcomes
  BY DEF Working, Outcomes
<1>2. attempt'[a] \in Working \cup Outcomes /\ \A c \in Attempts \ {a} : attempt'[c] = attempt[c]
  BY MovesWriter DEF TypeOK
<1>3. QED
  BY <1>1, <1>2, MovesWriter DEF Owns

LEMMA GenerationsStep ==
    TypeOK /\ GenerationsInv /\ [Next]_vars => GenerationsInv'
<1> SUFFICES ASSUME TypeOK, GenerationsInv, [Next]_vars
             PROVE  GenerationsInv'
  OBVIOUS
<1>t. \A i \in DOMAIN log : log[i].by \in Attempts
  BY KeysTyped DEF Receipt
<1>1. CASE UNCHANGED vars
  BY <1>1, SameLog DEF vars
<1>2. ASSUME NEW b \in Attempts, Admit(b) \/ \E a \in Attempts : Recover(a, b)
      PROVE  GenerationsInv'
  <2>1. group'.active = b /\ attempt[b] = "none" /\ UNCHANGED log
    BY <1>2, TakeOver
  <2>2. \A i \in DOMAIN log : log[i].by # b
    BY <2>1 DEF GenerationsInv, WritersWereAdmitted
  <2>3. \A c \in Attempts : attempt[c] # "none" => attempt'[c] # "none"
    <3>1. CASE Admit(b)
      BY <3>1 DEF Admit, TypeOK
    <3>2. ASSUME NEW a \in Attempts, Recover(a, b)
          PROVE  \A c \in Attempts : attempt[c] # "none" => attempt'[c] # "none"
      BY <3>2 DEF Recover, Fenced, TypeOK
    <3>3. QED
      BY <1>2, <3>1, <3>2
  <2>4. ActiveIsLast'
    BY <2>1, <2>2 DEF ActiveIsLast
  <2>5. WritersWereAdmitted'
    BY <1>t, <2>1, <2>3 DEF GenerationsInv, WritersWereAdmitted
  <2>6. GenerationsInOrder'
    BY <2>1 DEF GenerationsInv, GenerationsInOrder
  <2>7. QED
    BY <2>4, <2>5, <2>6 DEF GenerationsInv
<1>3. ASSUME NEW a \in Attempts, Owns(a), Moves(a), UNCHANGED log
      PROVE  GenerationsInv'
  BY <1>3, StaysAdmitted, SameLog
<1>4. ASSUME NEW a \in Attempts, NEW e \in Receipt, Owns(a), Moves(a), Adds(a, e)
      PROVE  GenerationsInv'
  <2> DEFINE n == Len(log) + 1
  <2>1. /\ DOMAIN log = 1..Len(log) /\ Len(log) \in Nat /\ DOMAIN log' = 1..n
        /\ log'[n] = e /\ e.by = a
        /\ \A i \in DOMAIN log : i \in DOMAIN log' /\ log'[i] = log[i]
    BY <1>4, AddsLog
  <2>2. group.active = a
    BY <1>4 DEF Owns
  <2>3. group'.active \in {a, None} /\ attempt'[a] # "none"
        /\ \A c \in Attempts : attempt[c] # "none" => attempt'[c] # "none"
    BY <1>4, <2>2, StaysAdmitted
  <2>4. \A i, j \in DOMAIN log' : i < j /\ log'[i].by = a => log'[j].by = a
    BY <2>1, <2>2 DEF GenerationsInv, ActiveIsLast
  <2>5. \A i \in DOMAIN log' : log'[i].by \in Attempts
    BY <1>t, <2>1
  <2>6. ActiveIsLast'
    BY <2>3, <2>4, <2>5, LedgerAssumption DEF ActiveIsLast
  <2>7. WritersWereAdmitted'
    BY <1>t, <2>1, <2>3 DEF GenerationsInv, WritersWereAdmitted
  <2>8. GenerationsInOrder'
    <3> SUFFICES ASSUME NEW i \in DOMAIN log', NEW j \in DOMAIN log', NEW k \in DOMAIN log',
                        i < j, j < k, log'[i].by = log'[k].by
                 PROVE  log'[j].by = log'[i].by
      BY DEF GenerationsInOrder
    <3>1. CASE k = n
      BY <2>1, <2>4, <3>1
    <3>2. CASE k # n
      BY <2>1, <3>2 DEF GenerationsInv, GenerationsInOrder
    <3>3. QED
      BY <3>1, <3>2
  <2>9. QED
    BY <2>6, <2>7, <2>8 DEF GenerationsInv
<1>5. ASSUME NEW a \in Attempts, CleanUp(a)
      PROVE  GenerationsInv'
  <2>1. UNCHANGED <<attempt, log>> /\ group'.active = group.active
    BY <1>5 DEF CleanUp, MayCleanUp, TypeOK, Group
  <2>2. QED
    BY <2>1, SameLog
<1>6. QED
  BY <1>1, <1>2, <1>3, <1>4, <1>5, NextIsStep DEF Step

\* A fenced writer is silent for ever: no receipt of an earlier generation follows
\* one of a later generation.
THEOREM GenerationsInOrderAlways == Spec => []GenerationsInOrder
<1>1. Init => GenerationsInv
  BY DEF Init, GenerationsInv, ActiveIsLast, WritersWereAdmitted, GenerationsInOrder
<1>2. TypeOK /\ GenerationsInv /\ [Next]_vars => GenerationsInv'
  BY GenerationsStep
<1>3. GenerationsInv => GenerationsInOrder
  BY DEF GenerationsInv
<1>4. QED
  BY <1>1, <1>2, <1>3, TypeCorrect, PTL DEF Spec

----------------------------------------------------------------------------
(***************************************************************************)
(* The chain behind a merge.  A reviewed group's log ends with the review; *)
(* a conditional receipt follows the approval it relies on immediately; a  *)
(* merge outcome cites a conditional receipt; and a merged group has the   *)
(* outcome that merged it.                                                 *)
(***************************************************************************)
ReviewIsLast ==
    group.state = "reviewed" =>
        /\ Len(log) \in DOMAIN log
        /\ log[Len(log)].type = "review_receipt" /\ log[Len(log)].by = group.active

ConditionalOnApproval ==
    \A c \in DOMAIN log : log[c].type = "conditional_merge_receipt" =>
        /\ c - 1 \in DOMAIN log
        /\ log[c - 1].type = "review_receipt" /\ log[c - 1].outcome = "approved"
        /\ log[c - 1].head = log[c].head /\ log[c - 1].by = log[c].by
        /\ log[c - 1].actor # log[c].actor
        /\ log[c].bound = log[c - 1].key

MergeOnConditional ==
    \A m \in DOMAIN log : log[m].type = "merge_outcome" =>
        \E c \in DOMAIN log :
            /\ c < m /\ log[c].type = "conditional_merge_receipt"
            /\ log[c].head = log[m].head /\ log[c].by = log[m].by
            /\ log[c].actor = log[m].actor
            /\ log[m].bound = log[c].key

MergedByOutcome ==
    group.outcome = "merged" =>
        \E m \in DOMAIN log :
            /\ log[m].type = "merge_outcome" /\ log[m].outcome = "merged"
            /\ log[m].head = group.head /\ log[m].by = group.endedBy

MergeChain == ReviewIsLast /\ ConditionalOnApproval /\ MergeOnConditional /\ MergedByOutcome

\* A log that stays as it is, and a group that is not reviewed or merged by this step.
LEMMA ChainKept ==
    ASSUME TypeOK, MergeChain, UNCHANGED log, group'.state # "reviewed",
           group'.outcome = "merged" =>
             /\ group.outcome = "merged"
             /\ group'.head = group.head /\ group'.endedBy = group.endedBy
    PROVE  MergeChain'
<1>1. ReviewIsLast'
  BY DEF ReviewIsLast
<1>2. ConditionalOnApproval' /\ MergeOnConditional'
  BY DEF MergeChain, ConditionalOnApproval, MergeOnConditional
<1>3. MergedByOutcome'
  BY DEF MergeChain, MergedByOutcome
<1>4. QED
  BY <1>1, <1>2, <1>3 DEF MergeChain

LEMMA ChainStep == TypeOK /\ MergeChain /\ [Next]_vars => MergeChain'
<1> SUFFICES ASSUME TypeOK, MergeChain, [Next]_vars
             PROVE  MergeChain'
  OBVIOUS
<1>1. CASE UNCHANGED vars
  BY <1>1 DEF vars, MergeChain, ReviewIsLast, ConditionalOnApproval, MergeOnConditional,
              MergedByOutcome
<1>2. ASSUME NEW b \in Attempts, Admit(b) \/ \E a \in Attempts : Recover(a, b)
      PROVE  MergeChain'
  <2>1. group'.state = "admitted" /\ group'.outcome = None /\ UNCHANGED log
    BY <1>2, TakeOver
  <2>2. QED
    BY <2>1, ChainKept, LedgerAssumption
<1>3. ASSUME NEW a \in Attempts, Owns(a), Moves(a), UNCHANGED log, Quiet
      PROVE  MergeChain'
  BY <1>3, ChainKept DEF Quiet
<1>4. ASSUME NEW a \in Attempts, NEW e \in Receipt, Owns(a), Moves(a), Adds(a, e),
             group'.state = "reviewed" => e.type = "review_receipt",
             group'.outcome = "merged"
               => e.type = "merge_outcome" /\ e.outcome = "merged" /\ e.head = group'.head,
             e.type = "conditional_merge_receipt" => group.state = "reviewed"
      PROVE  MergeChain'
  <2> DEFINE n == Len(log) + 1
  <2>1. /\ log' \in Seq(Receipt) /\ Len(log') = n
        /\ DOMAIN log = 1..Len(log) /\ Len(log) \in Nat /\ DOMAIN log' = 1..n
        /\ log'[n] = e /\ e.by = a
        /\ \A i \in DOMAIN log : i \in DOMAIN log' /\ log'[i] = log[i]
    BY <1>4, AddsLog DEF TypeOK, Adds
  <2>2. group.active = a /\ a # None
    BY <1>4, LedgerAssumption DEF Owns
  <2>3. TypeOK'
    BY TypeStep
  <2>4. ReviewIsLast'
    <3> SUFFICES ASSUME group'.state = "reviewed"
                 PROVE  /\ Len(log') \in DOMAIN log'
                        /\ log'[Len(log')].type = "review_receipt"
                        /\ log'[Len(log')].by = group'.active
      BY DEF ReviewIsLast
    <3>1. group'.outcome = None
      BY <2>3, LedgerAssumption DEF TypeOK, Group, Outcomes
    <3>2. group'.active = a
      BY <1>4, <3>1, MovesWriter, LedgerAssumption DEF Outcomes
    <3>3. QED
      BY <1>4, <2>1, <3>2
  <2>5. ConditionalOnApproval'
    <3> SUFFICES ASSUME NEW c \in DOMAIN log',
                        log'[c].type = "conditional_merge_receipt"
                 PROVE  /\ c - 1 \in DOMAIN log'
                        /\ log'[c - 1].type = "review_receipt"
                        /\ log'[c - 1].outcome = "approved"
                        /\ log'[c - 1].head = log'[c].head /\ log'[c - 1].by = log'[c].by
                        /\ log'[c - 1].actor # log'[c].actor
                        /\ log'[c].bound = log'[c - 1].key
      BY DEF ConditionalOnApproval
    <3>1. CASE c # n
      <4>1. c \in DOMAIN log /\ log'[c] = log[c]
        BY <2>1, <3>1
      <4>2. c - 1 \in DOMAIN log
        BY <4>1 DEF MergeChain, ConditionalOnApproval
      <4>3. QED
        BY <2>1, <4>1, <4>2 DEF MergeChain, ConditionalOnApproval
    <3>2. CASE c = n
      <4>1. /\ Len(log) \in DOMAIN log
            /\ log[Len(log)].type = "review_receipt" /\ log[Len(log)].by = a
        BY <1>4, <2>1, <2>2, <3>2 DEF MergeChain, ReviewIsLast
      <4>2. PICK i \in DOMAIN log :
                Approves(i, a, e.head, e.actor) /\ e.bound = log[i].key
        BY <1>4, <2>1, <3>2 DEF Adds
      <4>3. i = Len(log)
        BY <2>1, <4>1, <4>2 DEF Approves, Latest
      <4>4. c - 1 = Len(log) /\ log'[c - 1] = log[i] /\ log'[c] = e /\ c - 1 \in DOMAIN log'
        BY <2>1, <3>2, <4>1, <4>3
      <4>5. QED
        BY <2>1, <4>2, <4>4 DEF Approves, Latest
    <3>3. QED
      BY <3>1, <3>2
  <2>6. MergeOnConditional'
    <3> SUFFICES ASSUME NEW m \in DOMAIN log', log'[m].type = "merge_outcome"
                 PROVE  \E c \in DOMAIN log' :
                          /\ c < m /\ log'[c].type = "conditional_merge_receipt"
                          /\ log'[c].head = log'[m].head /\ log'[c].by = log'[m].by
                          /\ log'[c].actor = log'[m].actor
                          /\ log'[m].bound = log'[c].key
      BY DEF MergeOnConditional
    <3>1. CASE m # n
      <4>1. m \in DOMAIN log /\ log'[m] = log[m]
        BY <2>1, <3>1
      <4>2. QED
        BY <2>1, <4>1 DEF MergeChain, MergeOnConditional
    <3>2. CASE m = n
      <4>1. PICK i \in DOMAIN log : Cited(i, a, e.head, e.actor) /\ e.bound = log[i].key
        BY <1>4, <2>1, <3>2 DEF Adds
      <4>2. i < m /\ i \in DOMAIN log' /\ log'[i] = log[i] /\ log'[m] = e
        BY <2>1, <3>2
      <4>3. QED
        BY <2>1, <4>1, <4>2 DEF Cited
    <3>3. QED
      BY <3>1, <3>2
  <2>7. MergedByOutcome'
    <3> SUFFICES ASSUME group'.outcome = "merged"
                 PROVE  \E m \in DOMAIN log' :
                          /\ log'[m].type = "merge_outcome" /\ log'[m].outcome = "merged"
                          /\ log'[m].head = group'.head /\ log'[m].by = group'.endedBy
      BY DEF MergedByOutcome
    <3>1. group'.endedBy = a
      BY <1>4, MovesWriter, LedgerAssumption
    <3>2. QED
      BY <1>4, <2>1, <3>1
  <2>8. QED
    BY <2>4, <2>5, <2>6, <2>7 DEF MergeChain
<1>5. ASSUME NEW a \in Attempts, CleanUp(a)
      PROVE  MergeChain'
  <2>1. /\ UNCHANGED log /\ group'.state = "cleanup_eligible"
        /\ group'.outcome = group.outcome /\ group'.head = group.head
        /\ group'.endedBy = group.endedBy
    BY <1>5 DEF CleanUp, MayCleanUp, TypeOK, Group
  <2>2. QED
    BY <2>1, ChainKept
<1>6. QED
  BY <1>1, <1>2, <1>3, <1>4, <1>5, NextIsStep DEF Step

LEMMA ChainAlways == Spec => []MergeChain
<1>1. Init => MergeChain
  BY LedgerAssumption
     DEF Init, MergeChain, ReviewIsLast, ConditionalOnApproval, MergeOnConditional,
         MergedByOutcome
<1>2. TypeOK /\ MergeChain /\ [Next]_vars => MergeChain'
  BY ChainStep
<1>3. QED
  BY <1>1, <1>2, TypeCorrect, PTL DEF Spec

LEMMA ChainMerged == TypeOK /\ MergeChain => MergedWasApproved
<1> SUFFICES ASSUME TypeOK, MergeChain, group.outcome = "merged"
             PROVE  MergedWasApproved
  BY DEF MergedWasApproved
<1>1. PICK m \in DOMAIN log :
         /\ log[m].type = "merge_outcome"
         /\ log[m].head = group.head /\ log[m].by = group.endedBy
  BY DEF MergeChain, MergedByOutcome
<1>2. PICK c \in DOMAIN log :
         /\ c < m /\ log[c].type = "conditional_merge_receipt"
         /\ log[c].head = log[m].head /\ log[c].by = log[m].by
         /\ log[c].actor = log[m].actor
         /\ log[m].bound = log[c].key
  BY <1>1 DEF MergeChain, MergeOnConditional
<1>3. /\ c - 1 \in DOMAIN log
      /\ log[c - 1].type = "review_receipt" /\ log[c - 1].outcome = "approved"
      /\ log[c - 1].head = log[c].head /\ log[c - 1].by = log[c].by
      /\ log[c - 1].actor # log[c].actor
      /\ log[c].bound = log[c - 1].key
  BY <1>2 DEF MergeChain, ConditionalOnApproval
<1>4. PICK r \in DOMAIN log : r = c - 1
  BY <1>3
<1>5. DOMAIN log \subseteq Int
  BY DEF TypeOK
<1>6. r < c /\ \A i \in DOMAIN log : ~(r < i /\ i < c)
  BY <1>4, <1>5
<1>7. QED
  BY <1>1, <1>2, <1>3, <1>4, <1>6 DEF MergedWasApproved

\* Whatever was recorded as merged, in a group of any number of generations, reviews
\* and repairs, was approved at that head by another than the operator, and the
\* approval was the last word when the operator relied on it.
THEOREM MergedWasApprovedAlways == Spec => []MergedWasApproved
  BY ChainMerged, ChainAlways, TypeCorrect, PTL

LEMMA ChainProven == TypeOK /\ MergeChain /\ group.outcome = "merged" => Proven
<1> SUFFICES ASSUME TypeOK, MergeChain, group.outcome = "merged"
             PROVE  Proven
  OBVIOUS
<1>1. PICK m \in DOMAIN log :
         /\ log[m].type = "merge_outcome" /\ log[m].outcome = "merged"
         /\ log[m].head = group.head
  BY DEF MergeChain, MergedByOutcome
<1>2. PICK c \in DOMAIN log :
         /\ log[c].type = "conditional_merge_receipt" /\ log[c].head = log[m].head
         /\ log[m].bound = log[c].key
  BY <1>1 DEF MergeChain, MergeOnConditional
<1>3. PICK r \in DOMAIN log :
         /\ log[r].type = "review_receipt" /\ log[r].outcome = "approved"
         /\ log[r].head = log[c].head /\ log[c].bound = log[r].key
  BY <1>2 DEF MergeChain, ConditionalOnApproval
<1>4. QED
  BY <1>1, <1>2, <1>3 DEF Proven

\* The safety part of MergedIsCleanedUp: a merged group is either eligible for cleanup
\* or has an attempt whose call for it the ledger accepts, so that only that call, and
\* no missing receipt, stands between a merge and its cleanup.
THEOREM MergedCanBeCleanedUp ==
    Spec => [](group.outcome = "merged" /\ group.state # "cleanup_eligible"
                => \E a \in Attempts : MayCleanUp(a))
<1>1. TypeOK /\ MergeChain =>
        (group.outcome = "merged" /\ group.state # "cleanup_eligible"
          => \E a \in Attempts : MayCleanUp(a))
  BY ChainProven, GroupFields, LedgerAssumption DEF TypeOK, MayCleanUp
<1>2. QED
  BY <1>1, ChainAlways, TypeCorrect, PTL

----------------------------------------------------------------------------
(***************************************************************************)
(* The abstract reviewed merge.  What the mapping reads off the log changes*)
(* with the receipts of the present writer only, and is empty for a writer *)
(* that has just taken over and for a group that has none.                 *)
(***************************************************************************)
Retired == {a \in Attempts : attempt[a] \in Outcomes \cup {"fenced"}}

Merged == IF group.outcome = "merged" THEN {group.head} ELSE {}

LEMMA SilentWriter ==
    ASSUME \A i \in DOMAIN log : log[i].by # group.active
    PROVE  Standing = {} /\ Licences = {}
  BY DEF Standing, Licences, Stands, Licenses, Spoken

LEMMA SilentAfter ==
    ASSUME \A i \in DOMAIN log' : log'[i].by # group'.active
    PROVE  Standing' = {} /\ Licences' = {}
  BY DEF Standing, Licences, Stands, Licenses, Spoken

LEMMA SameWords ==
    ASSUME log' = log, group'.active = group.active
    PROVE  Standing' = Standing /\ Licences' = Licences
  BY DEF Standing, Licences, Stands, Licenses, Spoken

\* What one more receipt of the present writer does to what was said to it.
LEMMA WordsAfter ==
    ASSUME TypeOK, NEW a \in Attempts, NEW e \in Receipt, Adds(a, e),
           group.active = a, group'.active = a
    PROVE  /\ e.type = "review_requested" => Standing' = {}
           /\ e.type = "review_receipt" =>
                Standing' = IF e.outcome = "approved" THEN {<<e.head, e.actor>>} ELSE {}
           /\ e.type \notin {"review_requested", "review_receipt"} => Standing' = Standing
           /\ Licences' = IF e.type = "conditional_merge_receipt"
                          THEN Licences \cup {<<e.head, e.actor>>} ELSE Licences
<1> DEFINE n == Len(log) + 1
<1>1. /\ DOMAIN log = 1..Len(log) /\ Len(log) \in Nat /\ DOMAIN log' = 1..n
      /\ log'[n] = e /\ e.by = a
      /\ \A i \in DOMAIN log : i \in DOMAIN log' /\ log'[i] = log[i] /\ i < n
  BY AddsLog
<1>2. DOMAIN log' = DOMAIN log \cup {n} /\ n \notin DOMAIN log /\ n \in Nat
  BY <1>1
<1>3. \A i \in DOMAIN log : /\ Spoken(i)' <=> Spoken(i)
                            /\ Licenses(i)' <=> Licenses(i)
  BY <1>1 DEF Spoken, Licenses
<1>n. PICK m \in Nat : m = n
  BY <1>2
<1>4. /\ Spoken(m)' <=> e.type \in {"review_requested", "review_receipt"}
      /\ Licenses(m)' <=> e.type = "conditional_merge_receipt"
  BY <1>1, <1>n DEF Spoken, Licenses
<1>5. /\ m \in DOMAIN log' /\ m \notin DOMAIN log /\ log'[m] = e
      /\ DOMAIN log' = DOMAIN log \cup {m}
      /\ \A i \in DOMAIN log : i < m /\ i \in Nat /\ ~(m <= i) /\ i <= m
  BY <1>1, <1>2, <1>n
<1> HIDE DEF n
<1>6. CASE e.type \in {"review_requested", "review_receipt"}
  <2>1. \A i \in DOMAIN log : ~Stands(i)'
    BY <1>4, <1>5, <1>6 DEF Stands
  <2>2. Stands(m)' <=> e.type = "review_receipt" /\ e.outcome = "approved"
    BY <1>4, <1>5, <1>6 DEF Stands
  <2>3. Standing' = IF e.type = "review_receipt" /\ e.outcome = "approved"
                    THEN {<<e.head, e.actor>>} ELSE {}
    BY <1>5, <2>1, <2>2 DEF Standing
  <2>4. \A i \in DOMAIN log' : Licenses(i)' <=> i \in DOMAIN log /\ Licenses(i)
    BY <1>3, <1>4, <1>5, <1>6
  <2>5. Licences' = Licences
    BY <1>1, <1>5, <2>4 DEF Licences
  <2>6. QED
    BY <1>6, <2>3, <2>5
<1>7. CASE e.type \notin {"review_requested", "review_receipt"}
  <2>1. \A i \in DOMAIN log : Stands(i)' <=> Stands(i)
    BY <1>1, <1>3, <1>4, <1>5, <1>7 DEF Stands
  <2>2. ~Stands(m)'
    BY <1>4, <1>7 DEF Stands
  <2>3. Standing' = Standing
    BY <1>1, <1>5, <2>1, <2>2 DEF Standing
  <2>4. CASE e.type = "conditional_merge_receipt"
    <3>1. Licenses(m)'
      BY <1>4, <2>4
    <3>2. Licences' = Licences \cup {<<e.head, e.actor>>}
      BY <1>1, <1>3, <1>5, <3>1 DEF Licences
    <3>3. QED
      BY <1>7, <2>3, <2>4, <3>2
  <2>5. CASE e.type # "conditional_merge_receipt"
    <3>1. ~Licenses(m)'
      BY <1>4, <2>5
    <3>2. Licences' = Licences
      BY <1>1, <1>3, <1>5, <3>1 DEF Licences
    <3>3. QED
      BY <1>7, <2>3, <2>5, <3>2
  <2>6. QED
    BY <2>4, <2>5
<1>8. QED
  BY <1>6, <1>7

\* The end of a group, in the abstract: the writer leaves.
LEMMA EndsContract ==
    ASSUME TypeOK, NEW a \in Attempts, Owns(a), Moves(a), group'.active = None,
           \A i \in DOMAIN log' : log'[i].by \in Attempts
    PROVE  /\ group.active = a /\ a # None /\ Merged = {}
           /\ Retired' = Retired \cup {a}
           /\ Standing' = {} /\ Licences' = {}
<1>1. group.active = a /\ a # None /\ group.outcome = None
  BY LedgerAssumption DEF Owns
<1>2. Merged = {}
  BY <1>1, LedgerAssumption DEF Merged
<1>3. group'.outcome \in Outcomes /\ attempt' = [attempt EXCEPT ![a] = group'.outcome]
  BY <1>1, MovesWriter
<1>4. Retired' = Retired \cup {a}
  BY <1>3 DEF Retired, TypeOK
<1>5. \A i \in DOMAIN log' : log'[i].by # group'.active
  BY LedgerAssumption
<1>6. QED
  BY <1>1, <1>2, <1>4, <1>5, SilentAfter

\* The writer works on: it is still there, and nobody else leaves.
LEMMA WorksOn ==
    ASSUME TypeOK, OneWriter, NEW a \in Attempts, Owns(a), Moves(a), group'.active # None
    PROVE  /\ group.active = a /\ group'.active = a /\ a # None
           /\ Retired' = Retired /\ Merged' = Merged /\ Merged = {}
<1>1. group.active = a /\ a # None /\ group.outcome = None
  BY LedgerAssumption DEF Owns
<1>2. /\ group'.active = a /\ group'.outcome = None
      /\ \E w \in Working : attempt' = [attempt EXCEPT ![a] = w]
  BY MovesWriter
<1>3. attempt[a] \in Working /\ Working \cap (Outcomes \cup {"fenced"}) = {}
  BY <1>1 DEF OneWriter, Working, Outcomes
<1>4. Retired' = Retired
  BY <1>2, <1>3 DEF Retired, TypeOK
<1>5. QED
  BY <1>1, <1>2, <1>4, LedgerAssumption DEF Merged

\* Before its admission a group has had no writer.
FreshGroup == group.state = "absent" => \A a \in Attempts : attempt[a] = "none"

LEMMA FreshStep == TypeOK /\ FreshGroup /\ [Next]_vars => FreshGroup'
<1> SUFFICES ASSUME TypeOK, FreshGroup, [Next]_vars, group'.state = "absent"
             PROVE  \A a \in Attempts : attempt'[a] = "none"
  BY DEF FreshGroup
<1>1. ASSUME NEW b \in Attempts, Admit(b) \/ \E a \in Attempts : Recover(a, b)
      PROVE  FALSE
  BY <1>1, TakeOver
<1>2. ASSUME NEW a \in Attempts, Moves(a)
      PROVE  FALSE
  BY <1>2, GroupFields DEF Moves, End, Ended, TypeOK, Group, Outcomes
<1>3. ASSUME NEW a \in Attempts, CleanUp(a)
      PROVE  FALSE
  BY <1>3 DEF CleanUp, MayCleanUp, TypeOK, Group
<1>4. CASE UNCHANGED vars
  BY <1>4 DEF vars, FreshGroup
<1>5. QED
  BY <1>1, <1>2, <1>3, <1>4, NextIsStep DEF Step

\* Reviews, licences and merges have an actor.
Signed == \A i \in DOMAIN log : log[i].type # "review_requested" => log[i].actor \in Actors

LEMMA SignedStep == TypeOK /\ Signed /\ [Next]_vars => Signed'
<1> SUFFICES ASSUME TypeOK, Signed, [Next]_vars
             PROVE  Signed'
  OBVIOUS
<1>1. CASE UNCHANGED log
  BY <1>1 DEF Signed
<1>2. ASSUME NEW a \in Attempts, NEW e \in Receipt, Adds(a, e)
      PROVE  Signed'
  <2>1. /\ e.type # "review_requested" => e.actor \in Actors
        /\ \A i \in DOMAIN log' : (i \in DOMAIN log /\ log'[i] = log[i]) \/ log'[i] = e
    BY <1>2, AddsLog DEF Adds
  <2>2. QED
    BY <2>1 DEF Signed
<1>3. QED
  BY <1>1, <1>2, NextIsStep DEF Step, vars, Admit, Recover, CleanUp

LEMMA ContractStep ==
    ASSUME TypeOK, OneWriter, FreshGroup, Signed, GenerationsInv, MergeChain, [Next]_vars
    PROVE  [Contract!Next]_(Contract!vars)
<1> USE DEF Retired, Merged
<1>t. \A i \in DOMAIN log : log[i].by \in Attempts
  BY KeysTyped DEF Receipt
<1>1. CASE UNCHANGED vars
  BY <1>1, SameWords DEF vars, Contract!vars
<1>2. ASSUME NEW b \in Attempts, Admit(b) \/ \E a \in Attempts : Recover(a, b)
      PROVE  Contract!TakeOver(b)
  <2>1. /\ group'.active = b /\ group'.outcome = None /\ attempt[b] = "none"
        /\ UNCHANGED log /\ b # None
    BY <1>2, TakeOver, LedgerAssumption
  <2>2. Standing' = {} /\ Licences' = {}
    BY <2>1, SilentAfter DEF GenerationsInv, WritersWereAdmitted
  <2>3. "none" \notin Working \cup Outcomes \cup {"fenced"}
    BY DEF Working, Outcomes
  <2>4. b \notin Retired \cup {group.active}
    BY <2>1, <2>3 DEF OneWriter
  <2>5. CASE Admit(b)
    <3>1. group.active = None /\ group.outcome = None /\ \A a \in Attempts : attempt[a] = "none"
      BY <2>5, GroupFields, LedgerAssumption
         DEF Admit, Admissible, TypeOK, FreshGroup, Outcomes
    <3>2. attempt' = [attempt EXCEPT ![b] = "admitted"] /\ "admitted" \notin Outcomes \cup {"fenced"}
      BY <2>5 DEF Admit, Outcomes
    <3>3. Retired = {} /\ Retired' = {}
      BY <2>3, <3>1, <3>2 DEF TypeOK
    <3>4. Merged = {} /\ Merged' = {}
      BY <2>1, <3>1, LedgerAssumption
    <3>5. QED
      BY <2>1, <2>2, <2>4, <3>1, <3>3, <3>4 DEF Contract!TakeOver
  <2>6. ASSUME NEW a \in Attempts, Recover(a, b)
        PROVE  Contract!TakeOver(b)
    <3>1. group.active = a /\ group.outcome = None /\ a # None /\ a # b
      BY <2>4, <2>6, LedgerAssumption DEF Recover, Owns
    <3>2. /\ attempt' = [attempt EXCEPT ![a] = "fenced", ![b] = "admitted"]
          /\ "admitted" \notin Outcomes \cup {"fenced"}
      BY <2>6 DEF Recover, Fenced, Outcomes
    <3>3. Retired' = Retired \cup {a}
      BY <2>1, <2>3, <3>1, <3>2 DEF TypeOK
    <3>4. Merged = {} /\ Merged' = {}
      BY <2>1, <3>1, LedgerAssumption
    <3>5. QED
      BY <2>1, <2>2, <2>4, <3>1, <3>3, <3>4 DEF Contract!TakeOver, Contract!Working
  <2>7. QED
    BY <1>2, <2>5, <2>6
<1>3. ASSUME NEW a \in Attempts, Owns(a), Moves(a), UNCHANGED log, Quiet
      PROVE  [Contract!Next]_(Contract!vars)
  <2>1. CASE group'.active = None
    <3>1. /\ group.active = a /\ a # None /\ Merged = {}
          /\ Retired' = Retired \cup {a} /\ Standing' = {} /\ Licences' = {}
      BY <1>t, <1>3, <2>1, EndsContract
    <3>2. Merged' = {}
      BY <1>3 DEF Quiet
    <3>3. Contract!Close
      BY <2>1, <3>1, <3>2 DEF Contract!Close, Contract!Leave, Contract!Working
    <3>4. QED
      BY <3>3 DEF Contract!Next
  <2>2. CASE group'.active # None
    BY <1>3, <2>2, WorksOn, SameWords DEF Contract!vars
  <2>3. QED
    BY <2>1, <2>2
<1>4. ASSUME NEW a \in Attempts, NEW e \in Receipt, Owns(a), Moves(a), Adds(a, e),
             group'.outcome = "merged"
               => e.type = "merge_outcome" /\ e.outcome = "merged" /\ e.head = group'.head,
             e.type = "conditional_merge_receipt" => group.state = "reviewed"
      PROVE  [Contract!Next]_(Contract!vars)
  <2>0. /\ group.active = a /\ e.by = a /\ e.head \in Heads
        /\ e.type # "review_requested" => e.actor \in Actors
    BY <1>4 DEF Owns, Adds, Receipt
  <2>1. CASE group'.active = None
    <3>1. \A i \in DOMAIN log' : log'[i].by \in Attempts
      BY <1>t, <1>4, AddsLog
    <3>2. /\ a # None /\ Merged = {}
          /\ Retired' = Retired \cup {a} /\ Standing' = {} /\ Licences' = {}
      BY <1>4, <2>1, <3>1, EndsContract
    <3>3. Contract!Leave
      BY <2>0, <2>1, <3>2 DEF Contract!Leave, Contract!Working
    <3>4. CASE group'.outcome = "merged"
      <4>1. PICK i \in DOMAIN log : Cited(i, a, e.head, e.actor)
        BY <1>4, <3>4 DEF Adds
      <4>2. <<e.head, e.actor>> \in Licences /\ e.actor \in Actors
        BY <1>4, <2>0, <3>4, <4>1 DEF Cited, Licences, Licenses
      <4>3. Merged' = {e.head}
        BY <1>4, <3>4
      <4>4. Contract!Merge(e.head)
        BY <3>3, <4>2, <4>3 DEF Contract!Merge
      <4>5. QED
        BY <2>0, <4>4 DEF Contract!Next
    <3>5. CASE group'.outcome # "merged"
      BY <3>2, <3>3, <3>5 DEF Contract!Close, Contract!Next
    <3>6. QED
      BY <3>4, <3>5
  <2>2. CASE group'.active # None
    <3>1. /\ group'.active = a /\ a # None
          /\ Retired' = Retired /\ Merged' = Merged /\ Merged = {}
      BY <1>4, <2>2, WorksOn
    <3> HIDE DEF Retired, Merged
    <3>2. CASE e.type \in {"review_requested", "review_receipt"}
      <4>1. Standing' \in {{}} \cup {{x} : x \in Heads \X Actors} /\ Licences' = Licences
        BY <1>4, <2>0, <3>1, <3>2, WordsAfter
      <4>2. Contract!Judge
        BY <2>0, <3>1, <4>1 DEF Contract!Judge, Contract!Working, Retired, Merged
      <4>3. QED
        BY <4>2 DEF Contract!Next
    <3>3. CASE e.type = "conditional_merge_receipt"
      <4>1. Standing' = Standing /\ Licences' = Licences \cup {<<e.head, e.actor>>}
        BY <1>4, <2>0, <3>1, <3>3, WordsAfter
      <4>2. PICK i \in DOMAIN log : Approves(i, a, e.head, e.actor)
        BY <1>4, <3>3 DEF Adds
      <4>3. i = Len(log) /\ DOMAIN log = 1..Len(log) /\ Len(log) \in Nat
        BY <1>4, <2>0, <3>3, <4>2, AddsLog DEF MergeChain, ReviewIsLast, Approves, Latest
      <4>4. Stands(i)
        BY <2>0, <4>2, <4>3 DEF Stands, Spoken, Approves, Latest
      <4>5. log[i].actor \in Actors \ {e.actor} /\ <<e.head, log[i].actor>> \in Standing
        BY <4>2, <4>4 DEF Signed, Approves, Latest, Standing
      <4>6. Contract!License(e.head, e.actor)
        BY <2>0, <3>1, <4>1, <4>5 DEF Contract!License, Contract!Working, Retired, Merged
      <4>7. QED
        BY <2>0, <3>3, <4>6 DEF Contract!Next
    <3>4. CASE e.type = "merge_outcome"
      <4>1. Standing' = Standing /\ Licences' = Licences
        BY <1>4, <2>0, <3>1, <3>4, WordsAfter
      <4>2. QED
        BY <2>0, <3>1, <4>1 DEF Contract!vars, Retired, Merged
    <3>5. QED
      BY <3>2, <3>3, <3>4 DEF Receipt
  <2>3. QED
    BY <2>1, <2>2
<1>5. ASSUME NEW a \in Attempts, CleanUp(a)
      PROVE  UNCHANGED Contract!vars
  <2>1. /\ UNCHANGED <<attempt, log>> /\ group'.active = group.active
        /\ group'.outcome = group.outcome /\ group'.head = group.head
    BY <1>5 DEF CleanUp, MayCleanUp, TypeOK, Group
  <2>2. QED
    BY <2>1, SameWords DEF Contract!vars
<1>6. QED
  BY <1>1, <1>2, <1>3, <1>4, <1>5, NextIsStep DEF Step, Contract!Next

\* Whatever the number of generations, reviews and repairs, the ledger implements the
\* reviewed merge: a merge has a licence of its own writer, given to its operator when
\* the last word of the reviewers was another's approval of that head.
THEOREM LedgerImplementsReviewedMerge == Spec => MergesAreReviewed
<1>1. Init => FreshGroup /\ Signed /\ GenerationsInv
  BY DEF Init, FreshGroup, Signed, GenerationsInv, ActiveIsLast, WritersWereAdmitted,
         GenerationsInOrder
<1>2. Init => Contract!Init
  BY LedgerAssumption, SilentWriter DEF Init, Contract!Init, Outcomes
<1>3. /\ TypeOK /\ FreshGroup /\ Signed /\ GenerationsInv /\ [Next]_vars
        => FreshGroup' /\ Signed' /\ GenerationsInv'
  BY FreshStep, SignedStep, GenerationsStep
<1>4. /\ TypeOK /\ OneWriter /\ FreshGroup /\ Signed /\ GenerationsInv /\ MergeChain /\ [Next]_vars
        => [Contract!Next]_(Contract!vars)
  BY ContractStep
<1>5. QED
  BY <1>1, <1>2, <1>3, <1>4, TypeCorrect, OneWriterAlways, ChainAlways, PTL
     DEF Spec, MergesAreReviewed, Contract!Spec
=============================================================================
