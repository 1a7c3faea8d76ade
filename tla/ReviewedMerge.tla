---------------------------- MODULE ReviewedMerge ----------------------------
(***************************************************************************)
(* What a ledger of a reviewed merge promises, without its log.  Writers   *)
(* follow one another and none comes back.  The last word of the reviewers *)
(* to the present writer may be an approval of a head; as long as it       *)
(* stands, another than the approver may be licensed to merge that head;   *)
(* the present writer merges only under a licence it was given.  A licence *)
(* outlives the approval, not the writer.  PrGroupLedger implements it.    *)
(***************************************************************************)
CONSTANTS
    Writers,
    Heads,
    Actors,
    Nobody      \* the writer of a group that has none

VARIABLES
    writer,
    retired,    \* writers before the present one
    standing,   \* {<<head, approver>>} if the last word was an approval, else {}
    licences,   \* <<head, operator>>: who may merge which head
    merged      \* {head} once a head is merged

vars == <<writer, retired, standing, licences, merged>>

Init ==
    /\ writer = Nobody
    /\ retired = {}
    /\ standing = {} /\ licences = {} /\ merged = {}

Working == writer # Nobody

\* The first writer, or one that replaces the present one.
TakeOver(w) ==
    /\ Working \/ retired = {}
    /\ w \notin retired \cup {writer}
    /\ writer' = w
    /\ retired' = retired \cup ({writer} \ {Nobody})
    /\ standing' = {} /\ licences' = {}
    /\ UNCHANGED merged

\* A request, a rejection or an approval: whatever was said before is void.
Judge ==
    /\ Working
    /\ standing' \in {{}} \cup {{x} : x \in Heads \X Actors}
    /\ UNCHANGED <<writer, retired, licences, merged>>

License(h, operator) ==
    /\ Working
    /\ \E r \in Actors \ {operator} : <<h, r>> \in standing
    /\ licences' = licences \cup {<<h, operator>>}
    /\ UNCHANGED <<writer, retired, standing, merged>>

Leave ==
    /\ Working
    /\ writer' = Nobody
    /\ retired' = retired \cup {writer}
    /\ standing' = {} /\ licences' = {}

Merge(h) ==
    /\ \E operator \in Actors : <<h, operator>> \in licences
    /\ Leave
    /\ merged' = {h}

Close == Leave /\ UNCHANGED merged

Next ==
    \/ \E w \in Writers : TakeOver(w)
    \/ \E h \in Heads : Merge(h) \/ \E operator \in Actors : License(h, operator)
    \/ Judge \/ Close

Spec == Init /\ [][Next]_vars
=============================================================================
