--------------------------- MODULE ExclusiveLease ---------------------------
(***************************************************************************)
(* What a lease promises: nobody is granted an item while somebody else's  *)
(* grant of it lasts.  A grant lasts until an instant its holder is told,  *)
(* at most a lifetime away; its holder may be granted the item again, with *)
(* another end, and a grant may be given up.  The locks of tasks           *)
(* (TaskLifecycle) and those of paths and resources (Locks) implement it.  *)
(***************************************************************************)
EXTENDS Naturals

CONSTANTS
    Items,
    Holders,
    Lifetimes   \* how long grants may last

VARIABLES
    until,      \* until[i][h]: the last instant of h's grant of i, 0 for none
    now

vars == <<until, now>>

Holds(i, h) == until[i][h] >= now

Init ==
    /\ until = [i \in Items |-> [h \in Holders |-> 0]]
    /\ now = 1

Grant(i, h) ==
    /\ \A g \in Holders \ {h} : ~Holds(i, g)
    /\ \E life \in Lifetimes : \E end \in 0 .. now + life :
         until' = [until EXCEPT ![i][h] = end]
    /\ UNCHANGED now

\* Some grants, of one item or of several, are given up.
GiveUp ==
    /\ until' \in [Items -> [Holders -> Nat]]
    /\ \A i \in Items, h \in Holders : until'[i][h] \in {until[i][h], 0}
    /\ UNCHANGED now

Tick == now' = now + 1 /\ UNCHANGED until

Next == Tick \/ GiveUp \/ \E i \in Items, h \in Holders : Grant(i, h)

Spec == Init /\ [][Next]_vars
=============================================================================
