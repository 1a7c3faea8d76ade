----------------------------- MODULE CreateOnce -----------------------------
(***************************************************************************)
(* What a registry promises the services that register objects with it,    *)
(* without receipts, keys, bindings, plans or retries.  A step registers   *)
(* one object of a kind and a target is registered once, for good; the     *)
(* object and its registration appear in one step, and a part only under a *)
(* whole that is registered and there.  Others write the rows as they      *)
(* please, but an id never names a second object.  A registered object is  *)
(* taken back once, alone, and only as it was created.                     *)
(* ProjectRegistration implements it.                                      *)
(***************************************************************************)
VARIABLES
    rows,        \* [id, kind, of, edited, used]: the objects there are
    registered,  \* [step, kind, target, id]: every registration there ever was
    withdrawn    \* ids of the objects that were taken back

vars == <<rows, registered, withdrawn>>

Init == rows = {} /\ registered = {} /\ withdrawn = {}

New(g) ==
    [id |-> g.id, kind |-> g.kind, of |-> g.target, edited |-> FALSE, used |-> FALSE]

\* A new registration repeats no step, target or id, and no row stands for its target.
Unheard(g) ==
    /\ \A h \in registered :
         /\ h.id # g.id
         /\ h.kind = g.kind => h.step # g.step /\ h.target # g.target
    /\ \A o \in rows : o.id # g.id /\ (o.kind = g.kind => o.of # g.target)

\* The whole of a part is registered, not withdrawn, and there.
HasWhole(g) ==
    g.kind = "task_list" =>
        /\ \E h \in registered : h.kind = "project" /\ h.id = g.target
        /\ g.target \notin withdrawn
        /\ \E o \in rows : o.id = g.target

Register(g) ==
    /\ Unheard(g) /\ HasWhole(g)
    /\ registered' = registered \cup {g}
    /\ rows' = rows \cup {New(g)}
    /\ UNCHANGED withdrawn

\* Nothing refers to the object of g and it is as it was created.
Untouched(g, o) ==
    /\ o.id = g.id /\ ~o.edited /\ ~o.used
    /\ g.kind = "project" => \A q \in rows : q.kind = "task_list" => q.of # g.id

Withdraw(g) ==
    /\ g.id \notin withdrawn
    /\ \E o \in rows : Untouched(g, o) /\ rows' = rows \ {o}
    /\ withdrawn' = withdrawn \cup {g.id}
    /\ UNCHANGED registered

\* Other writers create, change and delete rows; the ids of what is gone stay unused.
Others ==
    /\ UNCHANGED <<registered, withdrawn>>
    /\ \A o \in rows' : \/ \E q \in rows : q.id = o.id
                        \/ \A g \in registered : g.id # o.id
    /\ \A o, q \in rows' : o.id = q.id => o = q

Next ==
    \/ Others
    \/ \E g \in registered' \ registered : Register(g)
    \/ \E g \in registered : Withdraw(g)

Spec == Init /\ [][Next]_vars
=============================================================================
