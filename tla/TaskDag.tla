------------------------------ MODULE TaskDag ------------------------------
(***************************************************************************)
(* A graph of tasks that looks before it links, in one step: a task comes  *)
(* to wait for another only if no chain of prerequisites leads from that   *)
(* one back to it at that moment.  TaskDependencies implements it where    *)
(* one process adds edges, although its look is a walk of many statements  *)
(* and others write the graph meanwhile.                                   *)
(***************************************************************************)
VARIABLES
    nodes,    \* the tasks that exist
    created,  \* the tasks that ever did
    edges     \* <<task, prerequisite>>

vars == <<nodes, created, edges>>

Init == nodes = created /\ edges = {}

\* No chain leads from d to t: a set closed under prerequisites has d and not t.
LeadsAway(d, t) ==
    \E S \in SUBSET nodes :
        /\ d \in S /\ t \notin S
        /\ \A e \in edges : e[1] \in S => e[2] \in S

Link(t, d) ==
    /\ t \in nodes /\ d \in nodes
    /\ LeadsAway(d, t)
    /\ edges' = edges \cup {<<t, d>>}
    /\ UNCHANGED <<nodes, created>>

Unlink ==
    /\ \E e \in edges : edges' = edges \ {e}
    /\ UNCHANGED <<nodes, created>>

\* A task and the subtask that is to follow it come in together; ids are not reused.
Split ==
    \E first, second \in created' \ created :
        /\ first # second
        /\ nodes' = nodes \cup {first, second}
        /\ created' = created \cup {first, second}
        /\ edges' = edges \cup {<<second, first>>}

Remove(t) ==
    /\ t \in nodes
    /\ nodes' = nodes \ {t}
    /\ edges' = {e \in edges : e[1] # t /\ e[2] # t}
    /\ UNCHANGED created

Next ==
    \/ \E t, d \in nodes : Link(t, d)
    \/ \E t \in nodes : Remove(t)
    \/ Unlink \/ Split

Spec == Init /\ [][Next]_vars
=============================================================================
