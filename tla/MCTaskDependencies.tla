------------------------ MODULE MCTaskDependencies ------------------------
(* Small instances of TaskDependencies. *)
EXTENDS TaskDependencies, TLC

CONSTANTS a, b, c, d, p1, p2

\* Two processes add edges.
TwoAdders == p1 :> {"add"} @@ p2 :> {"add"}

\* Both complete tasks while one of them adds edges and the other does everything
\* else that keeps the graph acyclic.
TwoCompleters ==
    p1 :> {"add", "complete"} @@ p2 :> {"claim", "complete", "remove", "delete", "decompose"}

\* One adds while the other rewrites the graph under it, cycles included.
WalkerAndWriter == p1 :> {"add"} @@ p2 :> {"import", "merge", "remove"}

\* Every call there is, by both but for the walk of addDependency.
Everybody == p1 :> AllKinds @@ p2 :> AllKinds \ {"add"}

Alike == Permutations(Tasks)
=============================================================================
