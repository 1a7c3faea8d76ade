----------------------- MODULE MCProjectRegistration -----------------------
(* Small instances of ProjectRegistration. *)
EXTENDS ProjectRegistration, TLC

CONSTANTS s1, s2, x, y, n1, p1, p2

\* Both processes run one release.
OneRelease == p1 :> 1 @@ p2 :> 1

\* Steps, sources and processes are interchangeable.
Alike == Permutations({s1, s2}) \cup Permutations({x, y}) \cup Permutations({p1, p2})
=============================================================================
