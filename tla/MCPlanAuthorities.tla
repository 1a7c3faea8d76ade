------------------------ MODULE MCPlanAuthorities ------------------------
(* A small instance of PlanAuthorities. *)
EXTENDS PlanAuthorities, TLC

CONSTANTS home, away, p1, m1, t1, g1, k1, k2, op, e1

MCPlanOf == op :> m1
MCTasksOf == op :> {g1}
MCProjectOf == op :> home

Alike == Permutations({k1, k2})
==========================================================================
