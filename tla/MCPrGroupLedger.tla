-------------------------- MODULE MCPrGroupLedger --------------------------
(* Small instances of PrGroupLedger. *)
EXTENDS PrGroupLedger, TLC

CONSTANTS a1, a2, h1, h2, ann, bob

\* Attempts, heads and actors are interchangeable.
Alike == Permutations(Attempts) \cup Permutations(Heads) \cup Permutations(Actors)
=============================================================================
