------------------------------ MODULE MCLocks ------------------------------
(* A small instance of Locks: two agents, a path, and one resource with two *)
(* types of lock.                                                           *)
EXTENDS Locks, TLC

CONSTANTS ann, bob, p1, p2, f, advisory, exclusive, r1

TwoAgents == p1 :> ann @@ p2 :> bob
OneResource == [s \in Slots |-> r1]

\* The processes with their agents, and the types of lock, are interchangeable.
Swap == p1 :> p2 @@ p2 :> p1 @@ ann :> bob @@ bob :> ann
Alike == {Swap} \cup Permutations(Slots)
=============================================================================
