-------------------------- MODULE MCTaskLifecycle --------------------------
(* Small instances of TaskLifecycle: two processes under two names. *)
EXTENDS TaskLifecycle, TLC

CONSTANTS t1, ann, bob

\* A process is called by its agent's name.
OwnName == [p \in Procs |-> p]

NoDeps == {}

\* What the others do to a row is done by one of these: a failure is an update that
\* fails, a forced unlock an unlock, a claim a sweep and a start or a steal.
MostKinds == AllKinds \ {"fail", "force_unlock", "claim", "claim_or_steal", "sweep"}

\* The processes are interchangeable.
Alike == Permutations(Procs)
=============================================================================
