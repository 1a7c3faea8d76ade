-------------------------------- MODULE Locks --------------------------------
(***************************************************************************)
(* src/db/file-locks.ts and src/db/locks.ts: locks of agents on paths and  *)
(* on resources, with a lifetime.  Both clean, look and write in three     *)
(* statements that other processes come between, with timestamps taken     *)
(* before the statement that uses them.  A file lock is renewed by the id  *)
(* of the row that was seen, a resource lock by the name of the resource.  *)
(***************************************************************************)
EXTENDS Integers

CONSTANTS
    Paths,          \* keys of file_locks
    Slots,          \* keys of resource_locks: a resource and a type of lock
    ResourceOf,     \* the resource of each slot
    Agents,
    Procs,          \* calls in progress, of one process or of several
    AgentOf,        \* the agent_id each of them names
    TTLs,           \* the lifetimes callers ask for
    MaxClock,       \* bound of the clock
    MaxIds,         \* bound of the ids, fresh in the code
    None

Keys == Paths \cup Slots

ASSUME LockAssumption ==
    /\ Paths \cap Slots = {} /\ None \notin Keys
    /\ AgentOf \in [Procs -> Agents]
    /\ TTLs \subseteq Nat
    /\ MaxClock \in Nat /\ MaxIds \in Nat

VARIABLES
    locks,          \* the rows of file_locks and of resource_locks
    clock,
    nextId,         \* the next id uuid() draws
    call,           \* what each call has computed or read so far
    granted,        \* ghost: the expires_at of an agent's last grant, 0 after it gave it up
    overrun         \* ghost: keys that were granted over a row of somebody else or of nobody

vars == <<locks, clock, nextId, call, granted, overrun>>

Row == [id : Nat, key : Keys, agent : Agents, expires : Nat]
Idle == [step |-> "idle", op |-> "none", key |-> None, ttl |-> 0, from |-> 0, id |-> 0]
Call == [step : {"idle", "clean", "look", "refresh", "insert", "unlock"},
         op : {"none", "lock", "unlock", "check"},
         key : Keys \cup {None}, ttl : Nat, from : Nat, id : Nat]

----------------------------------------------------------------------------
RowsOf(key) == {r \in locks : r.key = key}

\* Mutant of Expired: the cleaner is a tick early.
ExpiredEarly(r, ts) == r.expires <= ts + 1

\* DELETE ... WHERE expires_at <= ts, and < ts of resource locks.
Expired(r, ts) == IF r.key \in Paths THEN r.expires <= ts ELSE r.expires < ts

SameTable(k, l) == (k \in Paths) = (l \in Paths)

\* Mutant of Refreshed: a file lock is renewed by its path.
RefreshedByKey(c) == RowsOf(c.key)

\* UPDATE ... WHERE id = the row that was seen; of resource locks WHERE the key.
Refreshed(c) == IF c.key \in Paths THEN {r \in locks : r.id = c.id} ELSE RowsOf(c.key)

\* When the expiry is computed: on entry, or of resource locks after the look.
Stamps(c) == IF c.key \in Paths THEN {c.from} ELSE c.from .. clock

Extended(r, expires) == [r EXCEPT !.expires = expires]

\* Mutant of Insertable: no UNIQUE constraint.
InsertableAlways(key) == TRUE

Insertable(key) == RowsOf(key) = {}

Init ==
    /\ locks = {}
    /\ clock = 1
    /\ nextId = 1
    /\ call = [p \in Procs |-> Idle]
    /\ granted = [key \in Keys |-> [a \in Agents |-> 0]]
    /\ overrun = {}

\* lockFile and acquireLock; unlockFile; checkFileLock, listFileLocks and checkLock.
Begin(p, op, key, ttl) ==
    /\ call[p] = Idle
    /\ op = "unlock" => key \in Paths
    /\ call' = [call EXCEPT ![p] = [step |-> "clean", op |-> op, key |-> key, ttl |-> ttl,
                                    from |-> clock, id |-> 0]]
    /\ UNCHANGED <<locks, clock, nextId, granted, overrun>>

\* cleanExpiredFileLocks or cleanExpiredLocks, of the one table.
Clean(p) ==
    LET c == call[p]
    IN  /\ c.step = "clean"
        /\ \E ts \in c.from .. clock :
             locks' = {r \in locks : SameTable(r.key, c.key) => ~Expired(r, ts)}
        /\ call' = [call EXCEPT ![p] = CASE c.op = "lock" -> [c EXCEPT !.step = "look"]
                                         [] c.op = "unlock" -> [c EXCEPT !.step = "unlock"]
                                         [] OTHER -> Idle]
        /\ UNCHANGED <<clock, nextId, granted, overrun>>

\* The lock of another agent refuses the call.
Look(p) ==
    LET c == call[p]
        seen == IF c.key \in Paths THEN c ELSE [c EXCEPT !.from = clock]
    IN  /\ c.step = "look"
        /\ \/ /\ RowsOf(c.key) = {}
              /\ call' = [call EXCEPT ![p] = [seen EXCEPT !.step = "insert"]]
           \/ \E r \in RowsOf(c.key) :
                call' = [call EXCEPT ![p] =
                           IF r.agent = AgentOf[p]
                           THEN [seen EXCEPT !.step = "refresh", !.id = r.id] ELSE Idle]
        /\ UNCHANGED <<locks, clock, nextId, granted, overrun>>

\* lockFile reads the row back and returns null when it is gone; acquireLock returns
\* true whatever the update changed.
Refresh(p) ==
    LET c == call[p]
        hit == Refreshed(c)
    IN  /\ c.step = "refresh"
        /\ \/ /\ hit = {} /\ c.key \in Paths
              /\ UNCHANGED <<locks, granted, overrun>>
           \/ /\ hit # {} \/ c.key \notin Paths
              /\ \E ts \in Stamps(c) :
                   /\ locks' = (locks \ hit) \cup {Extended(r, ts + c.ttl) : r \in hit}
                   /\ granted' = [granted EXCEPT ![c.key][AgentOf[p]] = ts + c.ttl]
              /\ overrun' = IF \E r \in hit : r.agent = AgentOf[p] THEN overrun
                            ELSE overrun \cup {c.key}
        /\ call' = [call EXCEPT ![p] = Idle]
        /\ UNCHANGED <<clock, nextId>>

\* The constraint fails the call when another row came in between.
Insert(p) ==
    LET c == call[p]
    IN  /\ c.step = "insert"
        /\ \/ /\ Insertable(c.key)
              /\ nextId < MaxIds
              /\ nextId' = nextId + 1
              /\ \E ts \in Stamps(c) :
                   /\ locks' = locks \cup {[id |-> nextId, key |-> c.key,
                                            agent |-> AgentOf[p], expires |-> ts + c.ttl]}
                   /\ granted' = [granted EXCEPT ![c.key][AgentOf[p]] = ts + c.ttl]
           \/ /\ ~Insertable(c.key)
              /\ UNCHANGED <<locks, nextId, granted>>
        /\ call' = [call EXCEPT ![p] = Idle]
        /\ UNCHANGED <<clock, overrun>>

\* The grants of one agent, or of all, are given up.
GivenUp(keys, agents) ==
    [key \in Keys |-> [a \in Agents |->
        IF key \in keys /\ a \in agents THEN 0 ELSE granted[key][a]]]

\* The DELETE of unlockFile.
Unlock(p) ==
    /\ call[p].step = "unlock"
    /\ locks' = {r \in locks : ~(r.key = call[p].key /\ r.agent = AgentOf[p])}
    /\ granted' = GivenUp({call[p].key}, {AgentOf[p]})
    /\ call' = [call EXCEPT ![p] = Idle]
    /\ UNCHANGED <<clock, nextId, overrun>>

\* releaseLock: one statement, for every type of lock on the resource.
ReleaseLock(p, resource) ==
    LET slots == {s \in Slots : ResourceOf[s] = resource}
    IN  /\ call[p] = Idle
        /\ locks' = {r \in locks : ~(r.key \in slots /\ r.agent = AgentOf[p])}
        /\ granted' = GivenUp(slots, {AgentOf[p]})
        /\ UNCHANGED <<clock, nextId, call, overrun>>

\* An operator takes the lock from whoever has it.
ForceUnlockFile(path) ==
    /\ locks' = {r \in locks : r.key # path}
    /\ granted' = GivenUp({path}, Agents)
    /\ UNCHANGED <<clock, nextId, call, overrun>>

Crash(p) ==
    /\ call[p] # Idle
    /\ call' = [call EXCEPT ![p] = Idle]
    /\ UNCHANGED <<locks, clock, nextId, granted, overrun>>

Tick ==
    /\ clock < MaxClock
    /\ clock' = clock + 1
    /\ UNCHANGED <<locks, nextId, call, granted, overrun>>

Next ==
    \/ \E p \in Procs :
         \/ \E op \in {"lock", "unlock", "check"}, key \in Keys, ttl \in TTLs :
              Begin(p, op, key, ttl)
         \/ Clean(p) \/ Look(p) \/ Refresh(p) \/ Insert(p) \/ Unlock(p) \/ Crash(p)
         \/ \E s \in Slots : ReleaseLock(p, ResourceOf[s])
    \/ \E path \in Paths : ForceUnlockFile(path)
    \/ Tick

Spec == Init /\ [][Next]_vars

----------------------------------------------------------------------------
\* A grant lasts until the instant at which a cleaner may remove it.
Lasting(key, a) ==
    IF key \in Paths THEN granted[key][a] > clock ELSE granted[key][a] >= clock

\* What the code promises of a key: of a path always, of a resource as long as no late
\* renewal was granted over the lock of another agent.
Sound(key) == key \in Paths \/ key \notin overrun

\* Rows and calls have their types, and a key has one row at most.
TypeOK ==
    /\ locks \subseteq Row
    /\ \A r, s \in locks : r.key = s.key => r = s
    /\ clock \in Nat \ {0} /\ nextId \in Nat
    /\ call \in [Procs -> Call]
    /\ granted \in [Keys -> [Agents -> Nat]]
    /\ overrun \subseteq Keys

\* Until the instant an agent was told its lock lasts, and unless it gave it up or the
\* operator took it, the table has that lock with that end: no cleaning, renewal or
\* insertion by a slow caller touches it.
GrantHonoured ==
    \A key \in Keys, a \in Agents :
        Sound(key) /\ Lasting(key, a) =>
            \E r \in RowsOf(key) : r.agent = a /\ r.expires = granted[key][a]

\* "Acquire an exclusive lock": no two agents hold a grant of one key at one instant.
OneHolder ==
    \A key \in Keys : \A a, b \in Agents :
        Sound(key) /\ Lasting(key, a) /\ Lasting(key, b) => a = b

\* The last instant of a grant the code answers for.
LastInstant(key, a) ==
    IF ~Sound(key) \/ granted[key][a] = 0 THEN 0
    ELSE IF key \in Paths THEN granted[key][a] - 1 ELSE granted[key][a]

Lease == INSTANCE ExclusiveLease WITH
    Items <- Keys,
    Holders <- Agents,
    Lifetimes <- TTLs,
    until <- [key \in Keys |-> [a \in Agents |-> LastInstant(key, a)]],
    now <- clock

\* Seen from the agents the two tables are one table of exclusive leases: no call,
\* however slow and whatever came between its statements, reports a grant of a key
\* while another agent's lasts.
LocksAreLeases == Lease!Spec
=============================================================================
