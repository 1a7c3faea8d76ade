---------------------------- MODULE LocksProofs ----------------------------
(* Proofs about Locks, for any paths, resources, agents and callers: a grant *)
(* is honoured until its end, and no key has two holders at one instant, of  *)
(* a path always, of a resource until a late renewal overruns another's lock.*)
EXTENDS Locks, TLAPS

-----------------------------------------------------------------------------
(* The inductive invariant *)

RowsOK ==
  /\ \A r \in locks : r.id < nextId
  /\ \A r, s \in locks : r.id = s.id => r = s

(* A call that will renew a file lock knows a row that is its agent's, or is *)
(* gone: an id is never used again.                                          *)
Knows(p) ==
  /\ call[p].step # "idle" => call[p].key \in Keys
  /\ call[p].step = "refresh" =>
       /\ call[p].id < nextId
       /\ \A r \in locks : r.id = call[p].id => r.key = call[p].key /\ r.agent = AgentOf[p]

CallsOK == \A p \in Procs : Knows(p)

IInv == TypeOK /\ RowsOK /\ CallsOK

-----------------------------------------------------------------------------
(* Rows *)

(* Every row after a step is a row from before it, perhaps with another end, *)
(* or has the next id.                                                       *)
Descend ==
  \A r \in locks' :
    \/ \E s \in locks : s.id = r.id /\ s.key = r.key /\ s.agent = r.agent
    \/ r.id = nextId /\ nextId' = nextId + 1

LEMMA KnowsKept ==
  ASSUME TypeOK, Descend, nextId' \in {nextId, nextId + 1},
         NEW q \in Procs, Knows(q), call'[q] = call[q]
  PROVE  Knows(q)'
<1>1. nextId \in Nat /\ call[q] \in Call
  BY DEF TypeOK
<1>2. ASSUME NEW r \in locks', r.id = call[q].id, call[q].step = "refresh"
      PROVE  r.key = call[q].key /\ r.agent = AgentOf[q]
  <2>1. call[q].id < nextId
    BY <1>2 DEF Knows
  <2>2. r.id # nextId
    BY <1>1, <1>2, <2>1 DEF Call
  <2>3. PICK s \in locks : s.id = r.id /\ s.key = r.key /\ s.agent = r.agent
    BY <2>2 DEF Descend
  <2> QED
    BY <1>2, <2>3 DEF Knows
<1> QED
  BY <1>1, <1>2 DEF Knows, Call

(* Taking rows away keeps what is known of the others. *)
LEMMA FewerRows ==
  ASSUME TypeOK, RowsOK, locks' \subseteq locks, nextId' = nextId
  PROVE  /\ locks' \subseteq Row /\ RowsOK' /\ Descend
         /\ \A r, s \in locks' : r.key = s.key => r = s
BY DEF TypeOK, RowsOK, Descend

(* A renewal touches one row or none. *)
LEMMA OneIsHit ==
  ASSUME TypeOK, RowsOK, NEW c \in Call
  PROVE  /\ Refreshed(c) \subseteq locks
         /\ \A r, s \in Refreshed(c) : r = s
BY DEF Refreshed, RowsOf, TypeOK, RowsOK

LEMMA Renewed ==
  ASSUME TypeOK, RowsOK, NEW c \in Call, NEW e \in Nat, nextId' = nextId,
         locks' = (locks \ Refreshed(c)) \cup {Extended(r, e) : r \in Refreshed(c)}
  PROVE  /\ locks' \subseteq Row /\ RowsOK' /\ Descend
         /\ \A r, s \in locks' : r.key = s.key => r = s
<1>1. ASSUME NEW r \in Refreshed(c)
      PROVE  /\ Extended(r, e) \in Row /\ Extended(r, e).id = r.id
             /\ Extended(r, e).key = r.key /\ Extended(r, e).agent = r.agent
             /\ r \in locks
  BY <1>1, OneIsHit DEF TypeOK, Row, Extended
<1>2. ASSUME NEW r \in locks'
      PROVE  \E s \in locks : /\ s.id = r.id /\ s.key = r.key /\ s.agent = r.agent
                              /\ \/ r = s /\ s \notin Refreshed(c)
                                 \/ r = Extended(s, e) /\ s \in Refreshed(c)
  BY <1>1, <1>2
<1>3. locks' \subseteq Row
  BY <1>1 DEF TypeOK
<1>4. ASSUME NEW r \in locks', NEW s \in locks', r.key = s.key \/ r.id = s.id
      PROVE  r = s
  <2>1. PICK x \in locks : /\ x.id = r.id /\ x.key = r.key
                           /\ \/ r = x /\ x \notin Refreshed(c)
                              \/ r = Extended(x, e) /\ x \in Refreshed(c)
    BY <1>2
  <2>2. PICK y \in locks : /\ y.id = s.id /\ y.key = s.key
                           /\ \/ s = y /\ y \notin Refreshed(c)
                              \/ s = Extended(y, e) /\ y \in Refreshed(c)
    BY <1>2
  <2>3. x = y
    BY <1>4, <2>1, <2>2 DEF TypeOK, RowsOK
  <2> QED
    BY <2>1, <2>2, <2>3
<1>5. Descend
  BY <1>2 DEF Descend
<1>6. \A r \in locks' : r.id < nextId'
  BY <1>2 DEF RowsOK
<1> QED
  BY <1>3, <1>4, <1>5, <1>6 DEF RowsOK

-----------------------------------------------------------------------------
(* Types and what calls know *)

LEMMA CallTyped ==
  /\ Idle \in Call
  /\ \A c \in Call : /\ [c EXCEPT !.step = "look"] \in Call
                     /\ [c EXCEPT !.step = "unlock"] \in Call
BY DEF Idle, Call

(* A step of a call that leaves the rows to others. *)
LEMMA CallSteps ==
  ASSUME IInv, NEW p \in Procs, NEW c \in Call, call' = [call EXCEPT ![p] = c],
         Descend, nextId' \in {nextId, nextId + 1},
         c.step # "idle" => c.key \in Keys, c.step # "refresh"
  PROVE  call' \in [Procs -> Call] /\ CallsOK'
<1>1. call' \in [Procs -> Call] /\ call'[p] = c /\ \A q \in Procs \ {p} : call'[q] = call[q]
  BY DEF IInv, TypeOK
<1>2. Knows(p)'
  BY <1>1 DEF Knows
<1>3. \A q \in Procs \ {p} : Knows(q)'
  BY <1>1, KnowsKept DEF IInv, CallsOK
<1> QED
  BY <1>1, <1>2, <1>3 DEF CallsOK

LEMMA CallsKept ==
  ASSUME IInv, call' = call, Descend, nextId' \in {nextId, nextId + 1}
  PROVE  call' \in [Procs -> Call] /\ CallsOK'
BY KnowsKept DEF IInv, CallsOK, TypeOK

LEMMA SameRows ==
  ASSUME IInv, locks' = locks, nextId' = nextId
  PROVE  /\ locks' \subseteq Row /\ RowsOK' /\ Descend
         /\ \A r, s \in locks' : r.key = s.key => r = s
BY FewerRows DEF IInv

LEMMA GivenUpTyped ==
  ASSUME TypeOK, NEW keys, NEW agents
  PROVE  GivenUp(keys, agents) \in [Keys -> [Agents -> Nat]]
BY DEF TypeOK, GivenUp

LEMMA InvStep ==
  ASSUME IInv, [Next]_vars
  PROVE  IInv'
<1> USE LockAssumption DEF IInv
<1>1. ASSUME NEW p \in Procs, NEW op \in {"lock", "unlock", "check"}, NEW key \in Keys,
             NEW ttl \in TTLs, Begin(p, op, key, ttl)
      PROVE  IInv'
  <2>1. /\ call' = [call EXCEPT ![p] = [step |-> "clean", op |-> op, key |-> key, ttl |-> ttl,
                                        from |-> clock, id |-> 0]]
        /\ UNCHANGED <<locks, clock, nextId, granted, overrun>>
    BY <1>1 DEF Begin
  <2>2. [step |-> "clean", op |-> op, key |-> key, ttl |-> ttl, from |-> clock, id |-> 0] \in Call
    BY DEF Call, TypeOK
  <2>3. call' \in [Procs -> Call] /\ CallsOK'
    BY <2>1, <2>2, SameRows, CallSteps
  <2> QED
    BY <2>1, <2>3, SameRows DEF TypeOK
<1>2. ASSUME NEW p \in Procs, Clean(p)
      PROVE  IInv'
  <2>1. locks' \subseteq locks /\ UNCHANGED <<clock, nextId, granted, overrun>>
    BY <1>2 DEF Clean
  <2>2. call[p] \in Call /\ call[p].key \in Keys
    BY <1>2 DEF Clean, TypeOK, CallsOK, Knows
  <2>3. PICK c \in {[call[p] EXCEPT !.step = "look"], [call[p] EXCEPT !.step = "unlock"], Idle} :
          call' = [call EXCEPT ![p] = c]
    BY <1>2 DEF Clean
  <2>4. c \in Call /\ c.step # "refresh" /\ (c.step # "idle" => c.key \in Keys)
    BY <2>2, <2>3, CallTyped DEF Call, Idle
  <2>5. call' \in [Procs -> Call] /\ CallsOK'
    BY <2>1, <2>3, <2>4, FewerRows, CallSteps
  <2> QED
    BY <2>1, <2>5, FewerRows DEF TypeOK
<1>3. ASSUME NEW p \in Procs, Look(p)
      PROVE  IInv'
  <2> DEFINE seen == IF call[p].key \in Paths THEN call[p] ELSE [call[p] EXCEPT !.from = clock]
  <2>1. UNCHANGED <<locks, clock, nextId, granted, overrun>> /\ call[p].step = "look"
    BY <1>3 DEF Look
  <2>2. seen \in Call /\ seen.key = call[p].key /\ seen.key \in Keys
    BY <2>1 DEF TypeOK, CallsOK, Knows, Call
  <2>3. CASE call' = [call EXCEPT ![p] = [seen EXCEPT !.step = "insert"]]
    <3>1. [seen EXCEPT !.step = "insert"] \in Call /\ [seen EXCEPT !.step = "insert"].key = seen.key
      BY <2>2 DEF Call
    <3>2. [seen EXCEPT !.step = "insert"].step # "refresh"
      BY <2>2 DEF Call
    <3>3. call' \in [Procs -> Call] /\ CallsOK'
      BY <2>1, <2>2, <2>3, <3>1, <3>2, SameRows, CallSteps
    <3> QED
      BY <2>1, <3>3, SameRows DEF TypeOK
  <2>4. CASE call' = [call EXCEPT ![p] = Idle]
    <3>1. call' \in [Procs -> Call] /\ CallsOK'
      BY <2>1, <2>4, SameRows, CallSteps, CallTyped DEF Idle
    <3> QED
      BY <2>1, <3>1, SameRows DEF TypeOK
  <2>5. ASSUME NEW r \in RowsOf(call[p].key), r.agent = AgentOf[p],
               call' = [call EXCEPT ![p] = [seen EXCEPT !.step = "refresh", !.id = r.id]]
        PROVE  IInv'
    <3> DEFINE c == [seen EXCEPT !.step = "refresh", !.id = r.id]
    <3>1. r \in locks /\ r.key = call[p].key /\ r.id \in Nat
      BY DEF RowsOf, TypeOK, Row
    <3>2. c \in Call /\ c.key = call[p].key /\ c.id = r.id /\ c.step = "refresh"
      BY <2>2, <3>1 DEF Call
    <3>3. call' \in [Procs -> Call] /\ call'[p] = c /\ \A q \in Procs \ {p} : call'[q] = call[q]
      BY <2>5, <3>2 DEF TypeOK
    <3>4. Knows(p)'
      BY <2>1, <2>2, <2>5, <3>1, <3>2, <3>3 DEF Knows, RowsOK
    <3>5. \A q \in Procs \ {p} : Knows(q)'
      BY <2>1, <3>3, SameRows, KnowsKept DEF CallsOK
    <3> QED
      BY <2>1, <3>3, <3>4, <3>5, SameRows DEF TypeOK, CallsOK
  <2> QED
    BY <1>3, <2>3, <2>4, <2>5 DEF Look
<1>4. ASSUME NEW p \in Procs, Refresh(p)
      PROVE  IInv'
  <2>1. call' = [call EXCEPT ![p] = Idle] /\ UNCHANGED <<clock, nextId>>
    BY <1>4 DEF Refresh
  <2>2. call[p] \in Call /\ call[p].key \in Keys
    BY <1>4 DEF Refresh, TypeOK, CallsOK, Knows
  <2>3. CASE UNCHANGED <<locks, granted, overrun>>
    <3>1. call' \in [Procs -> Call] /\ CallsOK'
      BY <2>1, <2>3, SameRows, CallSteps, CallTyped DEF Idle
    <3> QED
      BY <2>1, <2>3, <3>1, SameRows DEF TypeOK
  <2>4. CASE ~UNCHANGED <<locks, granted, overrun>>
    <3>1. PICK ts \in Stamps(call[p]) :
            /\ locks' = (locks \ Refreshed(call[p]))
                          \cup {Extended(r, ts + call[p].ttl) : r \in Refreshed(call[p])}
            /\ granted' = [granted EXCEPT ![call[p].key][AgentOf[p]] = ts + call[p].ttl]
            /\ overrun' \in {overrun, overrun \cup {call[p].key}}
      BY <1>4, <2>4 DEF Refresh
    <3>2. ts + call[p].ttl \in Nat
      BY <2>2, <3>1 DEF Stamps, Call, TypeOK
    <3>3. /\ locks' \subseteq Row /\ RowsOK' /\ Descend
          /\ \A r, s \in locks' : r.key = s.key => r = s
      BY <2>1, <2>2, <3>1, <3>2, Renewed
    <3>4. call' \in [Procs -> Call] /\ CallsOK'
      BY <2>1, <3>3, CallSteps, CallTyped DEF Idle
    <3>5. granted' \in [Keys -> [Agents -> Nat]] /\ overrun' \subseteq Keys
      BY <2>2, <3>1, <3>2 DEF TypeOK
    <3> QED
      BY <2>1, <3>3, <3>4, <3>5 DEF TypeOK
  <2> QED
    BY <2>3, <2>4
<1>5. ASSUME NEW p \in Procs, Insert(p)
      PROVE  IInv'
  <2>1. call' = [call EXCEPT ![p] = Idle] /\ UNCHANGED <<clock, overrun>>
    BY <1>5 DEF Insert
  <2>2. call[p] \in Call /\ call[p].key \in Keys
    BY <1>5 DEF Insert, TypeOK, CallsOK, Knows
  <2>3. CASE UNCHANGED <<locks, nextId, granted>>
    <3>1. call' \in [Procs -> Call] /\ CallsOK'
      BY <2>1, <2>3, SameRows, CallSteps, CallTyped DEF Idle
    <3> QED
      BY <2>1, <2>3, <3>1, SameRows DEF TypeOK
  <2>4. CASE RowsOf(call[p].key) = {} /\ nextId' = nextId + 1
    <3>1. PICK ts \in Stamps(call[p]) :
            /\ locks' = locks \cup {[id |-> nextId, key |-> call[p].key,
                                     agent |-> AgentOf[p], expires |-> ts + call[p].ttl]}
            /\ granted' = [granted EXCEPT ![call[p].key][AgentOf[p]] = ts + call[p].ttl]
      BY <1>5, <2>4 DEF Insert, TypeOK
    <3>2. ts + call[p].ttl \in Nat
      BY <2>2, <3>1 DEF Stamps, Call, TypeOK
    <3> DEFINE new == [id |-> nextId, key |-> call[p].key, agent |-> AgentOf[p],
                       expires |-> ts + call[p].ttl]
    <3>3. new \in Row
      BY <2>2, <3>2 DEF Row, TypeOK
    <3>4. \A r \in locks : r.key # new.key /\ r.id # new.id /\ r.id \in Nat
      BY <2>4 DEF RowsOf, RowsOK, TypeOK, Row
    <3>5. locks' \subseteq Row /\ \A r, s \in locks' : r.key = s.key => r = s
      BY <3>1, <3>3, <3>4 DEF TypeOK
    <3>6. RowsOK'
      BY <2>4, <3>1, <3>4 DEF RowsOK, TypeOK
    <3>7. Descend
      BY <2>4, <3>1 DEF Descend
    <3>8. call' \in [Procs -> Call] /\ CallsOK'
      BY <2>1, <2>4, <3>7, CallSteps, CallTyped DEF Idle
    <3>9. granted' \in [Keys -> [Agents -> Nat]] /\ nextId' \in Nat
      BY <2>2, <2>4, <3>1, <3>2 DEF TypeOK
    <3> QED
      BY <2>1, <3>5, <3>6, <3>8, <3>9 DEF TypeOK
  <2> QED
    BY <1>5, <2>3, <2>4 DEF Insert, Insertable
<1>6. ASSUME NEW p \in Procs, Unlock(p)
      PROVE  IInv'
  <2>1. /\ locks' \subseteq locks /\ call' = [call EXCEPT ![p] = Idle]
        /\ UNCHANGED <<clock, nextId, overrun>>
        /\ granted' = GivenUp({call[p].key}, {AgentOf[p]})
    BY <1>6 DEF Unlock
  <2>2. call' \in [Procs -> Call] /\ CallsOK'
    BY <2>1, FewerRows, CallSteps, CallTyped DEF Idle
  <2>3. granted' \in [Keys -> [Agents -> Nat]]
    BY <2>1, GivenUpTyped
  <2> QED
    BY <2>1, <2>2, <2>3, FewerRows DEF TypeOK
<1>7. ASSUME NEW p \in Procs, NEW resource, ReleaseLock(p, resource)
      PROVE  IInv'
  <2>1. locks' \subseteq locks /\ UNCHANGED <<clock, nextId, call, overrun>>
    BY <1>7 DEF ReleaseLock
  <2>2. granted' \in [Keys -> [Agents -> Nat]]
    BY <1>7, GivenUpTyped DEF ReleaseLock
  <2> QED
    BY <2>1, <2>2, FewerRows, CallsKept DEF TypeOK
<1>8. ASSUME NEW path \in Paths, ForceUnlockFile(path)
      PROVE  IInv'
  <2>1. locks' \subseteq locks /\ UNCHANGED <<clock, nextId, call, overrun>>
    BY <1>8 DEF ForceUnlockFile
  <2>2. granted' \in [Keys -> [Agents -> Nat]]
    BY <1>8, GivenUpTyped DEF ForceUnlockFile
  <2> QED
    BY <2>1, <2>2, FewerRows, CallsKept DEF TypeOK
<1>9. ASSUME NEW p \in Procs, Crash(p)
      PROVE  IInv'
  <2>1. call' = [call EXCEPT ![p] = Idle] /\ UNCHANGED <<locks, clock, nextId, granted, overrun>>
    BY <1>9 DEF Crash
  <2>2. call' \in [Procs -> Call] /\ CallsOK'
    BY <2>1, SameRows, CallSteps, CallTyped DEF Idle
  <2> QED
    BY <2>1, <2>2, SameRows DEF TypeOK
<1>10. CASE Tick
  <2>1. clock' = clock + 1 /\ UNCHANGED <<locks, nextId, call, granted, overrun>>
    BY <1>10 DEF Tick
  <2> QED
    BY <2>1, SameRows, CallsKept DEF TypeOK
<1>11. CASE UNCHANGED vars
  BY <1>11, SameRows, CallsKept DEF vars, TypeOK
<1> QED
  BY <1>1, <1>2, <1>3, <1>4, <1>5, <1>6, <1>7, <1>8, <1>9, <1>10, <1>11 DEF Next

-----------------------------------------------------------------------------
(* Grants *)

(* A grant stays honoured while it, the clock and its row stay. *)
Honoured(key, a) == \E r \in RowsOf(key) : r.agent = a /\ r.expires = granted[key][a]

LEMMA Kept ==
  ASSUME GrantHonoured, NEW key \in Keys, NEW a \in Agents,
         Sound(key)', Lasting(key, a)', overrun \subseteq overrun',
         granted'[key][a] = granted[key][a], clock' = clock,
         \A r \in locks : r.key = key /\ r.agent = a /\ r.expires = granted[key][a]
                          => r \in locks'
  PROVE  Honoured(key, a)'
BY DEF GrantHonoured, Honoured, Sound, Lasting, RowsOf

LEMMA GrantStep ==
  ASSUME IInv, GrantHonoured, [Next]_vars
  PROVE  GrantHonoured'
<1> SUFFICES ASSUME NEW key \in Keys, NEW a \in Agents, Sound(key)', Lasting(key, a)'
             PROVE  Honoured(key, a)'
  BY DEF GrantHonoured, Honoured
<1> USE LockAssumption DEF IInv
<1>0. clock \in Nat \ {0} /\ granted[key][a] \in Nat
  BY DEF TypeOK
<1>1. CASE UNCHANGED <<locks, clock, granted, overrun>>
  BY <1>1, Kept
<1>2. ASSUME NEW p \in Procs, Clean(p)
      PROVE  Honoured(key, a)'
  <2>1. PICK ts \in call[p].from .. clock :
          locks' = {r \in locks : SameTable(r.key, call[p].key) => ~Expired(r, ts)}
    BY <1>2 DEF Clean
  <2>2. UNCHANGED <<clock, granted, overrun>>
    BY <1>2 DEF Clean
  <2>3. ts \in Int /\ ts <= clock
    BY <1>0, <1>2, <2>1 DEF TypeOK, Call
  <2>4. ASSUME NEW r \in locks, r.key = key, r.expires = granted[key][a]
        PROVE  r \in locks'
    BY <1>0, <2>1, <2>2, <2>3, <2>4 DEF Expired, Lasting
  <2> QED
    BY <2>2, <2>4, Kept
<1>3. ASSUME NEW p \in Procs, Refresh(p)
      PROVE  Honoured(key, a)'
  <2>1. clock' = clock /\ call[p] \in Call /\ call[p].key \in Keys /\ call[p].step = "refresh"
    BY <1>3 DEF Refresh, TypeOK, CallsOK, Knows
  <2>2. CASE UNCHANGED <<locks, granted, overrun>>
    BY <2>1, <2>2, Kept
  <2>3. CASE ~UNCHANGED <<locks, granted, overrun>>
    <3> DEFINE c == call[p]
               hit == Refreshed(c)
    <3>1. PICK ts \in Stamps(c) :
            /\ locks' = (locks \ hit) \cup {Extended(r, ts + c.ttl) : r \in hit}
            /\ granted' = [granted EXCEPT ![c.key][AgentOf[p]] = ts + c.ttl]
      BY <1>3, <2>3 DEF Refresh
    <3>2. /\ hit # {} \/ c.key \notin Paths
          /\ overrun' = IF \E r \in hit : r.agent = AgentOf[p] THEN overrun
                        ELSE overrun \cup {c.key}
      BY <1>3, <2>3 DEF Refresh
    <3>3. hit \subseteq locks /\ \A r, s \in hit : r = s
      BY <2>1, OneIsHit
    <3>4. \A r \in hit : r.key = c.key
      BY <2>1 DEF Refreshed, RowsOf, CallsOK, Knows
    <3>5. CASE key # c.key
      <4>1. granted'[key][a] = granted[key][a]
        BY <2>1, <3>1, <3>5 DEF TypeOK
      <4>2. \A r \in locks : r.key = key => r \in locks'
        BY <3>1, <3>4, <3>5
      <4> QED
        BY <2>1, <3>2, <4>1, <4>2, Kept
    <3>6. CASE key = c.key
      <4>1. PICK r \in hit : r.agent = AgentOf[p]
        <5>1. CASE key \in Paths
          <6>1. PICK r \in hit : TRUE
            BY <3>2, <3>6, <5>1
          <6>2. r.agent = AgentOf[p]
            BY <2>1, <3>6, <5>1, <6>1 DEF Refreshed, CallsOK, Knows
          <6> QED
            BY <6>1, <6>2
        <5>2. CASE key \notin Paths
          BY <3>2, <3>6, <5>2 DEF Sound
        <5> QED
          BY <5>1, <5>2
      <4>2. r \in locks /\ r \in Row /\ r.key = key
        BY <3>3, <3>4, <3>6, <4>1 DEF TypeOK
      <4>3. CASE a = AgentOf[p]
        <5>1. granted'[key][a] = ts + c.ttl
          BY <2>1, <3>1, <3>6, <4>3 DEF TypeOK
        <5>2. /\ Extended(r, ts + c.ttl).key = key /\ Extended(r, ts + c.ttl).agent = a
              /\ Extended(r, ts + c.ttl).expires = ts + c.ttl
          BY <4>1, <4>2, <4>3 DEF Extended, Row
        <5>3. Extended(r, ts + c.ttl) \in locks'
          BY <3>1, <4>1
        <5> QED
          BY <5>1, <5>2, <5>3 DEF Honoured, RowsOf
      <4>4. CASE a # AgentOf[p]
        <5>1. granted'[key][a] = granted[key][a]
          BY <2>1, <3>1, <3>6, <4>4 DEF TypeOK
        <5>2. overrun' = overrun
          BY <3>2, <4>1
        <5>3. Honoured(key, a)
          BY <2>1, <5>1, <5>2 DEF GrantHonoured, Honoured, Sound, Lasting
        <5>4. FALSE
          BY <4>1, <4>2, <4>4, <5>3 DEF Honoured, RowsOf, TypeOK
        <5> QED
          BY <5>4
      <4> QED
        BY <4>3, <4>4
    <3> QED
      BY <3>5, <3>6
  <2> QED
    BY <2>2, <2>3
<1>4. ASSUME NEW p \in Procs, Insert(p)
      PROVE  Honoured(key, a)'
  <2>1. UNCHANGED <<clock, overrun>> /\ call[p] \in Call /\ call[p].key \in Keys
    BY <1>4 DEF Insert, TypeOK, CallsOK, Knows
  <2>2. CASE UNCHANGED <<locks, nextId, granted>>
    BY <2>1, <2>2, Kept
  <2>3. CASE RowsOf(call[p].key) = {} /\ ~UNCHANGED <<locks, nextId, granted>>
    <3>1. PICK ts \in Stamps(call[p]) :
            /\ locks' = locks \cup {[id |-> nextId, key |-> call[p].key,
                                     agent |-> AgentOf[p], expires |-> ts + call[p].ttl]}
            /\ granted' = [granted EXCEPT ![call[p].key][AgentOf[p]] = ts + call[p].ttl]
      BY <1>4, <2>3 DEF Insert
    <3>2. CASE key = call[p].key /\ a = AgentOf[p]
      <4> DEFINE row == [id |-> nextId, key |-> call[p].key,
                         agent |-> AgentOf[p], expires |-> ts + call[p].ttl]
      <4>1. granted'[key][a] = ts + call[p].ttl
        BY <3>1, <3>2 DEF TypeOK
      <4>2. row \in locks'
        BY <3>1
      <4>3. row.key = key /\ row.agent = a /\ row.expires = granted'[key][a]
        BY <3>2, <4>1
      <4> HIDE DEF row
      <4> QED
        BY <4>2, <4>3 DEF Honoured, RowsOf
    <3>3. CASE ~(key = call[p].key /\ a = AgentOf[p])
      <4>1. granted'[key][a] = granted[key][a]
        BY <2>1, <3>1, <3>3 DEF TypeOK
      <4> QED
        BY <2>1, <3>1, <4>1, Kept
    <3> QED
      BY <3>2, <3>3
  <2> QED
    BY <1>4, <2>2, <2>3 DEF Insert, Insertable
<1>5. ASSUME NEW keys, NEW agents, clock' = clock, overrun' = overrun,
             granted' = GivenUp(keys, agents),
             locks' = {r \in locks : ~(r.key \in keys /\ r.agent \in agents)}
      PROVE  Honoured(key, a)'
  <2>1. ~(key \in keys /\ a \in agents)
    BY <1>0, <1>5 DEF Lasting, GivenUp
  <2>2. granted'[key][a] = granted[key][a]
    BY <1>5, <2>1 DEF GivenUp
  <2> QED
    BY <1>5, <2>1, <2>2, Kept
<1>6. ASSUME NEW p \in Procs, Unlock(p)
      PROVE  Honoured(key, a)'
  <2>1. locks' = {r \in locks : ~(r.key \in {call[p].key} /\ r.agent \in {AgentOf[p]})}
    BY <1>6 DEF Unlock
  <2> QED
    BY <1>5, <1>6, <2>1 DEF Unlock
<1>7. ASSUME NEW p \in Procs, NEW resource, ReleaseLock(p, resource)
      PROVE  Honoured(key, a)'
  <2> DEFINE slots == {s \in Slots : ResourceOf[s] = resource}
  <2>1. locks' = {r \in locks : ~(r.key \in slots /\ r.agent \in {AgentOf[p]})}
    BY <1>7 DEF ReleaseLock
  <2>2. granted' = GivenUp(slots, {AgentOf[p]}) /\ UNCHANGED <<clock, overrun>>
    BY <1>7 DEF ReleaseLock
  <2> QED
    BY <1>5, <2>1, <2>2
<1>8. ASSUME NEW path \in Paths, ForceUnlockFile(path)
      PROVE  Honoured(key, a)'
  <2>1. locks' = {r \in locks : ~(r.key \in {path} /\ r.agent \in Agents)}
    BY <1>8 DEF ForceUnlockFile, TypeOK, Row
  <2> QED
    BY <1>5, <1>8, <2>1 DEF ForceUnlockFile
<1>9. CASE Tick
  <2>1. clock' = clock + 1 /\ UNCHANGED <<locks, granted, overrun>>
    BY <1>9 DEF Tick
  <2> QED
    BY <1>0, <2>1 DEF GrantHonoured, Honoured, Sound, Lasting, RowsOf
<1> QED
  BY <1>1, <1>2, <1>3, <1>4, <1>6, <1>7, <1>8, <1>9
     DEF Next, Begin, Look, Crash, vars

-----------------------------------------------------------------------------
(* The abstract lease *)

(* No call has a timestamp from the future, and each has a lifetime. *)
PastOf(p) ==
  /\ call[p].from <= clock
  /\ call[p].step # "idle" => call[p].ttl \in TTLs

Past == \A p \in Procs : PastOf(p)

Ends == [key \in Keys |-> [a \in Agents |-> LastInstant(key, a)]]

LEMMA PastStep == IInv /\ Past /\ [Next]_vars => Past'
<1> SUFFICES ASSUME IInv, Past, [Next]_vars, NEW q \in Procs
             PROVE  PastOf(q)'
  BY DEF Past
<1>1. /\ clock \in Nat \ {0} /\ call \in [Procs -> Call] /\ call[q] \in Call
      /\ call[q].from \in Nat /\ PastOf(q)
  BY DEF IInv, TypeOK, Past, Call
<1>2. CASE UNCHANGED <<call, clock>>
  BY <1>1, <1>2 DEF PastOf
<1>3. CASE Tick
  BY <1>1, <1>3 DEF Tick, PastOf
<1>4. ASSUME NEW p \in Procs, call' = [call EXCEPT ![p] = Idle], clock' = clock
      PROVE  PastOf(q)'
  BY <1>1, <1>4 DEF Idle, PastOf
<1>5. ASSUME NEW p \in Procs, NEW op, NEW key, NEW ttl \in TTLs, Begin(p, op, key, ttl)
      PROVE  PastOf(q)'
  BY <1>1, <1>5 DEF Begin, PastOf
<1>6. ASSUME NEW p \in Procs, Clean(p)
      PROVE  PastOf(q)'
  BY <1>1, <1>6 DEF Clean, Idle, Call, PastOf
<1>7. ASSUME NEW p \in Procs, Look(p)
      PROVE  PastOf(q)'
  <2>1. CASE p # q
    BY <1>1, <1>7, <2>1 DEF Look, PastOf
  <2>2. CASE p = q
    <3> DEFINE seen == IF call[q].key \in Paths THEN call[q] ELSE [call[q] EXCEPT !.from = clock]
    <3>1. call[q].step = "look" /\ clock' = clock
      BY <1>7, <2>2 DEF Look
    <3>2. /\ seen \in Call /\ seen.from \in {call[q].from, clock}
          /\ seen.ttl = call[q].ttl
      BY <1>1 DEF Call
    <3>3. ASSUME call' = [call EXCEPT ![q] = [seen EXCEPT !.step = "insert"]]
          PROVE  PastOf(q)'
      BY <1>1, <3>1, <3>2, <3>3 DEF PastOf, Call
    <3>4. ASSUME call' = [call EXCEPT ![q] = Idle]
          PROVE  PastOf(q)'
      BY <1>4, <3>1, <3>4
    <3>5. ASSUME NEW r \in RowsOf(call[q].key),
                 call' = [call EXCEPT ![q] = [seen EXCEPT !.step = "refresh", !.id = r.id]]
          PROVE  PastOf(q)'
      BY <1>1, <3>1, <3>2, <3>5 DEF PastOf, Call
    <3> QED
      BY <1>7, <2>2, <3>3, <3>4, <3>5 DEF Look
  <2> QED
    BY <2>1, <2>2
<1> QED
  BY <1>2, <1>3, <1>4, <1>5, <1>6, <1>7
     DEF Next, Refresh, Insert, Unlock, Crash, ReleaseLock, ForceUnlockFile, vars

LEMMA EndsTyped ==
  ASSUME TypeOK
  PROVE  Ends \in [Keys -> [Agents -> Nat]]
BY DEF TypeOK, Ends, LastInstant

LEMMA EndsStayTyped ==
  ASSUME TypeOK'
  PROVE  Ends' \in [Keys -> [Agents -> Nat]]
BY DEF TypeOK, Ends, LastInstant

(* A grant that lasts in the abstract lasts in the tables, and is in them. *)
LEMMA EndsLast ==
  ASSUME TypeOK, GrantHonoured, NEW key \in Keys, NEW a \in Agents, Ends[key][a] >= clock
  PROVE  Sound(key) /\ Lasting(key, a) /\ Honoured(key, a)
<1>1. Sound(key) /\ Lasting(key, a)
  BY DEF TypeOK, Ends, LastInstant, Lasting
<1> QED
  BY <1>1 DEF GrantHonoured, Honoured

LEMMA SameEnds ==
  ASSUME TypeOK, NEW key \in Keys, NEW a \in Agents,
         Sound(key)' = Sound(key), granted'[key][a] = granted[key][a]
  PROVE  Ends'[key][a] = Ends[key][a]
BY DEF Ends, LastInstant

LEMMA IsGiveUp ==
  ASSUME TypeOK, TypeOK', clock' = clock,
         \A key \in Keys, a \in Agents : Ends'[key][a] \in {Ends[key][a], 0}
  PROVE  Lease!GiveUp
BY EndsTyped DEF Lease!GiveUp, Ends

(* A grant that comes with a row of its agent is a grant of the abstract. *)
LEMMA IsGrant ==
  ASSUME TypeOK, TypeOK', GrantHonoured, GrantHonoured', clock' = clock, overrun' = overrun,
         NEW key \in Keys, NEW a \in Agents, NEW life \in TTLs, NEW ts \in Nat, ts <= clock,
         granted' = [granted EXCEPT ![key][a] = ts + life],
         Sound(key), \E r \in RowsOf(key)' : r.agent = a
  PROVE  Lease!Grant(key, a)
<1>0. life \in Nat /\ clock \in Nat
  BY LockAssumption DEF TypeOK
<1>1. Ends' = [Ends EXCEPT ![key][a] = Ends'[key][a]]
  <2>1. \A k \in Keys, b \in Agents : k # key \/ b # a => Ends'[k][b] = Ends[k][b]
    BY SameEnds DEF TypeOK, Sound
  <2>2. Ends \in [Keys -> [Agents -> Nat]] /\ Ends' \in [Keys -> [Agents -> Nat]]
    BY EndsTyped, EndsStayTyped
  <2> QED
    BY <2>1, <2>2
<1>2. Ends'[key][a] \in 0 .. clock + life
  <2>1. granted'[key][a] = ts + life
    BY DEF TypeOK
  <2> QED
    BY <1>0, <2>1 DEF Ends, LastInstant
<1>3. ASSUME NEW b \in Agents \ {a}, Ends[key][b] >= clock
      PROVE  FALSE
  <2>1. Ends'[key][b] >= clock'
    BY <1>1, <1>3, EndsTyped
  <2>2. Sound(key)' /\ Lasting(key, b)'
    BY <2>1 DEF TypeOK, Ends, LastInstant, Lasting
  <2>3. Honoured(key, b)'
    BY <2>2 DEF GrantHonoured, Honoured
  <2> QED
    BY <1>3, <2>3 DEF Honoured, RowsOf, TypeOK
<1> QED
  BY <1>1, <1>2, <1>3 DEF Lease!Grant, Lease!Holds, Ends

(* Every step is one of the abstract lease, or none. *)
LEMMA LeaseStep ==
  ASSUME IInv, GrantHonoured, Past, [Next]_vars
  PROVE  [Lease!Next]_(Lease!vars)
<1> USE LockAssumption
<1>1. /\ IInv' /\ GrantHonoured' /\ TypeOK /\ TypeOK'
      /\ clock \in Nat \ {0} /\ overrun \subseteq Keys
  BY InvStep, GrantStep DEF IInv, TypeOK
<1>2. CASE UNCHANGED <<clock, granted, overrun>>
  BY <1>2 DEF Lease!vars, LastInstant, Sound
<1>3. ASSUME NEW keys, NEW agents, UNCHANGED <<clock, overrun>>, granted' = GivenUp(keys, agents)
      PROVE  Lease!GiveUp
  <2>1. ASSUME NEW key \in Keys, NEW a \in Agents
        PROVE  Ends'[key][a] \in {Ends[key][a], 0}
    BY <1>1, <1>3 DEF Ends, LastInstant, Sound, GivenUp
  <2> QED
    BY <1>1, <1>3, <2>1, IsGiveUp
<1>4. ASSUME NEW p \in Procs, Refresh(p), ~UNCHANGED <<clock, granted, overrun>>
      PROVE  Lease!GiveUp \/ \E key \in Keys, a \in Agents : Lease!Grant(key, a)
  <2>0. PICK key \in Keys : key = call[p].key
    BY <1>4 DEF Refresh, IInv, TypeOK, CallsOK, Knows
  <2> DEFINE c == call[p]
             hit == Refreshed(c)
             a == AgentOf[p]
  <2>1. c \in Call /\ c.step = "refresh" /\ clock' = clock /\ a \in Agents
    BY <1>4 DEF Refresh, IInv, TypeOK, CallsOK, Knows
  <2>2. PICK ts \in Stamps(c) :
          /\ locks' = (locks \ hit) \cup {Extended(r, ts + c.ttl) : r \in hit}
          /\ granted' = [granted EXCEPT ![key][a] = ts + c.ttl]
    BY <2>0, <1>4 DEF Refresh
  <2>3. /\ hit # {} \/ key \notin Paths
        /\ overrun' = IF \E r \in hit : r.agent = a THEN overrun ELSE overrun \cup {key}
    BY <2>0, <1>4 DEF Refresh
  <2>4. ts \in Nat /\ ts <= clock
    BY <1>1, <2>1 DEF Stamps, Call, Past, PastOf
  <2>5. \A r \in hit : r \in Row /\ r.key = key
    BY <2>0, <1>1, <2>1 DEF Refreshed, RowsOf, IInv, CallsOK, Knows, TypeOK
  <2>6. key \in Paths => \E r \in hit : r.agent = a
    BY <2>0, <2>1, <2>3 DEF Refreshed, IInv, CallsOK, Knows
  <2>7. CASE Sound(key)'
    <3>1. PICK r \in hit : r.agent = a
      BY <2>1, <2>3, <2>6, <2>7 DEF Sound
    <3>2. /\ Extended(r, ts + c.ttl) \in locks'
          /\ Extended(r, ts + c.ttl).key = key /\ Extended(r, ts + c.ttl).agent = a
      BY <2>2, <2>5, <3>1 DEF Extended, Row
    <3>3. \E s \in RowsOf(key)' : s.agent = a
      BY <3>2 DEF RowsOf
    <3>4. overrun' = overrun /\ Sound(key)
      BY <2>3, <2>7, <3>1 DEF Sound
    <3>5. c.ttl \in TTLs
      BY <2>1 DEF Past, PastOf
    <3> QED
      BY <1>1, <2>1, <2>2, <2>4, <3>3, <3>4, <3>5, IsGrant
  <2>8. CASE ~Sound(key)'
    <3>1. ASSUME NEW k \in Keys, NEW b \in Agents
          PROVE  Ends'[k][b] \in {Ends[k][b], 0}
      <4>1. CASE k = key
        BY <2>1, <2>8, <4>1 DEF Ends, LastInstant
      <4>2. CASE k # key
        <5>1. granted'[k][b] = granted[k][b]
          BY <1>1, <2>1, <2>2, <4>2 DEF TypeOK
        <5>2. Sound(k)' = Sound(k)
          BY <2>3, <4>2 DEF Sound
        <5> QED
          BY <1>1, <5>1, <5>2, SameEnds
      <4> QED
        BY <4>1, <4>2
    <3> QED
      BY <1>1, <2>1, <3>1, IsGiveUp
  <2> QED
    BY <2>7, <2>8
<1>5. ASSUME NEW p \in Procs, Insert(p), ~UNCHANGED <<clock, granted, overrun>>
      PROVE  Lease!GiveUp \/ \E key \in Keys, a \in Agents : Lease!Grant(key, a)
  <2>0. PICK key \in Keys : key = call[p].key
    BY <1>5 DEF Insert, IInv, TypeOK, CallsOK, Knows
  <2> DEFINE c == call[p]
             a == AgentOf[p]
  <2>1. /\ c \in Call /\ c.step = "insert" /\ a \in Agents
        /\ UNCHANGED <<clock, overrun>>
    BY <1>5 DEF Insert, IInv, TypeOK, CallsOK, Knows
  <2>2. PICK ts \in Stamps(c) :
          /\ locks' = locks \cup {[id |-> nextId, key |-> key, agent |-> a,
                                   expires |-> ts + c.ttl]}
          /\ granted' = [granted EXCEPT ![key][a] = ts + c.ttl]
    BY <2>0, <1>5 DEF Insert
  <2>3. ts \in Nat /\ ts <= clock /\ c.ttl \in TTLs
    BY <1>1, <2>1 DEF Stamps, Call, Past, PastOf
  <2>4. CASE Sound(key)
    <3> DEFINE new == [id |-> nextId, key |-> key, agent |-> a, expires |-> ts + c.ttl]
    <3>1. new \in locks' /\ new.key = key /\ new.agent = a
      BY <2>2
    <3>2. \E s \in RowsOf(key)' : s.agent = a
      BY <3>1 DEF RowsOf
    <3> QED
      BY <1>1, <2>1, <2>2, <2>3, <2>4, <3>2, IsGrant
  <2>5. CASE ~Sound(key)
    <3>1. ASSUME NEW k \in Keys, NEW b \in Agents
          PROVE  Ends'[k][b] \in {Ends[k][b], 0}
      <4>1. CASE k = key
        BY <2>1, <2>5, <4>1 DEF Ends, LastInstant, Sound
      <4>2. CASE k # key
        <5>1. granted'[k][b] = granted[k][b]
          BY <1>1, <2>1, <2>2, <4>2 DEF TypeOK
        <5> QED
          BY <1>1, <2>1, <5>1, SameEnds DEF Sound
      <4> QED
        BY <4>1, <4>2
    <3> QED
      BY <1>1, <2>1, <3>1, IsGiveUp
  <2> QED
    BY <2>4, <2>5
<1>6. CASE Tick
  <2>1. clock' = clock + 1 /\ UNCHANGED <<locks, nextId, call, granted, overrun>>
    BY <1>6 DEF Tick
  <2> QED
    BY <2>1 DEF Lease!Next, Lease!Tick, LastInstant, Sound
<1>7. ASSUME NEW p \in Procs, Refresh(p) \/ Insert(p), ~UNCHANGED <<clock, granted, overrun>>
      PROVE  Lease!Next
  BY <1>4, <1>5, <1>7 DEF Lease!Next
<1>8. ASSUME NEW p \in Procs, Unlock(p)
      PROVE  Lease!Next
  BY <1>3, <1>8 DEF Unlock, Lease!Next
<1>9. ASSUME NEW p \in Procs, NEW resource, ReleaseLock(p, resource)
      PROVE  Lease!Next
  BY <1>3, <1>9 DEF ReleaseLock, Lease!Next
<1>10. ASSUME NEW path \in Paths, ForceUnlockFile(path)
       PROVE  Lease!Next
  BY <1>3, <1>10 DEF ForceUnlockFile, Lease!Next
<1> QED
  BY <1>2, <1>6, <1>7, <1>8, <1>9, <1>10 DEF Next, Begin, Clean, Look, Crash, vars

-----------------------------------------------------------------------------
(* Theorems *)

(* The inductive invariant: ids and keys are unique, and a call that renews  *)
(* a file lock knows a row of its own agent or one that is gone.             *)
THEOREM Inductive == Spec => [](IInv /\ GrantHonoured)
<1>1. Init => IInv /\ GrantHonoured
  <2> SUFFICES ASSUME Init PROVE IInv /\ GrantHonoured
    OBVIOUS
  <2>1. TypeOK
    BY CallTyped DEF Init, TypeOK
  <2>2. RowsOK /\ CallsOK
    BY DEF Init, RowsOK, CallsOK, Knows, Idle
  <2>3. GrantHonoured
    BY DEF Init, GrantHonoured, Lasting
  <2> QED
    BY <2>1, <2>2, <2>3 DEF IInv
<1>2. IInv /\ GrantHonoured /\ [Next]_vars => IInv' /\ GrantHonoured'
  BY InvStep, GrantStep
<1> QED
  BY <1>1, <1>2, PTL DEF Spec

(* Rows, calls and grants keep their types, and a key has one row at most.   *)
THEOREM LocksTypeOK == Spec => []TypeOK
<1>1. IInv => TypeOK
  BY DEF IInv
<1> QED
  BY <1>1, Inductive, PTL

(* A grant of lockFile, and one of acquireLock that no late renewal overran, *)
(* is in the table with its end until that end.                              *)
THEOREM GrantsAreHonoured == Spec => []GrantHonoured
BY Inductive, PTL

(* Two agents never hold a grant of one such key at the same instant.        *)
THEOREM OneHolderAlways == Spec => []OneHolder
<1>1. IInv /\ GrantHonoured => OneHolder
  BY DEF IInv, TypeOK, GrantHonoured, OneHolder, RowsOf
<1> QED
  BY <1>1, Inductive, PTL

(* The two tables, with calls that other processes come between, implement    *)
(* one table of exclusive leases: a grant is only reported when nobody else's *)
(* of that key lasts, and nothing but its end or its holder's or the          *)
(* operator's word takes it away.                                             *)
THEOREM LocksImplementLeases == Spec => LocksAreLeases
<1>1. Init => Past
  BY DEF Init, Past, PastOf, Idle
<1>2. Init => Lease!Init
  BY DEF Init, Lease!Init, LastInstant
<1>3. IInv /\ GrantHonoured /\ Past /\ [Next]_vars => [Lease!Next]_(Lease!vars)
  BY LeaseStep
<1> QED
  BY <1>1, <1>2, <1>3, Inductive, PastStep, PTL DEF Spec, LocksAreLeases, Lease!Spec
=============================================================================
