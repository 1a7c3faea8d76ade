---- MODULE OneWayMirror ----
(* What a one-way mirror promises of each object it copies.  The source      *)
(* counts the changes of an object; the copy shows the object as some change *)
(* left it.  The copy may lag and may skip changes, and it never shows a     *)
(* change the source has not made.  It tells the order of the changes except *)
(* of those that slip in out of order: a slip may be skipped for ever, and   *)
(* the copy may go from a slip back to a change before it, but never to one  *)
(* before a change in order that it has shown.  This is the reading of       *)
(* "one-way, write-only" in the header of src/src/storage/shadow-outbox.ts;  *)
(* ShadowOutbox implements it.                                               *)
EXTENDS Naturals

CONSTANT Objects

VARIABLES
  source,  \* source[o]: changes of o made so far
  slips,   \* slips[o]: those of them that slipped in out of order
  copy,    \* copy[o]: the change of o the copy shows
  firm     \* firm[o]: the last change in order that the copy has shown

vars == <<source, slips, copy, firm>>

Init ==
  /\ source = [o \in Objects |-> 0]
  /\ slips = [o \in Objects |-> {}]
  /\ copy = [o \in Objects |-> 0]
  /\ firm = [o \in Objects |-> 0]

Change(o) ==
  /\ source' = [source EXCEPT ![o] = @ + 1]
  /\ \/ UNCHANGED slips
     \/ slips' = [slips EXCEPT ![o] = @ \cup {source[o] + 1}]
  /\ UNCHANGED <<copy, firm>>

CatchUp(o) ==
  /\ \E n \in 1 .. source[o] :
       /\ firm[o] <= n
       /\ copy' = [copy EXCEPT ![o] = n]
       /\ firm' = IF n \in slips[o] THEN firm ELSE [firm EXCEPT ![o] = n]
  /\ UNCHANGED <<source, slips>>

Next == \E o \in Objects : Change(o) \/ CatchUp(o)

Spec == Init /\ [][Next]_vars
====
