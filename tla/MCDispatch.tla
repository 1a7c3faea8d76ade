---------------------------- MODULE MCDispatch -----------------------------
(* A small instance of Dispatch for TLC. *)
EXTENDS Dispatch
CONSTANTS d1, d2, p1, p2, p3
=============================================================================
