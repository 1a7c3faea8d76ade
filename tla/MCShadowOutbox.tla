---- MODULE MCShadowOutbox ----
(* Instances of ShadowOutbox for TLC. *)
EXTENDS ShadowOutbox

CONSTANTS t1, d1, d2

MCTask == {t1}
MCDrainers == {d1, d2}
====
