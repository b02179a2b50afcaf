------------------------------ MODULE MCSweep ------------------------------
(* Small instances of Sweep for TLC. *)
EXTENDS Sweep

CONSTANTS d1, d2

(* One document per page. *)
MCPageOf == [d \in Docs |-> IF d = d1 THEN 1 ELSE 2]
=============================================================================
