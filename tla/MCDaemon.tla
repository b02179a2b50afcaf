------------------------------ MODULE MCDaemon ------------------------------
(* Small instances of Daemon for TLC. *)
EXTENDS Daemon

CONSTANTS s1, s2

MCOrder == <<s1, s2>>

(* One source at each minute that is not excluded, the other once in a cycle. *)
MCDue == [s \in {s1, s2} |-> IF s = s1 THEN {0, 1} ELSE {0}]
=============================================================================
