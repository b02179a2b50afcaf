----------------------------- MODULE MCStartup -----------------------------
(* Small instances of Startup for TLC. *)
EXTENDS Startup, TLC

CONSTANTS p1, p2, p3

MCSymmetry == Permutations(Pids)
MCFailing == {<<2, "edited">>}
=============================================================================
