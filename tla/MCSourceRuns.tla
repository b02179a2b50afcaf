---------------------------- MODULE MCSourceRuns ----------------------------
(* Small instances of SourceRuns for TLC. *)
EXTENDS SourceRuns, TLC

CONSTANTS s1, s2, c1, c2, c3

MCSymmetry == Permutations({s1, s2}) \cup Permutations({c1, c2, c3})
=============================================================================
