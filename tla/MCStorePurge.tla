---------------------------- MODULE MCStorePurge ----------------------------
(* Small instances of StorePurge for TLC. *)
EXTENDS StorePurge, TLC

CONSTANTS h1, h2, r1, w1, w2

MCSymmetry == Permutations({w1, w2})
=============================================================================
