---------------------------- MODULE MCCollection ----------------------------
(* Small instances of Collection for TLC. *)
EXTENDS Collection, TLC

CONSTANTS d1, h1, h2, w1, w2

MCRefs == Docs \X (1 .. MaxVersion)

MCSymmetry == Permutations({w1, w2}) \cup Permutations({h1, h2})
=============================================================================
