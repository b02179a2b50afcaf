--------------------------- MODULE MCMaintenance ---------------------------
(* Small instances of Maintenance for TLC. *)
EXTENDS Maintenance

CONSTANTS d1, d2, h1, h2, w1

MCRefs == Docs \X (1 .. MaxVersion)

MCRank == [h \in Hashes |-> IF h = h1 THEN 1 ELSE 2]
=============================================================================
