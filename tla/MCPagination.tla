---------------------------- MODULE MCPagination ----------------------------
(* Small instances of Pagination for TLC. *)
EXTENDS Pagination

(* A page that repeats the one before in another order, then an older one. *)
MCListing == <<3, 2, 2, 3, 1>>
=============================================================================
