---------------------------- MODULE MCHttpClient ----------------------------
(* Small instances of HttpClient for TLC. *)
EXTENDS HttpClient, TLC

CONSTANTS s1, s2, r1, r2, r3

(* Two requests of one source and one of another, all to the same host. *)
MCSourceOf == r1 :> s1 @@ r2 :> s1 @@ r3 :> s2

(* One source has a longer delay and a smaller quota than the other. *)
MCPoliteness == s1 :> 1 @@ s2 :> 2
MCQuota == s1 :> 2 @@ s2 :> 1
=============================================================================
