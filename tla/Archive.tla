------------------------------ MODULE Archive ------------------------------
(***************************************************************************)
(* What the collection of documents promises to its reader (Volume IV,     *)
(* invariants I-1, I-2 and I-6): a content is acquired before any version  *)
(* cites it, it is then held for ever, and the history of a document only  *)
(* grows, at its end, by a content that differs from the current one.      *)
(***************************************************************************)
EXTENDS Naturals, Sequences

CONSTANTS Docs, Hashes

VARIABLES
  held,      \* contents that can be read back
  history    \* history[d]: the contents of the versions of d, oldest first

archiveVars == <<held, history>>

Init ==
  /\ held = {}
  /\ history = [d \in Docs |-> << >>]

Acquire(h) ==
  /\ held' = held \cup {h}
  /\ UNCHANGED history

Publish(d, h) ==
  /\ h \in held
  /\ history[d] = << >> \/ history[d][Len(history[d])] # h
  /\ history' = [history EXCEPT ![d] = Append(@, h)]
  /\ UNCHANGED held

(* A power loss forgets the most recent versions, never one in the middle of
   a history, and never a content that a remaining version cites. *)
Forget ==
  /\ held' \subseteq held
  /\ \A d \in Docs : \E n \in 0 .. Len(history[d]) :
       history'[d] = SubSeq(history[d], 1, n)
  /\ \A d \in Docs : \A v \in 1 .. Len(history'[d]) : history'[d][v] \in held'

Grow ==
  \/ \E h \in Hashes : Acquire(h)
  \/ \E d \in Docs, h \in Hashes : Publish(d, h)

Spec == Init /\ [][Grow \/ Forget]_archiveVars
=============================================================================
