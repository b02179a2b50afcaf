----------------------------- MODULE StorePurge -----------------------------
(***************************************************************************)
(* Traced purge of an object, and what verify() says of the store around   *)
(* it: purge(), has() and verify() of filesystem-content-store.ts.         *)
(*                                                                         *)
(* No command of packages/cli calls purge(): as in the tests, it runs while *)
(* no collection is writing.  A crash or a power loss may hit between its  *)
(* steps, and collections go on afterwards.                                *)
(***************************************************************************)
EXTENDS ContentStore

VARIABLES
  purgeStep,  \* the await at which purge() stands
  purged      \* the object being purged, NoHash when none is

purgeVars == <<purgeStep, purged>>
allVars == <<storeVars, purgeVars>>

TombstoneDescriptor == [kind |-> "tombstone", refs |-> {}]

(* has(): only the object file counts, not the descriptor. *)
Has(h) == dir[h].bytes # "absent"

PurgeTypeOK ==
  /\ TypeOK
  /\ purgeStep \in {"none", "marked", "synced"}
  /\ purged \in Hashes \cup {NoHash}
  /\ purgeStep # "none" <=> purged \in Hashes

PurgeInit ==
  /\ Init
  /\ purgeStep = "none"
  /\ purged = NoHash

NoWriter == \A w \in Writers : stage[w] = "idle"

(* Mutation of PurgeMark: the bytes go before the tombstone is written. *)
PurgeMarkLate(h) ==
  /\ NoWriter
  /\ purgeStep = "none"
  /\ SetDirectory(h, [dir[h] EXCEPT !.bytes = "absent"])
  /\ purgeStep' = "marked"
  /\ purged' = h
  /\ UNCHANGED <<part, stage, hash, copy>>

(* The tombstone replaces the descriptor first. *)
PurgeMark(h) ==
  /\ NoWriter
  /\ purgeStep = "none"
  /\ SetDirectory(h, [dir[h] EXCEPT !.desc = TombstoneDescriptor])
  /\ purgeStep' = "marked"
  /\ purged' = h
  /\ UNCHANGED <<part, stage, hash, copy>>

PurgeSync ==
  /\ purgeStep = "marked"
  /\ Sync(purged)
  /\ purgeStep' = "synced"
  /\ UNCHANGED <<part, stage, hash, copy, purged>>

(* The bytes go last, and their removal is not synchronised. *)
PurgeRemove ==
  /\ purgeStep = "synced"
  /\ SetDirectory(purged, [dir[purged] EXCEPT !.bytes = "absent"])
  /\ purgeStep' = "none"
  /\ purged' = NoHash
  /\ UNCHANGED <<part, stage, hash, copy>>

PurgeInterrupted ==
  /\ purgeStep # "none"
  /\ Crash \/ PowerLoss
  /\ purgeStep' = "none"
  /\ purged' = NoHash

PurgeNext ==
  \/ purgeStep = "none" /\ Next /\ UNCHANGED purgeVars
  \/ \E h \in Hashes : PurgeMark(h)
  \/ PurgeSync
  \/ PurgeRemove
  \/ PurgeInterrupted

PurgeSpec == PurgeInit /\ [][PurgeNext]_allVars

(* An await that has completed is resumed (WriterStep). *)
PurgeFairSpec ==
  /\ PurgeSpec
  /\ \A w \in Writers :
       WF_allVars(purgeStep = "none" /\ WriterStep(w) /\ UNCHANGED purgeVars)

-----------------------------------------------------------------------------
(* "jamais un trou inexplique": whatever step of a purge or of a later write a
   fault interrupts, verify() never reports an object that the store describes
   as missing or damaged. *)
NoUnexplainedHole ==
  \A h \in Hashes : \A d \in survivors[h] :
    d.desc.kind # "none" => Verify(d) = "ok"

(* I-1 and I-6 beside purges: an object that is there whatever happens next stays
   there at every step of every writer and under every fault, unless it is
   being purged and its tombstone is durable already. *)
PurgeAloneRemoves ==
  [][\A h \in Hashes :
       Durable(h) => Durable(h)' \/ \A d \in survivors[h] : d.desc.kind = "tombstone"]_allVars

(* The trace of a purge is kept: once its tombstone is on disk no later
   collection of the same content turns it back into a live descriptor. *)
TombstoneForever ==
  [][\A h \in Hashes :
       (\A d \in survivors[h] : d.desc.kind = "tombstone")
         => (\A d \in survivors[h]' : d.desc.kind = "tombstone")]_allVars

-----------------------------------------------------------------------------
(* Why the properties hold: the invariant that every step preserves. *)

(* While a purge is under way nobody writes, and the tombstone is there before
   the bytes go. *)
PurgeUnderWay ==
  /\ purgeStep # "none" => NoWriter
  /\ purgeStep = "marked" => dir[purged].desc.kind = "tombstone"
  /\ purgeStep = "synced" => \A d \in survivors[purged] : d.desc.kind = "tombstone"

PurgeInvariant ==
  /\ PurgeTypeOK
  /\ StoreInvariant
  /\ PurgeUnderWay

-----------------------------------------------------------------------------
(* A statement that the code does not keep: store() renames the new object into
   place before it reads the tombstone (README, section 3). *)

(* A purge removes the content for good: outside of any operation, the store
   does not hold the bytes of an object whose tombstone it shows. *)
PurgedStaysEmpty ==
  NoWriter /\ purgeStep = "none" =>
    \A h \in Hashes : dir[h].desc.kind = "tombstone" => ~ Has(h)
=============================================================================
