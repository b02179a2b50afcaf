---------------------------- MODULE StoreProofs ----------------------------
(***************************************************************************)
(* Proofs about ContentStore and StorePurge: for any number of writers,    *)
(* contents and references and any set of faults, the write protocol       *)
(* E1 .. E9 keeps its invariant, beside traced purges too.                 *)
(***************************************************************************)
EXTENDS StorePurge, TLAPS

(* Replacing the descriptor of a directory leaves its bytes alone. *)
LEMMA Redescribed ==
  ASSUME NEW d \in Directory, NEW c \in Descriptor
  PROVE  /\ [d EXCEPT !.desc = c] \in Directory
         /\ [d EXCEPT !.desc = c].bytes = d.bytes
         /\ [d EXCEPT !.desc = c].desc = c
BY DEF Directory

(* Renaming an object into a directory leaves its descriptor alone. *)
LEMMA Rebyted ==
  ASSUME NEW d \in Directory, NEW b \in {"absent", "torn", "whole"}
  PROVE  /\ [d EXCEPT !.bytes = b] \in Directory
         /\ [d EXCEPT !.bytes = b].bytes = b
         /\ [d EXCEPT !.bytes = b].desc = d.desc
BY DEF Directory

(* A live descriptor is a descriptor, and so is the absence of one. *)
LEMMA DescriptorTypes ==
  /\ NoDescriptor \in Descriptor
  /\ \A R \in SUBSET Refs : Live(R) \in Descriptor /\ Live(R).kind = "live"
BY DEF Live, Descriptor, NoDescriptor

(* A writer that gives up takes nothing away from the others. *)
LEMMA LeavingKeepsInvariant ==
  ASSUME StoreInvariant, NEW w \in Writers, Leave(w), UNCHANGED <<dir, survivors>>
  PROVE  StoreInvariant'
BY DescriptorTypes
   DEF StoreInvariant, TypeOK, PartIsSynced, SurvivorsAreSound, WriterKnows,
       StoredIsDurable, Durable, Leave, Goto, Stages

(* Renaming a synchronised file adds no damaged state, and the descriptor that
   may lie there already still has its bytes. *)
LEMMA RenameKeepsInvariant ==
  ASSUME StoreInvariant, NEW w \in Writers, Rename(w)
  PROVE  StoreInvariant'
<1> USE DEF StoreInvariant
<1> DEFINE h == hash[w]
           published == [dir[h] EXCEPT !.bytes = "whole"]
<1>1. /\ h \in Hashes
      /\ part[w] = "synced"
      /\ published \in Directory
      /\ published.bytes = "whole"
      /\ published.desc = dir[h].desc
  BY Rebyted DEF TypeOK, WriterKnows, PartIsSynced, Rename
<1>2. /\ dir' = [dir EXCEPT ![h] = published]
      /\ survivors' = [survivors EXCEPT ![h] = @ \cup {published}]
      /\ part' = [part EXCEPT ![w] = "none"]
      /\ stage' = [stage EXCEPT ![w] = "renamed"]
      /\ UNCHANGED <<hash, copy>>
  BY <1>1 DEF Rename, Goto
<1> HIDE DEF h, published
<1>3. TypeOK'
  BY <1>1, <1>2 DEF TypeOK, Stages
<1>4. PartIsSynced'
  BY <1>2 DEF TypeOK, PartIsSynced
<1>5. SurvivorsAreSound'
  BY <1>1, <1>2 DEF TypeOK, SurvivorsAreSound
<1>6. WriterKnows'
  BY <1>1, <1>2 DEF TypeOK, WriterKnows, h
<1>7. StoredIsDurable'
  BY <1>1, <1>2 DEF TypeOK, StoredIsDurable, SurvivorsAreSound, WriterKnows, Durable, h
<1> QED
  BY <1>3, <1>4, <1>5, <1>6, <1>7

(* A descriptor is written only beside whole bytes, at both ends of store() and
   attachReference(). *)
LEMMA WriteDescriptorKeepsInvariant ==
  ASSUME StoreInvariant, NEW w \in Writers, UpsertWrite(w) \/ AttachWrite(w)
  PROVE  StoreInvariant'
<1> USE DEF StoreInvariant
<1> DEFINE h == hash[w]
           described == [dir[h] EXCEPT !.desc = copy[w]]
<1>1. /\ h \in Hashes
      /\ described \in Directory
      /\ described.bytes = "whole"
      /\ described.desc.kind = "live"
  BY Redescribed
     DEF TypeOK, WriterKnows, StoredIsDurable, SurvivorsAreSound, Durable,
         UpsertWrite, AttachWrite
<1>2. /\ dir' = [dir EXCEPT ![h] = described]
      /\ survivors' = [survivors EXCEPT ![h] = @ \cup {described}]
      /\ \/ /\ stage[w] = "writing"
            /\ stage' = [stage EXCEPT ![w] = "described"]
         \/ /\ stage[w] = "attaching"
            /\ stage' = [stage EXCEPT ![w] = "attached"]
      /\ UNCHANGED <<part, hash, copy>>
  BY DEF UpsertWrite, AttachWrite, SetDirectory, Goto
<1> HIDE DEF h, described
<1>3. TypeOK'
  BY <1>1, <1>2 DEF TypeOK, Stages
<1>4. PartIsSynced'
  BY <1>2 DEF TypeOK, PartIsSynced
<1>5. SurvivorsAreSound'
  BY <1>1, <1>2 DEF TypeOK, SurvivorsAreSound
<1>6. WriterKnows'
  BY <1>1, <1>2 DEF TypeOK, WriterKnows, h
<1>7. StoredIsDurable'
  BY <1>1, <1>2 DEF TypeOK, StoredIsDurable, SurvivorsAreSound, WriterKnows, Durable, h
<1> QED
  BY <1>3, <1>4, <1>5, <1>6, <1>7

(* Each step of a writer preserves the invariant. *)
LEMMA StoreStepKeepsInvariant ==
  ASSUME StoreInvariant, NEW w \in Writers, StoreStep(w)
  PROVE  StoreInvariant'
<1> USE DEF StoreInvariant
<1>1. CASE WriteBody(w)
  BY <1>1 DEF TypeOK, PartIsSynced, SurvivorsAreSound, WriterKnows, StoredIsDurable, Durable,
     WriteBody, Goto, Stages
<1>2. CASE SyncPart(w)
  BY <1>2 DEF TypeOK, PartIsSynced, SurvivorsAreSound, WriterKnows, StoredIsDurable, Durable,
     SyncPart, Goto, Stages
<1>3. CASE Deduplicate(w)
  BY <1>3 DEF TypeOK, PartIsSynced, SurvivorsAreSound, WriterKnows, StoredIsDurable, Durable,
     Deduplicate, Goto, Stages, Directory
<1>4. CASE NotLocated(w)
  BY <1>4 DEF TypeOK, PartIsSynced, SurvivorsAreSound, WriterKnows, StoredIsDurable, Durable,
     NotLocated, Goto, Stages
<1>5. CASE Rename(w)
  BY <1>5, RenameKeepsInvariant
<1>6. CASE SyncObject(w)
  BY <1>6 DEF TypeOK, PartIsSynced, SurvivorsAreSound, WriterKnows, StoredIsDurable, Durable,
     SyncObject, Goto, Stages, Sync
<1>7. CASE UpsertRead(w)
  <2>1. /\ Live(dir[hash[w]].desc.refs) \in Descriptor
        /\ Live(dir[hash[w]].desc.refs).kind = "live"
    BY <1>7, DescriptorTypes DEF TypeOK, WriterKnows, UpsertRead, Directory, Descriptor
  <2> QED
    BY <1>7, <2>1 DEF TypeOK, PartIsSynced, SurvivorsAreSound, WriterKnows, StoredIsDurable,
                      Durable,
       UpsertRead, Goto, Stages
<1>8. CASE UpsertWrite(w) \/ AttachWrite(w)
  BY <1>8, WriteDescriptorKeepsInvariant
<1>9. CASE SyncDescriptor(w)
  BY <1>9 DEF TypeOK, PartIsSynced, SurvivorsAreSound, WriterKnows, StoredIsDurable, Durable,
     SyncDescriptor, Goto, Stages, Sync
<1>10. CASE SyncAttach(w)
  BY <1>10, DescriptorTypes
     DEF TypeOK, PartIsSynced, SurvivorsAreSound, WriterKnows, StoredIsDurable, Durable,
         SyncAttach, Sync, Leave, Goto, Stages
<1>11. CASE Abort(w)
  BY <1>11, LeavingKeepsInvariant DEF Abort
<1> QED
  BY <1>1, <1>2, <1>3, <1>4, <1>5, <1>6, <1>7, <1>8, <1>9, <1>10, <1>11 DEF StoreStep

(* attachReference() prepares a live descriptor that lists the new reference. *)
LEMMA AttachReadKeepsInvariant ==
  ASSUME StoreInvariant, NEW w \in Writers, NEW r \in Refs, AttachRead(w, r)
  PROVE  StoreInvariant'
<1>1. /\ Live(dir[hash[w]].desc.refs \cup {r}) \in Descriptor
      /\ Live(dir[hash[w]].desc.refs \cup {r}).kind = "live"
  BY DescriptorTypes
     DEF StoreInvariant, TypeOK, WriterKnows, AttachRead, Directory, Descriptor
<1> QED
  BY <1>1 DEF StoreInvariant, TypeOK, PartIsSynced, SurvivorsAreSound, WriterKnows,
     StoredIsDurable, Durable, AttachRead, Goto, Stages

(* A new transfer starts from nothing. *)
LEMMA BeginKeepsInvariant ==
  ASSUME StoreInvariant, NEW w \in Writers, NEW h \in Hashes, Begin(w, h)
  PROVE  StoreInvariant'
BY DEF StoreInvariant, TypeOK, PartIsSynced, SurvivorsAreSound, WriterKnows,
   StoredIsDurable, Durable, Begin, Goto, Stages

(* A sweep of tmp/ or a crash changes no directory. *)
LEMMA StoreFaultKeepsInvariant ==
  ASSUME StoreInvariant, StoreFault
  PROVE  StoreInvariant'
BY DescriptorTypes
   DEF StoreInvariant, TypeOK, PartIsSynced, SurvivorsAreSound, WriterKnows,
       StoredIsDurable, Durable, StoreFault, ForeignCleanup, Crash, Restart, Stages

(* A power loss leaves one of the states that the invariant speaks of. *)
LEMMA PowerLossKeepsInvariant ==
  ASSUME StoreInvariant, PowerLoss
  PROVE  StoreInvariant'
<1>1. /\ dir' \in [Hashes -> Directory]
      /\ \A h \in Hashes : dir'[h] \in survivors[h]
      /\ survivors' = [h \in Hashes |-> {dir'[h]}]
  BY DEF StoreInvariant, TypeOK, PowerLoss
<1> QED
  BY <1>1, DescriptorTypes
     DEF StoreInvariant, TypeOK, PartIsSynced, SurvivorsAreSound, WriterKnows,
         StoredIsDurable, Durable, PowerLoss, Restart, Stages

(* The store starts empty, and an empty store satisfies the invariant. *)
LEMMA InitialInvariant == Init => StoreInvariant
BY DescriptorTypes
   DEF Init, StoreInvariant, TypeOK, PartIsSynced, SurvivorsAreSound, WriterKnows,
       StoredIsDurable, Durable, Stages, Directory, EmptyDirectory, NoDescriptor

(* One step of the store, whoever takes it. *)
LEMMA NextKeepsInvariant ==
  ASSUME StoreInvariant, [Next]_storeVars
  PROVE  StoreInvariant'
<1>1. CASE \E w \in Writers : StoreStep(w)
  BY <1>1, StoreStepKeepsInvariant
<1>2. CASE \E w \in Writers, h \in Hashes : Begin(w, h)
  BY <1>2, BeginKeepsInvariant
<1>3. CASE \E w \in Writers, r \in Refs : AttachRead(w, r)
  BY <1>3, AttachReadKeepsInvariant
<1>4. CASE \E w \in Writers, r \in Refs : AttachNothing(w, r)
  BY <1>4, LeavingKeepsInvariant DEF AttachNothing
<1>5. CASE \E w \in Writers : Release(w) \/ IoError(w)
  BY <1>5, LeavingKeepsInvariant DEF Release, IoError
<1>6. CASE StoreFault
  BY <1>6, StoreFaultKeepsInvariant
<1>7. CASE PowerLoss
  BY <1>7, PowerLossKeepsInvariant
<1>8. CASE UNCHANGED storeVars
  BY <1>8 DEF storeVars, StoreInvariant, TypeOK, PartIsSynced, SurvivorsAreSound,
     WriterKnows, StoredIsDurable, Durable
<1> QED
  BY <1>1, <1>2, <1>3, <1>4, <1>5, <1>6, <1>7, <1>8 DEF Next, PoweredNext

(* The invariant of the write protocol holds whatever the writers and the
   faults do, one writer's awaits interleaved with the steps of the others. *)
THEOREM StoreIsInvariant == Spec => []StoreInvariant
<1>1. StoreInvariant /\ [Next]_storeVars => StoreInvariant'
  BY NextKeepsInvariant
<1> QED
  BY InitialInvariant, <1>1, PTL DEF Spec

(* Type correctness of the content store. *)
THEOREM StoreTypes == Spec => []TypeOK
BY StoreIsInvariant, PTL DEF StoreInvariant

(* No descriptor without its bytes, before or after a power loss. *)
THEOREM DescribedAlwaysHasBytes == Spec => []DescribedHasBytes
<1>1. StoreInvariant => DescribedHasBytes
  BY DEF StoreInvariant, SurvivorsAreSound, DescribedHasBytes
<1> QED
  BY StoreIsInvariant, <1>1, PTL

(* What store() returned survives every fault, on the deduplication path too. *)
THEOREM StoredAlwaysDurable == Spec => []StoredIsDurable
BY StoreIsInvariant, PTL DEF StoreInvariant

(* What one step does to the directories while the machine is powered: nothing,
   a synchronisation, or a change of one of them that leaves it with whole bytes,
   for an object is renamed whole and a descriptor is written beside whole bytes. *)
LEMMA StepOfDirectories ==
  ASSUME StoreInvariant, [PoweredNext]_storeVars
  PROVE  \/ UNCHANGED <<dir, survivors>>
         \/ \E h \in Hashes : Sync(h)
         \/ \E h \in Hashes, d \in Directory : d.bytes = "whole" /\ SetDirectory(h, d)
<1> USE DEF StoreInvariant
<1>1. ASSUME NEW w \in Writers, Rename(w)
      PROVE  \E h \in Hashes, d \in Directory : d.bytes = "whole" /\ SetDirectory(h, d)
  <2> DEFINE d == [dir[hash[w]] EXCEPT !.bytes = "whole"]
  <2>1. hash[w] \in Hashes /\ d \in Directory /\ d.bytes = "whole"
    BY <1>1, Rebyted DEF TypeOK, WriterKnows, Rename
  <2>2. SetDirectory(hash[w], d)
    BY <1>1 DEF Rename, PartIsSynced, TypeOK, SetDirectory
  <2> QED
    BY <2>1, <2>2
<1>2. ASSUME NEW w \in Writers, UpsertWrite(w) \/ AttachWrite(w)
      PROVE  \E h \in Hashes, d \in Directory : d.bytes = "whole" /\ SetDirectory(h, d)
  <2> DEFINE d == [dir[hash[w]] EXCEPT !.desc = copy[w]]
  <2>1. hash[w] \in Hashes /\ d \in Directory /\ d.bytes = "whole"
    BY <1>2, Redescribed
       DEF TypeOK, WriterKnows, StoredIsDurable, SurvivorsAreSound, Durable,
           UpsertWrite, AttachWrite
  <2>2. SetDirectory(hash[w], d)
    BY <1>2 DEF UpsertWrite, AttachWrite
  <2> QED
    BY <2>1, <2>2
<1>3. ASSUME NEW w \in Writers, SyncObject(w) \/ SyncDescriptor(w) \/ SyncAttach(w)
      PROVE  \E h \in Hashes : Sync(h)
  BY <1>3 DEF WriterKnows, SyncObject, SyncDescriptor, SyncAttach
<1> QED
  BY <1>1, <1>2, <1>3
     DEF PoweredNext, storeVars, StoreStep, WriteBody, SyncPart, Deduplicate, NotLocated,
         UpsertRead,
         Abort, Begin, AttachRead, AttachNothing, Release, IoError, StoreFault, ForeignCleanup,
         Crash

(* One step of the store, whoever takes it, takes no durable bytes away. *)
LEMMA NextKeepsDurable ==
  ASSUME StoreInvariant, [Next]_storeVars, NEW h \in Hashes, Durable(h)
  PROVE  Durable(h)'
<1>1. dir[h].bytes = "whole"
  BY DEF StoreInvariant, SurvivorsAreSound, Durable
<1> QED
  BY <1>1, StepOfDirectories
     DEF Durable, StoreInvariant, TypeOK, Sync, SetDirectory, PowerLoss, Next

(* I-1, I-6: durable bytes stay, through every operation, crash and power loss. *)
THEOREM DurableStays == Spec => DurableForever
<1>1. StoreInvariant /\ [Next]_storeVars
        => [\A h \in Hashes : Durable(h) => Durable(h)']_storeVars
  BY NextKeepsDurable
<1> QED
  BY StoreIsInvariant, <1>1, PTL DEF Spec, DurableForever
-----------------------------------------------------------------------------
(* Purges. *)

(* The tombstone is a descriptor, and no live one. *)
LEMMA TombstoneTypes ==
  /\ TombstoneDescriptor \in Descriptor
  /\ TombstoneDescriptor.kind = "tombstone"
BY DEF TombstoneDescriptor, Descriptor

(* Marking an object leaves its bytes, and no writer counts on its descriptor. *)
LEMMA PurgeMarkKeepsInvariant ==
  ASSUME PurgeInvariant, NEW h \in Hashes, PurgeMark(h)
  PROVE  PurgeInvariant'
<1> USE DEF PurgeInvariant, PurgeTypeOK, StoreInvariant
<1> DEFINE marked == [dir[h] EXCEPT !.desc = TombstoneDescriptor]
<1>1. /\ marked \in Directory
      /\ marked.bytes = dir[h].bytes
      /\ marked.desc.kind = "tombstone"
  BY Redescribed, TombstoneTypes DEF TypeOK
<1>2. /\ dir' = [dir EXCEPT ![h] = marked]
      /\ survivors' = [survivors EXCEPT ![h] = @ \cup {marked}]
      /\ \A w \in Writers : stage[w] = "idle"
      /\ purgeStep' = "marked" /\ purged' = h
      /\ UNCHANGED <<part, stage, hash, copy>>
  BY DEF PurgeMark, SetDirectory, NoWriter
<1> HIDE DEF marked
<1>3. TypeOK' /\ PurgeTypeOK'
  BY <1>1, <1>2 DEF TypeOK
<1>4. SurvivorsAreSound'
  BY <1>1, <1>2 DEF TypeOK, SurvivorsAreSound
<1>5. PartIsSynced' /\ WriterKnows' /\ StoredIsDurable'
  BY <1>2 DEF PartIsSynced, WriterKnows, StoredIsDurable
<1>6. PurgeUnderWay'
  BY <1>1, <1>2 DEF PurgeUnderWay, NoWriter, TypeOK
<1> QED
  BY <1>3, <1>4, <1>5, <1>6

(* The bytes go when only tombstones may be found beside them. *)
LEMMA PurgeRemoveKeepsInvariant ==
  ASSUME PurgeInvariant, PurgeRemove
  PROVE  PurgeInvariant'
<1> USE DEF PurgeInvariant, PurgeTypeOK, StoreInvariant
<1> DEFINE h == purged
           removed == [dir[h] EXCEPT !.bytes = "absent"]
<1>1. /\ h \in Hashes
      /\ \A d \in survivors[h] : d.desc.kind = "tombstone"
      /\ \A w \in Writers : stage[w] = "idle"
  BY DEF PurgeRemove, PurgeUnderWay, NoWriter
<1>2. /\ removed \in Directory
      /\ removed.bytes = "absent"
      /\ removed.desc = dir[h].desc
  BY <1>1, Rebyted DEF TypeOK
<1>3. /\ dir' = [dir EXCEPT ![h] = removed]
      /\ survivors' = [survivors EXCEPT ![h] = @ \cup {removed}]
      /\ purgeStep' = "none" /\ purged' = NoHash
      /\ UNCHANGED <<part, stage, hash, copy>>
  BY DEF PurgeRemove, SetDirectory
<1> HIDE DEF h, removed
<1>4. TypeOK' /\ PurgeTypeOK'
  BY <1>1, <1>2, <1>3, NoHashAssumption DEF TypeOK
<1>5. SurvivorsAreSound'
  BY <1>1, <1>2, <1>3 DEF TypeOK, SurvivorsAreSound
<1>6. PartIsSynced' /\ WriterKnows' /\ StoredIsDurable'
  BY <1>1, <1>3 DEF PartIsSynced, WriterKnows, StoredIsDurable
<1>7. PurgeUnderWay'
  BY <1>3 DEF PurgeUnderWay
<1> QED
  BY <1>4, <1>5, <1>6, <1>7

(* One step of the store, of a purge, or of what interrupts it. *)
LEMMA PurgeNextKeepsInvariant ==
  ASSUME PurgeInvariant, [PurgeNext]_allVars
  PROVE  PurgeInvariant'
<1> USE DEF PurgeInvariant, PurgeTypeOK
<1>1. CASE purgeStep = "none" /\ Next /\ UNCHANGED purgeVars
  <2>1. StoreInvariant' /\ TypeOK'
    BY <1>1, NextKeepsInvariant DEF StoreInvariant
  <2> QED
    BY <1>1, <2>1 DEF PurgeUnderWay, purgeVars
<1>2. CASE \E h \in Hashes : PurgeMark(h)
  BY <1>2, PurgeMarkKeepsInvariant
<1>3. CASE PurgeSync
  <2>1. /\ purged \in Hashes
        /\ survivors' = [survivors EXCEPT ![purged] = {dir[purged]}]
        /\ dir[purged].desc.kind = "tombstone"
        /\ purgeStep' = "synced" /\ purgeStep = "marked"
        /\ \A w \in Writers : stage[w] = "idle"
        /\ UNCHANGED <<dir, part, stage, hash, copy, purged>>
    BY <1>3 DEF PurgeSync, Sync, PurgeUnderWay, NoWriter
  <2>2. StoreInvariant'
    BY <2>1
       DEF StoreInvariant, TypeOK, PartIsSynced, SurvivorsAreSound, WriterKnows, StoredIsDurable
  <2>3. PurgeUnderWay'
    BY <2>1 DEF PurgeUnderWay, NoWriter, TypeOK
  <2> QED
    BY <2>1, <2>2, <2>3 DEF StoreInvariant
<1>4. CASE PurgeRemove
  BY <1>4, PurgeRemoveKeepsInvariant
<1>5. CASE PurgeInterrupted
  <2>1. StoreInvariant' /\ TypeOK'
    BY <1>5, StoreFaultKeepsInvariant, PowerLossKeepsInvariant
       DEF PurgeInterrupted, StoreFault, StoreInvariant
  <2> QED
    BY <1>5, <2>1, NoHashAssumption DEF PurgeInterrupted, PurgeUnderWay
<1>6. CASE UNCHANGED allVars
  <2>1. StoreInvariant'
    BY <1>6, NextKeepsInvariant DEF allVars
  <2> QED
    BY <1>6, <2>1 DEF allVars, storeVars, purgeVars, PurgeUnderWay, NoWriter, TypeOK
<1> QED
  BY <1>1, <1>2, <1>3, <1>4, <1>5, <1>6 DEF PurgeNext

(* The invariant of the store holds beside purges, interrupted or not. *)
THEOREM PurgeIsInvariant == PurgeSpec => []PurgeInvariant
<1>1. PurgeInit => PurgeInvariant
  BY InitialInvariant, NoHashAssumption
     DEF PurgeInit, PurgeInvariant, PurgeTypeOK, StoreInvariant, PurgeUnderWay
<1>2. PurgeInvariant /\ [PurgeNext]_allVars => PurgeInvariant'
  BY PurgeNextKeepsInvariant
<1> QED
  BY <1>1, <1>2, PTL DEF PurgeSpec

(* What store() returned survives every fault beside purges too. *)
THEOREM StoredDurableBesidePurges == PurgeSpec => []StoredIsDurable
BY PurgeIsInvariant, PTL DEF PurgeInvariant, StoreInvariant

(* "Jamais un trou inexplique": no descriptor without its bytes but a tombstone,
   whichever step of a purge or of a write a fault interrupts. *)
THEOREM HolesAreExplained == PurgeSpec => []NoUnexplainedHole
<1>1. PurgeInvariant => NoUnexplainedHole
  <2> SUFFICES ASSUME PurgeInvariant, NEW h \in Hashes, NEW d \in survivors[h],
                      d.desc.kind # "none"
               PROVE  Verify(d) = "ok"
    BY DEF NoUnexplainedHole
  <2>1. /\ d.bytes \in {"absent", "whole"}
        /\ d.desc.kind \in {"live", "tombstone"}
        /\ d.desc.kind = "live" => d.bytes = "whole"
    BY DEF PurgeInvariant, PurgeTypeOK, TypeOK, StoreInvariant, SurvivorsAreSound, Directory,
           Descriptor
  <2> QED
    BY <2>1 DEF Verify
<1> QED
  BY PurgeIsInvariant, <1>1, PTL

(* Only the removal of a marked object takes bytes away. *)
THEOREM PurgesAloneRemove == PurgeSpec => PurgeAloneRemoves
<1> DEFINE Traced == \A h \in Hashes :
             Durable(h) => Durable(h)' \/ \A d \in survivors[h] : d.desc.kind = "tombstone"
<1>1. PurgeInvariant /\ [PurgeNext]_allVars => [Traced]_allVars
  <2> SUFFICES ASSUME PurgeInvariant, PurgeNext, NEW h \in Hashes, Durable(h)
               PROVE  Durable(h)' \/ \A d \in survivors[h] : d.desc.kind = "tombstone"
    BY DEF Traced
  <2> USE DEF PurgeInvariant, PurgeTypeOK
  <2>1. StoreInvariant /\ TypeOK /\ dir[h] \in survivors[h] /\ dir[h].bytes = "whole"
    BY DEF StoreInvariant, SurvivorsAreSound, Durable
  <2>2. CASE Next
    BY <2>1, <2>2, NextKeepsDurable
  <2>3. ASSUME NEW g \in Hashes, PurgeMark(g)
        PROVE  Durable(h)'
    <3> DEFINE marked == [dir[g] EXCEPT !.desc = TombstoneDescriptor]
    <3>1. marked.bytes = dir[g].bytes
      BY <2>1, Redescribed, TombstoneTypes DEF TypeOK
    <3>2. survivors' = [survivors EXCEPT ![g] = @ \cup {marked}]
      BY <2>3 DEF PurgeMark, SetDirectory
    <3> HIDE DEF marked
    <3> QED
      BY <2>1, <3>1, <3>2 DEF Durable, TypeOK
  <2>4. CASE PurgeSync
    BY <2>1, <2>4 DEF PurgeSync, Sync, Durable, TypeOK
  <2>5. CASE PurgeRemove
    <3>1. \A d \in survivors[purged] : d.desc.kind = "tombstone"
      BY <2>5 DEF PurgeRemove, PurgeUnderWay
    <3>2. h # purged => survivors'[h] = survivors[h]
      BY <2>1, <2>5 DEF PurgeRemove, SetDirectory, TypeOK
    <3> QED
      BY <3>1, <3>2 DEF Durable
  <2>6. CASE PurgeInterrupted
    BY <2>1, <2>6, NextKeepsDurable DEF PurgeInterrupted, Next, PoweredNext, StoreFault
  <2> QED
    BY <2>2, <2>3, <2>4, <2>5, <2>6 DEF PurgeNext
<1> QED
  BY PurgeIsInvariant, <1>1, PTL DEF PurgeSpec, PurgeAloneRemoves

(* A step of the store changes no descriptor that is a tombstone. *)
LEMMA NextKeepsTombstone ==
  ASSUME StoreInvariant, [Next]_storeVars, NEW h \in Hashes,
         \A d \in survivors[h] : d.desc.kind = "tombstone"
  PROVE  \A d \in survivors'[h] : d.desc.kind = "tombstone"
<1>1. TypeOK /\ dir[h].desc.kind = "tombstone" /\ dir[h] \in survivors[h]
  BY DEF StoreInvariant, SurvivorsAreSound
<1>2. ASSUME NEW w \in Writers, Rename(w)
      PROVE  survivors'[h] = survivors[h] \/ \E d \in Directory :
               d.desc = dir[h].desc /\ survivors'[h] = survivors[h] \cup {d}
  <2> DEFINE d == [dir[hash[w]] EXCEPT !.bytes = "whole"]
  <2>1. hash[w] \in Hashes /\ part[w] = "synced" /\ d \in Directory /\ d.desc = dir[hash[w]].desc
    BY <1>1, <1>2, Rebyted DEF StoreInvariant, WriterKnows, PartIsSynced, Rename, TypeOK
  <2>2. survivors' = [survivors EXCEPT ![hash[w]] = @ \cup {d}]
    BY <2>1, <1>2 DEF Rename
  <2> HIDE DEF d
  <2> QED
    BY <1>1, <2>1, <2>2 DEF TypeOK
<1>3. ASSUME NEW w \in Writers, UpsertWrite(w) \/ AttachWrite(w)
      PROVE  survivors'[h] = survivors[h]
  <2>1. hash[w] # h
    BY <1>1, <1>3
       DEF StoreInvariant, WriterKnows, StoredIsDurable, UpsertWrite, AttachWrite
  <2>2. \E d : survivors' = [survivors EXCEPT ![hash[w]] = @ \cup {d}]
    BY <1>3 DEF UpsertWrite, AttachWrite, SetDirectory
  <2> QED
    BY <1>1, <2>1, <2>2 DEF TypeOK
<1>4. ASSUME NEW w \in Writers, SyncObject(w) \/ SyncDescriptor(w) \/ SyncAttach(w)
      PROVE  survivors'[h] \subseteq survivors[h]
  BY <1>1, <1>4 DEF SyncObject, SyncDescriptor, SyncAttach, Sync, TypeOK
<1>5. CASE PowerLoss
  BY <1>5 DEF PowerLoss
<1>6. CASE UNCHANGED survivors
  BY <1>6
<1> QED
  BY <1>1, <1>2, <1>3, <1>4, <1>5, <1>6
     DEF Next, PoweredNext, storeVars, StoreStep, WriteBody, SyncPart, Deduplicate, NotLocated,
         UpsertRead, Abort, Begin, AttachRead, AttachNothing, Release, IoError, StoreFault,
         ForeignCleanup, Crash

(* The trace of a purge survives every later collection of the same content. *)
THEOREM TombstoneStays == PurgeSpec => TombstoneForever
<1> DEFINE Kept == \A h \in Hashes :
             (\A d \in survivors[h] : d.desc.kind = "tombstone")
               => (\A d \in survivors[h]' : d.desc.kind = "tombstone")
<1>1. PurgeInvariant /\ [PurgeNext]_allVars => [Kept]_allVars
  <2> SUFFICES ASSUME PurgeInvariant, PurgeNext, NEW h \in Hashes,
                      \A d \in survivors[h] : d.desc.kind = "tombstone"
               PROVE  \A d \in survivors'[h] : d.desc.kind = "tombstone"
    BY DEF Kept
  <2> USE DEF PurgeInvariant, PurgeTypeOK
  <2>1. StoreInvariant /\ TypeOK /\ dir[h] \in survivors[h]
    BY DEF StoreInvariant, SurvivorsAreSound
  <2>2. CASE Next
    BY <2>1, <2>2, NextKeepsTombstone
  <2>3. ASSUME NEW g \in Hashes, PurgeMark(g)
        PROVE  \A d \in survivors'[h] : d.desc.kind = "tombstone"
    <3> DEFINE marked == [dir[g] EXCEPT !.desc = TombstoneDescriptor]
    <3>1. marked.desc.kind = "tombstone"
      BY <2>1, Redescribed, TombstoneTypes DEF TypeOK
    <3>2. survivors' = [survivors EXCEPT ![g] = @ \cup {marked}]
      BY <2>3 DEF PurgeMark, SetDirectory
    <3> HIDE DEF marked
    <3> QED
      BY <2>1, <3>1, <3>2 DEF TypeOK
  <2>4. CASE PurgeSync
    BY <2>1, <2>4 DEF PurgeSync, Sync, TypeOK
  <2>5. CASE PurgeRemove
    <3> DEFINE removed == [dir[purged] EXCEPT !.bytes = "absent"]
    <3>1. purged \in Hashes /\ removed.desc = dir[purged].desc
      BY <2>1, <2>5, Rebyted DEF PurgeRemove, TypeOK
    <3>2. survivors' = [survivors EXCEPT ![purged] = @ \cup {removed}]
      BY <2>5 DEF PurgeRemove, SetDirectory
    <3> HIDE DEF removed
    <3> QED
      BY <2>1, <3>1, <3>2 DEF TypeOK
  <2>6. CASE PurgeInterrupted
    BY <2>1, <2>6, NextKeepsTombstone DEF PurgeInterrupted, Next, PoweredNext, StoreFault
  <2> QED
    BY <2>2, <2>3, <2>4, <2>5, <2>6 DEF PurgeNext
<1> QED
  BY PurgeIsInvariant, <1>1, PTL DEF PurgeSpec, TombstoneForever
=============================================================================
