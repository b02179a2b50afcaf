---------------------------- MODULE ContentStore ----------------------------
(***************************************************************************)
(* The file-system content store: the write protocol E1 .. E9 of           *)
(* packages/kernel/src/storage/filesystem-content-store.ts and the         *)
(* reference list of descriptor.ts.                                        *)
(*                                                                         *)
(* Every hash owns one leaf directory, which holds the object file and its *)
(* descriptor.  A writer is one collection in progress: it goes through    *)
(* store() and then attachReference(), and any other writer may run at     *)
(* each of its awaits.  dir is what a reader sees; survivors is the set of *)
(* states in which the directory may be found after a power loss, i.e. the *)
(* states it went through since it was last synchronised.                  *)
(***************************************************************************)
CONSTANTS
  Hashes,    \* content hashes
  NoHash,    \* the hash of a writer that is not writing
  Refs,      \* references: one version of one document
  Writers,   \* collections that share the store
  Faults     \* what may go wrong, a subset of FaultKinds

FaultKinds == {"io", "cleanup", "crash", "power"}

ASSUME NoHashAssumption == NoHash \notin Hashes
ASSUME FaultsAssumption == Faults \subseteq FaultKinds

VARIABLES
  dir,       \* dir[h]: the leaf directory of h as the process sees it
  survivors, \* survivors[h]: its possible states after a power loss
  part,      \* part[w]: the file tmp/<run>/<uuid>.part of the writer
  stage,     \* stage[w]: the await the writer stands at
  hash,      \* hash[w]: the content being written
  copy       \* copy[w]: the descriptor the writer is about to write

storeVars == <<dir, survivors, part, stage, hash, copy>>

Descriptor == [kind : {"none", "live", "tombstone"}, refs : SUBSET Refs]
NoDescriptor == [kind |-> "none", refs |-> {}]
Live(R) == [kind |-> "live", refs |-> R]

Directory == [bytes : {"absent", "torn", "whole"}, desc : Descriptor]
EmptyDirectory == [bytes |-> "absent", desc |-> NoDescriptor]

Stages == {"idle", "streaming", "flushing", "ready", "publishing", "renamed",
           "describing", "writing", "described", "stored", "attaching", "attached"}

(* verify(): a missing object is explained by a tombstone or reported. *)
Verify(d) ==
  CASE d.bytes = "absent" /\ d.desc.kind = "tombstone" -> "ok"
    [] d.bytes = "absent" /\ d.desc.kind # "tombstone" -> "missing_file"
    [] d.bytes = "torn" -> "hash_mismatch"
    [] d.bytes = "whole" -> "ok"

TypeOK ==
  /\ dir \in [Hashes -> Directory]
  /\ survivors \in [Hashes -> SUBSET Directory]
  /\ part \in [Writers -> {"none", "open", "written", "synced"}]
  /\ stage \in [Writers -> Stages]
  /\ hash \in [Writers -> Hashes \cup {NoHash}]
  /\ copy \in [Writers -> Descriptor]

Init ==
  /\ dir = [h \in Hashes |-> EmptyDirectory]
  /\ survivors = [h \in Hashes |-> {EmptyDirectory}]
  /\ part = [w \in Writers |-> "none"]
  /\ stage = [w \in Writers |-> "idle"]
  /\ hash = [w \in Writers |-> NoHash]
  /\ copy = [w \in Writers |-> NoDescriptor]

-----------------------------------------------------------------------------
(* Steps shared by the operations *)

Goto(w, s) == stage' = [stage EXCEPT ![w] = s]

(* A change of the directory that is not synchronised yet: a power loss may
   keep it or undo it. *)
SetDirectory(h, d) ==
  /\ dir' = [dir EXCEPT ![h] = d]
  /\ survivors' = [survivors EXCEPT ![h] = @ \cup {d}]

(* #fsyncDir: only the current state can be found from now on.  An error of the
   disk is thrown (Fail); EPERM, EISDIR, EACCES, ENOTSUP and EINVAL are not, and
   the caller goes on over a directory that is not synchronised.  The platform is
   assumed to synchronise directories, which NTFS does not: see README, section 2. *)
Sync(h) ==
  /\ survivors' = [survivors EXCEPT ![h] = {dir[h]}]
  /\ UNCHANGED dir

(* The writer is done, or gives up: its part file is unlinked. *)
Leave(w) ==
  /\ Goto(w, "idle")
  /\ hash' = [hash EXCEPT ![w] = NoHash]
  /\ copy' = [copy EXCEPT ![w] = NoDescriptor]
  /\ part' = [part EXCEPT ![w] = "none"]

-----------------------------------------------------------------------------
(* store(): E1 to E9 *)

(* E1: the part file of a new transfer. *)
Begin(w, h) ==
  /\ stage[w] = "idle"
  /\ Goto(w, "streaming")
  /\ hash' = [hash EXCEPT ![w] = h]
  /\ part' = [part EXCEPT ![w] = "open"]
  /\ UNCHANGED <<dir, survivors, copy>>

(* E2: the body is hashed and written through the open file, which may have
   lost its name. *)
WriteBody(w) ==
  /\ stage[w] = "streaming"
  /\ part' = [part EXCEPT ![w] = IF @ = "none" THEN @ ELSE "written"]
  /\ Goto(w, "flushing")
  /\ UNCHANGED <<dir, survivors, hash, copy>>

(* Mutation of SyncPart: the part file is not synchronised. *)
SyncPartUnflushed(w) ==
  /\ stage[w] = "flushing"
  /\ part[w] # "none"
  /\ Goto(w, "ready")
  /\ UNCHANGED <<dir, survivors, part, hash, copy>>

(* E6: the part file is opened again, by its name, and synchronised. *)
SyncPart(w) ==
  /\ stage[w] = "flushing"
  /\ part[w] # "none"
  /\ part' = [part EXCEPT ![w] = "synced"]
  /\ Goto(w, "ready")
  /\ UNCHANGED <<dir, survivors, hash, copy>>

(* Mutation of Deduplicate: store() returns as soon as it finds the object. *)
DeduplicateTrusting(w) ==
  /\ stage[w] = "ready"
  /\ dir[hash[w]].bytes # "absent"
  /\ part' = [part EXCEPT ![w] = "none"]
  /\ Goto(w, "stored")
  /\ UNCHANGED <<dir, survivors, hash, copy>>

(* E5, content already there: the transfer is dropped, the object reused. *)
Deduplicate(w) ==
  /\ stage[w] = "ready"
  /\ dir[hash[w]].bytes # "absent"
  /\ part' = [part EXCEPT ![w] = "none"]
  /\ Goto(w, "describing")
  /\ UNCHANGED <<dir, survivors, hash, copy>>

(* E5, content not there yet: the writer will publish its own file. *)
NotLocated(w) ==
  /\ stage[w] = "ready"
  /\ dir[hash[w]].bytes = "absent"
  /\ Goto(w, "publishing")
  /\ UNCHANGED <<dir, survivors, part, hash, copy>>

(* Mutation of Rename: the file in place is unlinked first. *)
RenameAfterUnlink(w) ==
  LET published == [dir[hash[w]] EXCEPT !.bytes = "whole"]
      unlinked  == [dir[hash[w]] EXCEPT !.bytes = "absent"]
  IN  /\ stage[w] = "publishing"
      /\ part[w] # "none"
      /\ dir' = [dir EXCEPT ![hash[w]] = published]
      /\ survivors' = [survivors EXCEPT ![hash[w]] = @ \cup {unlinked, published}]
      /\ part' = [part EXCEPT ![w] = "none"]
      /\ Goto(w, "renamed")
      /\ UNCHANGED <<hash, copy>>

(* E7: the rename replaces whatever another writer published meanwhile.  The
   content of a file that was never synchronised may not survive. *)
Rename(w) ==
  LET published == [dir[hash[w]] EXCEPT !.bytes = "whole"]
      damaged   == [dir[hash[w]] EXCEPT !.bytes = "torn"]
  IN  /\ stage[w] = "publishing"
      /\ part[w] # "none"
      /\ dir' = [dir EXCEPT ![hash[w]] = published]
      /\ survivors' =
           [survivors EXCEPT ![hash[w]] =
              @ \cup {published} \cup (IF part[w] = "synced" THEN {} ELSE {damaged})]
      /\ part' = [part EXCEPT ![w] = "none"]
      /\ Goto(w, "renamed")
      /\ UNCHANGED <<hash, copy>>

SyncObject(w) ==
  /\ stage[w] = "renamed"
  /\ Sync(hash[w])
  /\ Goto(w, "describing")
  /\ UNCHANGED <<part, hash, copy>>

(* Mutation of UpsertRead: the descriptor starts again from nothing. *)
UpsertReadAfresh(w) ==
  /\ stage[w] = "describing"
  /\ dir[hash[w]].desc.kind # "tombstone"
  /\ copy' = [copy EXCEPT ![w] = Live({})]
  /\ Goto(w, "writing")
  /\ UNCHANGED <<dir, survivors, part, hash>>

(* Mutation of UpsertRead: a tombstone is treated as an absent descriptor. *)
UpsertReadRevives(w) ==
  /\ stage[w] = "describing"
  /\ copy' = [copy EXCEPT ![w] = Live(dir[hash[w]].desc.refs)]
  /\ Goto(w, "writing")
  /\ UNCHANGED <<dir, survivors, part, hash>>

(* E8, read half of #upsertPhysicalDescriptor: references already there are
   carried over into the descriptor to write. *)
UpsertRead(w) ==
  /\ stage[w] = "describing"
  /\ dir[hash[w]].desc.kind # "tombstone"
  /\ copy' = [copy EXCEPT ![w] = Live(dir[hash[w]].desc.refs)]
  /\ Goto(w, "writing")
  /\ UNCHANGED <<dir, survivors, part, hash>>

(* E8, write half: temporary file, synchronised, then renamed. *)
UpsertWrite(w) ==
  /\ stage[w] = "writing"
  /\ SetDirectory(hash[w], [dir[hash[w]] EXCEPT !.desc = copy[w]])
  /\ Goto(w, "described")
  /\ UNCHANGED <<part, hash, copy>>

(* E9, then store() returns to its caller. *)
SyncDescriptor(w) ==
  /\ stage[w] = "described"
  /\ Sync(hash[w])
  /\ Goto(w, "stored")
  /\ UNCHANGED <<part, hash, copy>>

-----------------------------------------------------------------------------
(* attachReference() *)

AttachRead(w, r) ==
  /\ stage[w] = "stored"
  /\ dir[hash[w]].desc.kind = "live"
  /\ r \notin dir[hash[w]].desc.refs
  /\ copy' = [copy EXCEPT ![w] = Live(dir[hash[w]].desc.refs \cup {r})]
  /\ Goto(w, "attaching")
  /\ UNCHANGED <<dir, survivors, part, hash>>

(* The reference is listed already: the descriptor is left alone. *)
AttachNothing(w, r) ==
  /\ stage[w] = "stored"
  /\ dir[hash[w]].desc.kind = "live"
  /\ r \in dir[hash[w]].desc.refs
  /\ Leave(w)
  /\ UNCHANGED <<dir, survivors>>

AttachWrite(w) ==
  /\ stage[w] = "attaching"
  /\ SetDirectory(hash[w], [dir[hash[w]] EXCEPT !.desc = copy[w]])
  /\ Goto(w, "attached")
  /\ UNCHANGED <<part, hash, copy>>

SyncAttach(w) ==
  /\ stage[w] = "attached"
  /\ Sync(hash[w])
  /\ Leave(w)

(* The caller found the content it knew already and attaches nothing. *)
Release(w) ==
  /\ stage[w] = "stored"
  /\ Leave(w)
  /\ UNCHANGED <<dir, survivors>>

-----------------------------------------------------------------------------
(* Errors and faults *)

(* Mutation of Abort: a part file that disappeared is waited for. *)
AbortUnlessSwept(w) ==
  /\ \/ stage[w] \in {"streaming", "ready"}
     \/ stage[w] \in {"describing", "stored"} /\ dir[hash[w]].desc.kind = "tombstone"
  /\ Leave(w)
  /\ UNCHANGED <<dir, survivors>>

(* An exception in the writer: the body or its checks fail (E2, E3), the part
   file is gone, or the object is purged. *)
Abort(w) ==
  /\ \/ stage[w] \in {"streaming", "ready"}
     \/ stage[w] \in {"flushing", "publishing"} /\ part[w] = "none"
     \/ stage[w] \in {"describing", "stored"} /\ dir[hash[w]].desc.kind = "tombstone"
  /\ Leave(w)
  /\ UNCHANGED <<dir, survivors>>

(* Any file operation may report an error. *)
IoError(w) ==
  /\ "io" \in Faults
  /\ stage[w] # "idle"
  /\ Leave(w)
  /\ UNCHANGED <<dir, survivors>>

(* Another process opens the same data directory: its init() empties tmp/. *)
ForeignCleanup ==
  /\ "cleanup" \in Faults
  /\ part' = [w \in Writers |-> "none"]
  /\ UNCHANGED <<dir, survivors, stage, hash, copy>>

(* Every writer vanishes; the next process starts with an empty tmp/. *)
Restart ==
  /\ part' = [w \in Writers |-> "none"]
  /\ stage' = [w \in Writers |-> "idle"]
  /\ hash' = [w \in Writers |-> NoHash]
  /\ copy' = [w \in Writers |-> NoDescriptor]

Crash ==
  /\ "crash" \in Faults
  /\ Restart
  /\ UNCHANGED <<dir, survivors>>

PowerLoss ==
  /\ "power" \in Faults
  /\ Restart
  /\ dir' \in [Hashes -> UNION {survivors[h] : h \in Hashes}]
  /\ \A h \in Hashes : dir'[h] \in survivors[h]
  /\ survivors' = [h \in Hashes |-> {dir'[h]}]

-----------------------------------------------------------------------------
(* The steps of one writer that need no decision of its caller. *)
StoreStep(w) ==
  \/ WriteBody(w)
  \/ SyncPart(w)
  \/ Deduplicate(w)
  \/ NotLocated(w)
  \/ Rename(w)
  \/ SyncObject(w)
  \/ UpsertRead(w)
  \/ UpsertWrite(w)
  \/ SyncDescriptor(w)
  \/ AttachWrite(w)
  \/ SyncAttach(w)
  \/ Abort(w)

StoreFault == ForeignCleanup \/ Crash

(* The steps taken while the machine is powered. *)
PoweredNext ==
  \/ \E w \in Writers : StoreStep(w)
  \/ \E w \in Writers, h \in Hashes : Begin(w, h)
  \/ \E w \in Writers, r \in Refs : AttachRead(w, r) \/ AttachNothing(w, r)
  \/ \E w \in Writers : Release(w) \/ IoError(w)
  \/ StoreFault

Next == PoweredNext \/ PowerLoss

Spec == Init /\ [][Next]_storeVars

(* A completed await is always resumed by the event loop, and the caller always
   goes on with what store() returned. *)
WriterStep(w) ==
  \/ StoreStep(w)
  \/ \E r \in Refs : AttachRead(w, r) \/ AttachNothing(w, r)
  \/ Release(w)

-----------------------------------------------------------------------------
(* Properties *)

(* What the directory of h may turn out to be, whatever happens next. *)
Durable(h) == \A d \in survivors[h] : d.bytes = "whole"

(* A descriptor never describes bytes that are missing or damaged, not even
   in the state a power loss would leave: the order rename, fsyncDir,
   descriptor of store(). *)
DescribedHasBytes ==
  \A h \in Hashes : \A d \in survivors[h] :
    d.desc.kind = "live" => d.bytes = "whole"

(* Once store() has returned, its content is there for good: the caller may
   write the index.  This is what the order of E6 to E9 buys, including on the
   deduplication path, where the writer reuses a file that another writer has
   renamed and not synchronised yet. *)
StoredIsDurable ==
  \A w \in Writers :
    stage[w] \in {"stored", "attaching", "attached"} =>
      /\ Durable(hash[w])
      /\ \A d \in survivors[hash[w]] : d.desc.kind = "live"

(* I-1 and I-6: no operation and no fault takes durable bytes away. *)
DurableForever ==
  [][\A h \in Hashes : Durable(h) => Durable(h)']_storeVars

(* "un objet partage accumule ses provenances, il n'en perd jamais": no step
   drops a reference from a descriptor.  Two writers of one content do not keep
   it (README, section 3). *)
NoReferenceLost ==
  [][\A h \in Hashes : dir[h].desc.refs \subseteq dir'[h].desc.refs]_storeVars

(* A writer always ends, whatever it lost on the way: a part file swept by
   another process makes it fail, it never leaves it waiting. *)
WriterReturns == \A w \in Writers : stage[w] # "idle" ~> stage[w] = "idle"

-----------------------------------------------------------------------------
(* Why the properties hold: the invariant that every step preserves. *)

(* A part file reaches the rename only after it was synchronised. *)
PartIsSynced ==
  \A w \in Writers :
    stage[w] \in {"ready", "publishing"} => part[w] \in {"none", "synced"}

(* What a power loss may leave of a directory: the present state among others,
   never damaged bytes, and a live descriptor only beside whole bytes. *)
SurvivorsAreSound ==
  \A h \in Hashes :
    /\ dir[h] \in survivors[h]
    /\ \A d \in survivors[h] :
         /\ d.bytes # "torn"
         /\ d.desc.kind = "live" => d.bytes = "whole"

(* What each writer may rely on at the await it stands at. *)
WriterKnows ==
  \A w \in Writers :
    /\ stage[w] # "idle" => hash[w] \in Hashes
    /\ stage[w] \in {"renamed", "describing", "writing", "described"}
         => dir[hash[w]].bytes = "whole"
    /\ stage[w] \in {"writing", "attaching"} => copy[w].kind = "live"
    /\ stage[w] = "writing" => dir[hash[w]].desc.kind # "tombstone"
    /\ stage[w] = "described" => dir[hash[w]].desc.kind = "live"

(* The inductive invariant of the write protocol: bytes are synchronised
   before they are renamed, renamed before they are described, and what one
   writer knows of a directory no other writer makes false. *)
StoreInvariant ==
  /\ TypeOK
  /\ PartIsSynced
  /\ SurvivorsAreSound
  /\ WriterKnows
  /\ StoredIsDurable
=============================================================================
