----------------------------- MODULE Collection -----------------------------
(***************************************************************************)
(* The collection of documents: #collectOne of                             *)
(* packages/kernel/src/orchestration/collection-runner.ts on top of the    *)
(* content store, and the transaction E10 of db/sql-repository.ts.         *)
(*                                                                         *)
(* A writer is one collection in progress.  Several may run at once, and   *)
(* two of them may work on the same document: the lock of a source is      *)
(* released before its failed documents are retried (see SourceRuns).      *)
(*                                                                         *)
(* The index is one record, because a transaction replaces it in one step. *)
(* It runs in WAL mode with synchronous = NORMAL: a crash of the process   *)
(* keeps every commit, a power loss may undo those made since the last     *)
(* checkpoint.                                                             *)
(***************************************************************************)
EXTENDS ContentStore, Naturals

CONSTANTS
  Docs,       \* documents
  NoDoc,      \* the document of a writer at rest
  MaxVersion  \* bound: versions of one document

ASSUME NoDocAssumption == NoDoc \notin Docs
ASSUME MaxVersionAssumption == MaxVersion \in Nat \ {0}
ASSUME RefsAssumption == Docs \X (1 .. MaxVersion) \subseteq Refs

VARIABLES
  index,          \* the tables document_versions, documents, content_objects
  indexSurvivors, \* what a power loss may leave of them
  phase,          \* phase[w]: "rest", "fetching" or "committed"
  doc,            \* doc[w]: the document being collected
  known           \* known[w]: its current version when the collection began

indexVars == <<index, indexSurvivors>>
collectVars == <<phase, doc, known>>
vars == <<storeVars, indexVars, collectVars>>

Versions == 1 .. MaxVersion

Index == [rows    : [Docs -> [Versions -> Hashes \cup {NoHash}]],
          current : [Docs -> 0 .. MaxVersion],
          objects : SUBSET Hashes]

EmptyIndex == [rows    |-> [d \in Docs |-> [v \in Versions |-> NoHash]],
               current |-> [d \in Docs |-> 0],
               objects |-> {}]

CollectionTypeOK ==
  /\ TypeOK
  /\ index \in Index
  /\ indexSurvivors \in SUBSET Index
  /\ phase \in [Writers -> {"rest", "fetching", "committed"}]
  /\ doc \in [Writers -> Docs \cup {NoDoc}]
  /\ known \in [Writers -> 0 .. MaxVersion]

CollectionInit ==
  /\ Init
  /\ index = EmptyIndex
  /\ indexSurvivors = {EmptyIndex}
  /\ phase = [w \in Writers |-> "rest"]
  /\ doc = [w \in Writers |-> NoDoc]
  /\ known = [w \in Writers |-> 0]

-----------------------------------------------------------------------------
(* The content of the current version, as the collection read it. *)
KnownHash(w) == IF known[w] = 0 THEN NoHash ELSE index.rows[doc[w]][known[w]]

NextVersion(w) == known[w] + 1

Rest(w) ==
  /\ phase' = [phase EXCEPT ![w] = "rest"]
  /\ doc' = [doc EXCEPT ![w] = NoDoc]
  /\ known' = [known EXCEPT ![w] = 0]

(* currentVersion() is read first and used only after the whole transfer. *)
Discover(w, d) ==
  /\ phase[w] = "rest"
  /\ phase' = [phase EXCEPT ![w] = "fetching"]
  /\ doc' = [doc EXCEPT ![w] = d]
  /\ known' = [known EXCEPT ![w] = index.current[d]]
  /\ UNCHANGED <<storeVars, indexVars>>

(* Fresh enough, answered 304, unresolvable, or out of attempts. *)
NotDownloaded(w) ==
  /\ phase[w] = "fetching"
  /\ stage[w] = "idle"
  /\ Rest(w)
  /\ UNCHANGED <<storeVars, indexVars>>

(* The source may serve any content; a transfer that failed is tried again. *)
Download(w, h) ==
  /\ phase[w] = "fetching"
  /\ Begin(w, h)
  /\ UNCHANGED <<indexVars, collectVars>>

(* The steps of store() and attachReference() up to the last one. *)
StoreWork(w) ==
  /\ \/ WriteBody(w)
     \/ SyncPart(w)
     \/ Deduplicate(w)
     \/ NotLocated(w)
     \/ Rename(w)
     \/ SyncObject(w)
     \/ UpsertRead(w)
     \/ UpsertWrite(w)
     \/ SyncDescriptor(w)
     \/ AttachWrite(w)
  /\ UNCHANGED <<indexVars, collectVars>>

(* N3: identical content never makes a version. *)
Touch(w) ==
  /\ phase[w] = "fetching"
  /\ hash[w] = KnownHash(w)
  /\ Release(w)
  /\ Rest(w)
  /\ UNCHANGED indexVars

(* Mutation of Committing: identical content is committed too. *)
CommittingUnchanged(w) ==
  /\ phase[w] = "fetching"
  /\ stage[w] = "stored"
  /\ NextVersion(w) \in Versions

Committing(w) ==
  /\ phase[w] = "fetching"
  /\ stage[w] = "stored"
  /\ hash[w] # KnownHash(w)
  /\ NextVersion(w) \in Versions

Committed(w) ==
  /\ phase' = [phase EXCEPT ![w] = "committed"]
  /\ UNCHANGED <<storeVars, doc, known>>

(* Mutation of Commit: the row of that version, if any, is replaced. *)
CommitOverwriting(w) ==
  /\ Committing(w)
  /\ index' = [index EXCEPT !.rows[doc[w]][NextVersion(w)] = hash[w],
                            !.current[doc[w]] = NextVersion(w),
                            !.objects = @ \cup {hash[w]}]
  /\ indexSurvivors' = indexSurvivors \cup {index'}
  /\ Committed(w)

(* E10: the version row is new, one transaction writes the three tables. *)
Commit(w) ==
  /\ Committing(w)
  /\ index.rows[doc[w]][NextVersion(w)] = NoHash
  /\ index' = [index EXCEPT !.rows[doc[w]][NextVersion(w)] = hash[w],
                            !.current[doc[w]] = NextVersion(w),
                            !.objects = @ \cup {hash[w]}]
  /\ indexSurvivors' = indexSurvivors \cup {index'}
  /\ Committed(w)

(* E10 replayed: the same version is there already. *)
CommitReplayed(w) ==
  /\ Committing(w)
  /\ index.rows[doc[w]][NextVersion(w)] = hash[w]
  /\ Committed(w)
  /\ UNCHANGED indexVars

(* E10 refused: another collection committed that version meanwhile, with
   another content ("conflit de version"). *)
CommitConflict(w) ==
  /\ Committing(w)
  /\ index.rows[doc[w]][NextVersion(w)] \notin {NoHash, hash[w]}
  /\ Leave(w)
  /\ Rest(w)
  /\ UNCHANGED <<dir, survivors, indexVars>>

(* Mutation of Attach: the reference is attached before the commit. *)
AttachUncommitted(w) ==
  /\ phase[w] = "fetching"
  /\ AttachRead(w, <<doc[w], NextVersion(w)>>)
  /\ UNCHANGED <<indexVars, collectVars>>

(* Only now does the descriptor receive the reference. *)
Attach(w) ==
  /\ phase[w] = "committed"
  /\ AttachRead(w, <<doc[w], NextVersion(w)>>)
  /\ UNCHANGED <<indexVars, collectVars>>

AttachDone(w) ==
  /\ phase[w] = "committed"
  /\ AttachNothing(w, <<doc[w], NextVersion(w)>>) \/ SyncAttach(w)
  /\ Rest(w)
  /\ UNCHANGED indexVars

(* A failed transfer may be tried again; a failure after it ends the
   collection of the document. *)
Fail(w) ==
  /\ Abort(w) \/ IoError(w)
  /\ IF phase[w] = "fetching" /\ stage[w] # "stored"
     THEN UNCHANGED collectVars
     ELSE Rest(w)
  /\ UNCHANGED indexVars

-----------------------------------------------------------------------------
RestAll ==
  /\ phase' = [w \in Writers |-> "rest"]
  /\ doc' = [w \in Writers |-> NoDoc]
  /\ known' = [w \in Writers |-> 0]

ProcessCrash == Crash /\ RestAll /\ UNCHANGED indexVars

PowerCut ==
  /\ PowerLoss
  /\ RestAll
  /\ index' \in indexSurvivors
  /\ indexSurvivors' = {index'}

(* SQLite moves the WAL into the database file and synchronises it. *)
Checkpoint ==
  /\ "power" \in Faults
  /\ indexSurvivors' = {index}
  /\ UNCHANGED <<storeVars, index, collectVars>>

CollectStep(w) ==
  \/ NotDownloaded(w)
  \/ StoreWork(w)
  \/ Touch(w)
  \/ Commit(w)
  \/ CommitReplayed(w)
  \/ CommitConflict(w)
  \/ Attach(w)
  \/ AttachDone(w)
  \/ Fail(w)

CollectionNext ==
  \/ \E w \in Writers, d \in Docs : Discover(w, d)
  \/ \E w \in Writers, h \in Hashes : Download(w, h)
  \/ \E w \in Writers : CollectStep(w)
  \/ ForeignCleanup /\ UNCHANGED <<indexVars, collectVars>>
  \/ ProcessCrash
  \/ PowerCut
  \/ Checkpoint

CollectionSpec == CollectionInit /\ [][CollectionNext]_vars

-----------------------------------------------------------------------------
(* Properties *)

(* I-2: "Aucune sequence de panne ne produit une entree de base pointant vers
   un fichier absent".  Whatever the index and the directories look like after
   a fault, every version points to bytes that are there, whole. *)
IndexedHasBytes ==
  \A i \in indexSurvivors \cup {index} :
    \A d \in Docs, v \in Versions :
      i.rows[d][v] # NoHash => Durable(i.rows[d][v])

(* The post-migration checks of db/migrations.ts: every version has its content
   object, the current version is the greatest, and no number is skipped - even
   when two collections of the same document race. *)
IndexConsistent ==
  \A i \in indexSurvivors \cup {index} :
    \A d \in Docs, v \in Versions :
      /\ i.rows[d][v] # NoHash <=> v <= i.current[d]
      /\ i.rows[d][v] # NoHash => i.rows[d][v] \in i.objects

(* A reference is written into a descriptor only when the index has committed
   its version with that content, so that a rebuilt index holds nothing the lost
   one did not. *)
NoPhantomReference ==
  [][\A w \in Writers : AttachWrite(w)
       => \A r \in dir'[hash[w]].desc.refs \ dir[hash[w]].desc.refs :
            index.rows[r[1]][r[2]] = hash[w]]_vars

(* I-4: "le magasin reste auto-suffisant".  Every committed version is listed
   by the descriptor of its content, or its collection is about to list it. *)
StoreSelfSufficient ==
  \A d \in Docs, v \in Versions :
    LET h == index.rows[d][v]
    IN  h # NoHash =>
          \/ <<d, v>> \in dir[h].desc.refs
          \/ \E w \in Writers :
               phase[w] = "committed" /\ doc[w] = d /\ NextVersion(w) = v

(* The index can be rebuilt: no two descriptors claim the same version.  It
   holds without a power loss, and fails with one
   (README, section 3). *)
ReferencesUnambiguous ==
  \A g, h \in Hashes :
    g # h => dir[g].desc.refs \cap dir[h].desc.refs = {}

(* What a reader of the archive sees: the contents present, and the rows up to
   the current version. *)
A == INSTANCE Archive WITH
       held    <- {h \in Hashes : dir[h].bytes = "whole"},
       history <- [d \in Docs |-> [v \in 1 .. index.current[d] |-> index.rows[d][v]]]

(* The collection implements the archive, which may forget its end, and nothing
   but a power loss makes it do so: a crash of the process loses nothing. *)
ImplementsArchive == A!Spec /\ [][A!Grow \/ PowerCut]_(A!archiveVars)

-----------------------------------------------------------------------------
(* Why the properties hold: the invariant that every step preserves. *)

(* A collection under way knows a version that exists, and commits the next. *)
CollectorKnows ==
  \A w \in Writers :
    /\ phase[w] # "rest" => doc[w] \in Docs /\ known[w] <= index.current[doc[w]]
    /\ phase[w] = "committed" => NextVersion(w) \in Versions

(* One state of the index is sound when its versions are numbered without a gap
   and each has its content object, whose bytes are durable. *)
SoundIndex(i) ==
  /\ i \in Index
  /\ \A d \in Docs, v \in Versions :
       /\ i.rows[d][v] # NoHash <=> v <= i.current[d]
       /\ i.rows[d][v] # NoHash => i.rows[d][v] \in i.objects
       /\ i.rows[d][v] # NoHash => Durable(i.rows[d][v])

(* The inductive invariant of the collection: the write protocol keeps its own,
   the index is among the states that a power loss may leave of it, and each of
   these states is sound. *)
CollectionInvariant ==
  /\ CollectionTypeOK
  /\ StoreInvariant
  /\ index \in indexSurvivors
  /\ CollectorKnows
  /\ \A i \in indexSurvivors : SoundIndex(i)

(* Why the collection implements the archive: what a power loss may leave is
   nothing but an earlier state.  A directory has its bytes now if it may have
   them then. *)
BytesOnlyCome ==
  \A h \in Hashes : \A d \in survivors[h] :
    d.bytes = "whole" => dir[h].bytes = "whole"

(* An index that may come back holds the beginning of each present history. *)
HistoriesOnlyGrow ==
  \A i \in indexSurvivors : \A d \in Docs :
    /\ i.current[d] <= index.current[d]
    /\ \A v \in 1 .. i.current[d] : i.rows[d][v] = index.rows[d][v]

(* The reference r of the content h has its row in the index. *)
Backed(h, r) == index.rows[r[1]][r[2]] = h

(* Why no reference is invented.  The references are versions of documents. *)
ReferencesAreVersions ==
  /\ \A h \in Hashes : \A d \in survivors[h] : d.desc.refs \subseteq Docs \X Versions
  /\ \A w \in Writers : copy[w].refs \subseteq Docs \X Versions

(* A collection has committed its version before it attaches a reference to it. *)
CommittedBeforeAttached ==
  \A w \in Writers :
    /\ stage[w] \in {"attaching", "attached"} => phase[w] = "committed"
    /\ phase[w] = "committed" =>
         /\ stage[w] \in {"stored", "attaching", "attached"}
         /\ Backed(hash[w], <<doc[w], NextVersion(w)>>)

(* What a descriptor about to be written lists without a row, after a power
   loss, is what the descriptor on disk lists without a row: neither more, for it
   would be invented, nor less, for another writer could then invent it. *)
CopiesInventNothing ==
  \A w \in Writers :
    stage[w] \in {"writing", "attaching"} =>
      \A r \in Docs \X Versions :
        ~ Backed(hash[w], r) => (r \in copy[w].refs <=> r \in dir[hash[w]].desc.refs)

ReferencesAreCommitted ==
  /\ ReferencesAreVersions
  /\ CommittedBeforeAttached
  /\ CopiesInventNothing
=============================================================================
