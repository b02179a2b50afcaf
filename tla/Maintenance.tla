---------------------------- MODULE Maintenance ----------------------------
(***************************************************************************)
(* What is done to the index and the store beside collecting: lcf reindex  *)
(* (orchestration/reindex.ts) and lcf verify --all (integrity-scanner.ts). *)
(*                                                                         *)
(* Reindexing holds the lock of the store, so no collection is under way;  *)
(* it may be killed between two descriptors, or two documents of its last  *)
(* loop, and is then started again.                                        *)
(* When the database has been lost it is the first thing the operator      *)
(* does (volume IV, 9.2).  A verification takes no lock: collections go on *)
(* at each of its awaits.                                                  *)
(***************************************************************************)
EXTENDS Collection, FiniteSets

CONSTANTS
  Rank,      \* Rank[h]: the place of a hash in the order of the index
  BatchSize, \* objects listed at a time
  Decaying   \* contents whose object file may be damaged or deleted

ASSUME RankAssumption ==
  /\ Rank \in [Hashes -> Nat \ {0}]
  /\ \A g, h \in Hashes : g # h => Rank[g] # Rank[h]
ASSUME BatchAssumption == BatchSize \in Nat \ {0}
ASSUME DecayingAssumption == Decaying \subseteq Hashes

VARIABLES
  job,      \* "none", "reindexing", "verifying" or "searching" (for orphans)
  todo,     \* hashes whose descriptor the scan has not reached
  newest,   \* newest[d]: greatest version among the references read
  replaced, \* the index that the reindexing has to give back
  lost,     \* the database was deleted and not rebuilt yet
  batch,    \* listed objects still to verify
  cursor,   \* rank of the last object of the last batch
  indexed,  \* objects verified
  anomalies,\* those among them that were damaged
  orphans,  \* objects reported as absent from the index
  atStart   \* what the index held when the verification began, and what of it has
            \* been damaged ever since

reindexVars == <<newest, replaced, lost>>
verifyVars == <<batch, cursor, indexed, anomalies, orphans, atStart>>
maintenanceVars == <<vars, job, todo, reindexVars, verifyVars>>

Nothing == [objects |-> {}, torn |-> {}]
NoVersion == [d \in Docs |-> 0]

MaintenanceTypeOK ==
  /\ CollectionTypeOK
  /\ job \in {"none", "reindexing", "verifying", "searching"}
  /\ todo \subseteq Hashes
  /\ newest \in [Docs -> 0 .. MaxVersion]
  /\ replaced \in Index
  /\ lost \in BOOLEAN
  /\ batch \subseteq index.objects
  /\ cursor \in {0} \cup {Rank[h] : h \in Hashes}
  /\ indexed \subseteq index.objects
  /\ anomalies \subseteq indexed
  /\ orphans \subseteq Hashes \ indexed
  /\ job \in {"none", "reindexing"} => batch \cup indexed = {} /\ atStart = Nothing

MaintenanceInit ==
  /\ CollectionInit
  /\ job = "none"
  /\ todo = {}
  /\ newest = NoVersion
  /\ replaced = EmptyIndex
  /\ lost = FALSE
  /\ batch = {}
  /\ cursor = 0
  /\ indexed = {}
  /\ anomalies = {}
  /\ orphans = {}
  /\ atStart = Nothing

Quiet == \A w \in Writers : phase[w] = "rest" /\ stage[w] = "idle"

ForgetVerification ==
  /\ job' = "none"
  /\ todo' = {} /\ batch' = {} /\ cursor' = 0
  /\ indexed' = {} /\ anomalies' = {} /\ orphans' = {}
  /\ atStart' = Nothing

(* No process collects while another reindexes or before the index is back.  A
   machine that stops ends the verification as well. *)
Collecting ==
  /\ job # "reindexing"
  /\ ~ lost
  /\ CollectionNext
  /\ IF PowerCut
     THEN ForgetVerification
     ELSE /\ atStart' = [atStart EXCEPT !.torn = {h \in @ : dir'[h].bytes = "torn"}]
          /\ UNCHANGED <<job, todo, batch, cursor, indexed, anomalies, orphans>>
  /\ UNCHANGED reindexVars

SetIndex(i) ==
  /\ index' = i
  /\ indexSurvivors' = {i}
  /\ UNCHANGED <<storeVars, collectVars>>

-----------------------------------------------------------------------------
(* The database file is deleted, or the disk that held it. *)
LoseIndex ==
  /\ Quiet
  /\ job = "none"
  /\ ~ lost
  /\ lost' = TRUE
  /\ replaced' = index
  /\ SetIndex(EmptyIndex)
  /\ UNCHANGED <<job, todo, newest, verifyVars>>

(* Object files decay: their bytes change, or the file disappears. *)
Decay(h) ==
  /\ h \in Decaying
  /\ dir[h].bytes = "whole"
  /\ \E b \in {"torn", "absent"} : SetDirectory(h, [dir[h] EXCEPT !.bytes = b])
  /\ UNCHANGED <<part, stage, hash, copy, indexVars, collectVars, job, todo,
                 reindexVars, verifyVars>>

-----------------------------------------------------------------------------
(* reindexFromStore() *)

(* scan(): the store is read by its descriptors, whatever stands beside them. *)
Scanned == {h \in Hashes : dir[h].desc.kind # "none"}

BeginReindex ==
  /\ Quiet
  /\ job = "none"
  /\ job' = "reindexing"
  /\ todo' = Scanned
  /\ newest' = NoVersion
  /\ replaced' = IF lost THEN replaced ELSE index
  /\ UNCHANGED <<vars, lost, verifyVars>>

(* Mutation of Accumulate: the version read last wins. *)
AccumulateLast(h) ==
  [d \in Docs |->
     LET read == {v \in Versions : <<d, v>> \in dir[h].desc.refs}
     IN  IF read = {} THEN newest[d] ELSE CHOOSE v \in read : \A u \in read : u <= v]

(* accumulate(): the order of the scan is arbitrary, the greatest version wins. *)
Accumulate(h) ==
  [d \in Docs |->
     LET read == {newest[d]} \cup {v \in Versions : <<d, v>> \in dir[h].desc.refs}
     IN  CHOOSE v \in read : \A u \in read : u <= v]

(* INSERT OR IGNORE: rows that exist already are left as they are, and a document
   whose row is new has no current version yet. *)
Inserted(h) ==
  [index EXCEPT
     !.objects = @ \cup {h},
     !.rows = [d \in Docs |-> [v \in Versions |->
       IF <<d, v>> \in dir[h].desc.refs /\ index.rows[d][v] = NoHash
       THEN h ELSE index.rows[d][v]]]]

ReindexObject(h) ==
  /\ job = "reindexing"
  /\ h \in todo
  /\ todo' = todo \ {h}
  /\ IF dir[h].desc.kind = "tombstone"
     THEN UNCHANGED <<vars, newest>>
     ELSE /\ newest' = Accumulate(h)
          /\ SetIndex(Inserted(h))
  /\ UNCHANGED <<job, replaced, lost, verifyVars>>

(* The documents that a descriptor cites get their current version, one UPDATE
   after the other.  One that writes what is there already changes nothing.  The
   status that they get with it is left out. *)
ReindexDocument(d) ==
  /\ job = "reindexing"
  /\ todo = {}
  /\ newest[d] \notin {0, index.current[d]}
  /\ SetIndex([index EXCEPT !.current[d] = newest[d]])
  /\ UNCHANGED <<job, todo, reindexVars, verifyVars>>

ReindexEnd ==
  /\ job = "reindexing"
  /\ todo = {}
  /\ \A d \in Docs : newest[d] \in {0, index.current[d]}
  /\ job' = "none"
  /\ newest' = NoVersion
  /\ lost' = FALSE
  /\ replaced' = EmptyIndex
  /\ UNCHANGED <<vars, todo, verifyVars>>

(* Every statement was committed by itself: what was written stays. *)
ReindexKilled ==
  /\ job = "reindexing"
  /\ job' = "none"
  /\ todo' = {}
  /\ newest' = NoVersion
  /\ replaced' = IF lost THEN replaced ELSE EmptyIndex
  /\ UNCHANGED <<vars, lost, verifyVars>>

-----------------------------------------------------------------------------
(* scanAll() *)

BeginVerify ==
  /\ job = "none"
  /\ job' = "verifying"
  /\ cursor' = 0
  /\ atStart' = [objects |-> index.objects,
                 torn |-> {h \in index.objects : dir[h].bytes = "torn"}]
  /\ UNCHANGED <<vars, todo, reindexVars, batch, indexed, anomalies, orphans>>

(* Mutation of NextBatch: the limit applies before the cursor. *)
NextBatchUnfiltered ==
  {h \in index.objects :
     /\ Rank[h] > cursor
     /\ Cardinality({g \in index.objects : Rank[g] < Rank[h]}) < BatchSize}

(* listContentObjects(): the first objects after the cursor. *)
NextBatch ==
  {h \in index.objects :
     /\ Rank[h] > cursor
     /\ Cardinality({g \in index.objects : Rank[g] \in cursor + 1 .. Rank[h] - 1})
          < BatchSize}

ListBatch ==
  /\ job = "verifying"
  /\ batch = {}
  /\ batch' = NextBatch
  /\ job' = IF NextBatch = {} THEN "searching" ELSE job
  /\ todo' = IF NextBatch = {} THEN Hashes ELSE todo
  /\ UNCHANGED <<vars, reindexVars, cursor, indexed, anomalies, orphans, atStart>>

(* verifyAndRecord(), one object after the other. *)
VerifyObject(h) ==
  /\ job = "verifying"
  /\ h \in batch
  /\ \A g \in batch : Rank[h] <= Rank[g]
  /\ batch' = batch \ {h}
  /\ cursor' = IF batch' = {} THEN Rank[h] ELSE cursor
  /\ indexed' = indexed \cup {h}
  /\ anomalies' = IF Verify(dir[h]) = "ok" THEN anomalies ELSE anomalies \cup {h}
  /\ UNCHANGED <<vars, job, todo, reindexVars, orphans, atStart>>

(* findUnindexed(): the scan reaches each descriptor at some time. *)
SearchObject(h) ==
  /\ job = "searching"
  /\ h \in todo
  /\ todo' = todo \ {h}
  /\ orphans' = IF dir[h].desc.kind = "live" /\ dir[h].bytes # "absent" /\ h \notin indexed
                THEN orphans \cup {h} ELSE orphans
  /\ UNCHANGED <<vars, job, reindexVars, batch, cursor, indexed, anomalies, atStart>>

VerifyEnd ==
  /\ job = "searching"
  /\ todo = {}
  /\ ForgetVerification
  /\ UNCHANGED <<vars, reindexVars>>

-----------------------------------------------------------------------------
MaintenanceNext ==
  \/ Collecting
  \/ LoseIndex
  \/ \E h \in Hashes : Decay(h)
  \/ BeginReindex
  \/ \E h \in Hashes : ReindexObject(h)
  \/ \E d \in Docs : ReindexDocument(d)
  \/ ReindexEnd
  \/ ReindexKilled
  \/ BeginVerify
  \/ ListBatch
  \/ \E h \in Hashes : VerifyObject(h)
  \/ \E h \in Hashes : SearchObject(h)
  \/ VerifyEnd

MaintenanceSpec == MaintenanceInit /\ [][MaintenanceNext]_maintenanceVars

-----------------------------------------------------------------------------
(* Properties *)

(* I-4: the descriptors give the whole index back - the rows, the current
   versions - whether the database was lost or is still there, and however
   often the reindexing was killed on the way. *)
RebuiltIndex ==
  [][ReindexEnd =>
       /\ index'.rows = replaced.rows
       /\ index'.current = replaced.current
       /\ replaced.objects \subseteq index'.objects]_maintenanceVars

(* "Parcourt tous les objets de l'index, par lots": the objects that were in the
   index when the verification began have all been verified when its batches
   end, whatever was committed meanwhile, and none that was damaged all along has
   escaped (a writer that stands before its rename repairs what it finds). *)
VerifyCoversIndex ==
  job = "searching" => atStart.objects \subseteq indexed /\ atStart.torn \subseteq anomalies

-----------------------------------------------------------------------------
(* Why the properties hold: the invariants that every step preserves. *)

(* A collection under way is about a document and a content, and the version that
   it has committed is one. *)
WritersAreNamed ==
  \A w \in Writers :
    /\ stage[w] # "idle" => hash[w] \in Hashes
    /\ phase[w] # "rest" => doc[w] \in Docs
    /\ phase[w] = "committed" => NextVersion(w) \in Versions

(* A verification has gone through its objects, or they are listed, or they come
   after all those that are. *)
VerifyIsUnderWay ==
  /\ atStart \in [objects : SUBSET Hashes, torn : SUBSET Hashes]
  /\ job # "verifying" => batch = {}
  /\ job # "searching" => orphans = {}
  /\ job \in {"verifying", "searching"} => atStart.objects \subseteq index.objects
  /\ job = "verifying" =>
       \A h \in atStart.objects \ (indexed \cup batch) :
         Rank[h] > cursor /\ \A g \in batch : Rank[h] > Rank[g]
  /\ job = "searching" => atStart.objects \subseteq indexed

(* What has been damaged all along is reported when it is verified. *)
DamageIsReported ==
  \A h \in atStart.torn :
    /\ h \in atStart.objects
    /\ dir[h].bytes = "torn"
    /\ h \in indexed => h \in anomalies

VerifyInvariant ==
  /\ MaintenanceTypeOK
  /\ WritersAreNamed
  /\ VerifyIsUnderWay
  /\ DamageIsReported

(* The index that the archive has to go by: the one in use, or the lost one. *)
Promised == IF lost THEN replaced ELSE index

(* The versions of a document are numbered without a gap. *)
NumberedThrough(i) ==
  \A d \in Docs, v \in Versions : i.rows[d][v] # NoHash <=> v <= i.current[d]

(* Descriptors and index say the same, but for a reference that its collection is
   about to attach. *)
DescriptorsAgree ==
  /\ NumberedThrough(Promised)
  /\ \A h \in Hashes : \A r \in dir[h].desc.refs :
       r \in Docs \X Versions /\ Promised.rows[r[1]][r[2]] = h
  /\ \A d \in Docs, v \in Versions :
       LET h == Promised.rows[d][v]
       IN  h # NoHash =>
             \/ <<d, v>> \in dir[h].desc.refs
             \/ \E w \in Writers :
                  phase[w] = "committed" /\ doc[w] = d /\ NextVersion(w) = v
  /\ \A h \in Promised.objects \cup index.objects : dir[h].desc.kind = "live"
  /\ \A h \in Hashes : dir[h].desc.kind = "live" \/ dir[h].desc = NoDescriptor

(* What the only writer may rely on: nobody else touches the descriptor that it
   has read, nor the row that it has committed. *)
WriterIsAlone ==
  \A w \in Writers :
    /\ phase[w] # "rest" => known[w] <= index.current[doc[w]]
    /\ phase[w] = "committed" =>
         /\ stage[w] \in {"stored", "attaching", "attached"}
         /\ index.rows[doc[w]][NextVersion(w)] = hash[w]
    /\ stage[w] \in {"attaching", "attached"} => phase[w] = "committed"
    /\ stage[w] \in {"writing", "attaching"} => copy[w].kind = "live"
    /\ stage[w] = "writing" => copy[w].refs = dir[hash[w]].desc.refs
    /\ stage[w] = "attaching" =>
         copy[w].refs = dir[hash[w]].desc.refs \cup {<<doc[w], NextVersion(w)>>}
    /\ stage[w] = "attached" => <<doc[w], NextVersion(w)>> \in dir[hash[w]].desc.refs
    /\ stage[w] \in {"described", "stored", "attaching", "attached"} =>
         dir[hash[w]].desc.kind = "live"

(* What has been given back of the index, at each step of a reindexing, and what
   one that was killed has left. *)
RebuildIsUnderWay ==
  /\ replaced \in Index
  /\ newest \in [Docs -> 0 .. MaxVersion]
  /\ lost \/ job = "reindexing" => Quiet
  /\ lost =>
       /\ \A d \in Docs : index.current[d] \in {0, replaced.current[d]}
       /\ \A d \in Docs, v \in Versions : index.rows[d][v] \in {NoHash, replaced.rows[d][v]}
  /\ job = "reindexing" /\ ~ lost =>
       index.rows = replaced.rows /\ index.current = replaced.current
         /\ replaced.objects \subseteq index.objects
  /\ job = "reindexing" =>
       /\ todo \subseteq Scanned
       /\ \A h \in Hashes \ todo :
            /\ dir[h].desc.kind = "live" => h \in index.objects
            /\ \A r \in dir[h].desc.refs :
                 index.rows[r[1]][r[2]] = h /\ r[2] <= newest[r[1]]
       /\ \A d \in Docs :
            newest[d] # 0 => \E h \in Hashes : <<d, newest[d]>> \in dir[h].desc.refs

RebuildInvariant ==
  /\ CollectionTypeOK
  /\ WritersAreNamed
  /\ DescriptorsAgree
  /\ WriterIsAlone
  /\ RebuildIsUnderWay
=============================================================================
