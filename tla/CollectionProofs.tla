-------------------------- MODULE CollectionProofs --------------------------
(***************************************************************************)
(* Proofs about Collection: for any number of concurrent collections,      *)
(* documents and contents, and through process crashes and power losses,   *)
(* the index never cites bytes that may be missing, and the collection     *)
(* implements Archive.  In the second half, about Maintenance: a           *)
(* verification beside the collections misses nothing, and a reindexing    *)
(* gives the index back.                                                   *)
(***************************************************************************)
EXTENDS Maintenance, StoreProofs, SequenceTheorems, FiniteSetTheorems, WellFoundedInduction

(* Every step of a collection is, on the directories, a step of the content
   store or leaves them alone, and only a power cut is a loss of power. *)
LEMMA CollectionStepIsPowered ==
  ASSUME CollectionInvariant, [CollectionNext]_vars
  PROVE  PowerCut \/ [PoweredNext]_storeVars
<1>1. CASE \E w \in Writers, d \in Docs : Discover(w, d)
  BY <1>1 DEF Discover
<1>2. CASE \E w \in Writers, h \in Hashes : Download(w, h)
  BY <1>2 DEF Download, PoweredNext
<1>3. ASSUME NEW w \in Writers, CollectStep(w)
      PROVE  [PoweredNext]_storeVars
  <2>1. CASE NotDownloaded(w) \/ Commit(w) \/ CommitReplayed(w)
    BY <2>1 DEF NotDownloaded, Commit, CommitReplayed, Committed
  <2>2. CASE StoreWork(w) \/ Fail(w)
    BY <2>2 DEF StoreWork, Fail, StoreStep, PoweredNext
  <2>3. CASE Touch(w)
    BY <2>3 DEF Touch, PoweredNext
  <2>4. CASE CommitConflict(w)
    BY <2>4 DEF CommitConflict, Committing, Release, PoweredNext
  <2>5. CASE Attach(w) \/ AttachDone(w)
    <3>1. <<doc[w], NextVersion(w)>> \in Refs
      BY <2>5, RefsAssumption
         DEF CollectionInvariant, CollectorKnows, Attach, AttachDone, Versions
    <3> QED
      BY <2>5, <3>1 DEF Attach, AttachDone, StoreStep, PoweredNext
  <2> QED
    BY <1>3, <2>1, <2>2, <2>3, <2>4, <2>5 DEF CollectStep
<1>4. CASE ForeignCleanup \/ ProcessCrash
  BY <1>4 DEF ProcessCrash, StoreFault, PoweredNext
<1>5. CASE PowerCut
  BY <1>5
<1>6. CASE Checkpoint \/ UNCHANGED vars
  BY <1>6 DEF Checkpoint, vars
<1> QED
  BY <1>1, <1>2, <1>3, <1>4, <1>5, <1>6 DEF CollectionNext

(* Hence a step of the content store, powered or not. *)
LEMMA CollectionStepIsStoreStep ==
  ASSUME CollectionInvariant, [CollectionNext]_vars
  PROVE  [Next]_storeVars
BY CollectionStepIsPowered DEF PowerCut, Next

(* It preserves the invariant of the store and keeps durable bytes. *)
LEMMA CollectionStepKeepsStore ==
  ASSUME CollectionInvariant, [CollectionNext]_vars
  PROVE  /\ StoreInvariant'
         /\ \A h \in Hashes : Durable(h) => Durable(h)'
<1>1. StoreInvariant /\ [Next]_storeVars
  BY CollectionStepIsStoreStep DEF CollectionInvariant
<1> QED
  BY <1>1, NextKeepsInvariant, NextKeepsDurable

(* The transaction E10 turns a sound index into a sound one: the version it
   writes is the one after the last, and its content was stored before. *)
LEMMA CommitIsSound ==
  ASSUME CollectionInvariant, NEW w \in Writers, Commit(w)
  PROVE  /\ SoundIndex(index')
         /\ index.current[doc[w]] = known[w]
         /\ index'.current[doc[w]] = known[w] + 1
         /\ \A d \in Docs : index.current[d] <= index'.current[d]
<1> DEFINE D == doc[w]
           N == NextVersion(w)
           H == hash[w]
<1>1. /\ D \in Docs
      /\ N \in Versions
      /\ N = known[w] + 1
      /\ H \in Hashes
      /\ Durable(H)
      /\ SoundIndex(index)
      /\ MaxVersion \in Nat
  BY MaxVersionAssumption
     DEF CollectionInvariant, Commit, Committing, CollectorKnows, StoreInvariant, StoredIsDurable,
         WriterKnows, NextVersion
<1>2. /\ index.rows \in [Docs -> [Versions -> Hashes \cup {NoHash}]]
      /\ index.current \in [Docs -> 0 .. MaxVersion]
      /\ index.objects \in SUBSET Hashes
      /\ known[w] \in Nat
  BY <1>1 DEF SoundIndex, Index, CollectionInvariant, CollectionTypeOK
<1>3. index' = [rows    |-> [index.rows EXCEPT ![D] = [@ EXCEPT ![N] = H]],
                current |-> [index.current EXCEPT ![D] = N],
                objects |-> index.objects \cup {H}]
  BY <1>1 DEF Commit, SoundIndex, Index
<1>4. index.current[D] = known[w]
  <2>1. index.rows[D][N] = NoHash /\ known[w] <= index.current[D]
    BY <1>1 DEF Commit, CollectorKnows, CollectionInvariant, Committing
  <2>2. ~ (N <= index.current[D])
    BY <1>1, <2>1 DEF SoundIndex
  <2>3. index.current[D] \in Nat /\ N = known[w] + 1
    BY <1>1, <1>2
  <2> HIDE DEF D, N
  <2> QED
    BY <1>2, <2>1, <2>2, <2>3
<1>5. H # NoHash
  BY <1>1, NoHashAssumption
<1> HIDE DEF D, N, H
<1>6. index' \in Index
  BY <1>1, <1>2, <1>3 DEF Index, Versions
<1>7. ASSUME NEW d \in Docs, NEW v \in Versions
      PROVE  /\ index'.rows[d][v] # NoHash <=> v <= index'.current[d]
             /\ index'.rows[d][v] # NoHash => index'.rows[d][v] \in index'.objects
             /\ index'.rows[d][v] # NoHash => Durable(index'.rows[d][v])
  BY <1>1, <1>2, <1>3, <1>4, <1>5, <1>7 DEF SoundIndex, Versions
<1> QED
  BY <1>1, <1>2, <1>3, <1>4, <1>6, <1>7 DEF SoundIndex, D

(* Synchronised or not, an index that was sound stays so: its contents stay. *)
LEMMA SoundIndexesStaySound ==
  ASSUME CollectionInvariant, [CollectionNext]_vars, NEW i, SoundIndex(i)
  PROVE  SoundIndex(i)'
BY CollectionStepKeepsStore DEF SoundIndex, Index

(* A step of one collection preserves the invariant of the index. *)
LEMMA CollectStepKeepsInvariant ==
  ASSUME CollectionInvariant, NEW w \in Writers, CollectStep(w)
  PROVE  CollectionInvariant'
<1>1. StoreInvariant' /\ TypeOK'
  BY CollectionStepKeepsStore DEF CollectionNext, StoreInvariant
<1>2. \A i \in indexSurvivors : SoundIndex(i)'
  BY SoundIndexesStaySound DEF CollectionNext, CollectionInvariant
<1>3. CASE Commit(w)
  <2>1. /\ SoundIndex(index')
        /\ index'.current[doc[w]] = known[w] + 1
        /\ \A d \in Docs : index.current[d] <= index'.current[d]
    BY <1>3, CommitIsSound
  <2>2. /\ phase' = [phase EXCEPT ![w] = "committed"]
        /\ indexSurvivors' = indexSurvivors \cup {index'}
        /\ UNCHANGED <<storeVars, doc, known>>
        /\ phase[w] = "fetching" /\ NextVersion(w) \in Versions
    BY <1>3 DEF Commit, Committing, Committed
  <2>3. \A i \in indexSurvivors' : SoundIndex(i)'
    <3>1. SUFFICES ASSUME NEW i \in indexSurvivors'
                   PROVE  SoundIndex(i)'
      OBVIOUS
    <3>2. SoundIndex(i)
      BY <2>1, <2>2 DEF CollectionInvariant
    <3> QED
      BY <3>2, SoundIndexesStaySound DEF CollectionNext
  <2>4. CollectionTypeOK'
    BY <1>1, <2>1, <2>2 DEF CollectionInvariant, CollectionTypeOK, SoundIndex
  <2>5. CollectorKnows'
    <3>1. /\ index.current \in [Docs -> 0 .. MaxVersion]
          /\ index'.current \in [Docs -> 0 .. MaxVersion]
          /\ \A x \in Writers : known[x] \in Nat
          /\ MaxVersion \in Nat
      BY <2>1, MaxVersionAssumption
         DEF CollectionInvariant, CollectionTypeOK, SoundIndex, Index
    <3>2. CollectorKnows
      BY DEF CollectionInvariant
    <3>3. \A x \in Writers : phase'[x] # "rest" =>
            doc'[x] \in Docs /\ known'[x] <= index'.current[doc'[x]]
      <4>1. phase \in [Writers -> {"rest", "fetching", "committed"}]
        BY DEF CollectionInvariant, CollectionTypeOK
      <4>2. \A x \in Writers : phase'[x] # "rest" =>
              doc[x] \in Docs /\ known[x] <= index.current[doc[x]]
        BY <2>2, <3>2, <4>1 DEF CollectorKnows
      <4> QED
        BY <2>1, <2>2, <3>1, <4>2
    <3>4. \A x \in Writers : phase'[x] = "committed" => NextVersion(x)' \in Versions
      BY <2>2, <3>2 DEF CollectorKnows, NextVersion, CollectionInvariant, CollectionTypeOK
    <3> QED
      BY <3>3, <3>4 DEF CollectorKnows
  <2> QED
    BY <1>1, <2>2, <2>3, <2>4, <2>5 DEF CollectionInvariant
<1>4. CASE CommitReplayed(w)
  <2>1. /\ phase' = [phase EXCEPT ![w] = "committed"]
        /\ UNCHANGED <<storeVars, indexVars, doc, known>>
        /\ phase[w] = "fetching" /\ NextVersion(w) \in Versions
    BY <1>4 DEF CommitReplayed, Committing, Committed
  <2> QED
    BY <1>1, <1>2, <2>1
       DEF CollectionInvariant, CollectionTypeOK, CollectorKnows, indexVars, NextVersion
<1>5. CASE UNCHANGED collectVars /\ UNCHANGED indexVars
  BY <1>1, <1>2, <1>5
     DEF CollectionInvariant, CollectionTypeOK, CollectorKnows, collectVars, indexVars, NextVersion
<1>6. CASE Rest(w) /\ UNCHANGED indexVars
  BY <1>1, <1>2, <1>6, MaxVersionAssumption
     DEF CollectionInvariant, CollectionTypeOK, CollectorKnows, Rest, indexVars, NextVersion
<1> QED
  BY <1>3, <1>4, <1>5, <1>6
     DEF CollectStep, NotDownloaded, StoreWork, Touch, CommitConflict, Attach, AttachDone, Fail

(* Discovery reads the current version; a download changes nothing it knows. *)
LEMMA DiscoveryKeepsInvariant ==
  ASSUME CollectionInvariant, NEW w \in Writers,
         \/ \E d \in Docs : Discover(w, d)
         \/ \E h \in Hashes : Download(w, h)
  PROVE  CollectionInvariant'
<1>1. StoreInvariant' /\ TypeOK' /\ \A i \in indexSurvivors : SoundIndex(i)'
  BY CollectionStepKeepsStore, SoundIndexesStaySound
     DEF CollectionNext, StoreInvariant, CollectionInvariant
<1>2. CASE \E d \in Docs : Discover(w, d)
  <2>1. PICK d \in Docs : Discover(w, d)
    BY <1>2
  <2>2. index.current[d] \in 0 .. MaxVersion /\ MaxVersion \in Nat
    BY MaxVersionAssumption DEF CollectionInvariant, CollectionTypeOK, Index
  <2> QED
    BY <1>1, <2>1, <2>2
       DEF CollectionInvariant, CollectionTypeOK, CollectorKnows, Discover, indexVars, NextVersion
<1>3. CASE \E h \in Hashes : Download(w, h)
  BY <1>1, <1>3
     DEF CollectionInvariant, CollectionTypeOK, CollectorKnows, Download,
         indexVars, collectVars, NextVersion
<1> QED
  BY <1>2, <1>3

(* A fault ends every collection and leaves one of the indexes that are sound. *)
LEMMA FaultKeepsInvariant ==
  ASSUME CollectionInvariant,
         \/ ForeignCleanup /\ UNCHANGED <<indexVars, collectVars>>
         \/ ProcessCrash
         \/ PowerCut
         \/ Checkpoint
         \/ UNCHANGED vars
  PROVE  CollectionInvariant'
<1>1. StoreInvariant' /\ TypeOK' /\ \A i \in indexSurvivors : SoundIndex(i)'
  BY CollectionStepKeepsStore, SoundIndexesStaySound
     DEF CollectionNext, StoreInvariant, CollectionInvariant
<1>2. CASE ForeignCleanup /\ UNCHANGED <<indexVars, collectVars>>
  BY <1>1, <1>2
     DEF CollectionInvariant, CollectionTypeOK, CollectorKnows, indexVars, collectVars, NextVersion
<1>3. CASE ProcessCrash
  BY <1>1, <1>3, MaxVersionAssumption
     DEF CollectionInvariant, CollectionTypeOK, CollectorKnows, ProcessCrash, RestAll, indexVars
<1>4. CASE PowerCut
  <2>1. RestAll /\ index' \in indexSurvivors /\ indexSurvivors' = {index'}
    BY <1>4 DEF PowerCut
  <2>2. index' \in Index
    BY <2>1 DEF CollectionInvariant, CollectionTypeOK
  <2> QED
    BY <1>1, <2>1, <2>2, MaxVersionAssumption
       DEF CollectionInvariant, CollectionTypeOK, CollectorKnows, RestAll
<1>5. CASE Checkpoint
  BY <1>1, <1>5
     DEF CollectionInvariant, CollectionTypeOK, CollectorKnows, Checkpoint, collectVars, NextVersion
<1>6. CASE UNCHANGED vars
  BY <1>1, <1>6
     DEF CollectionInvariant, CollectionTypeOK, CollectorKnows, vars, collectVars, indexVars,
         NextVersion
<1> QED
  BY <1>2, <1>3, <1>4, <1>5, <1>6

(* An empty index beside an empty store is sound. *)
LEMMA InitialCollectionInvariant == CollectionInit => CollectionInvariant
<1> SUFFICES ASSUME CollectionInit PROVE CollectionInvariant
  OBVIOUS
<1>1. StoreInvariant
  BY InitialInvariant DEF CollectionInit
<1>2. EmptyIndex \in Index /\ SoundIndex(EmptyIndex)
  BY MaxVersionAssumption DEF EmptyIndex, SoundIndex, Index, Versions
<1> QED
  BY <1>1, <1>2, MaxVersionAssumption
     DEF CollectionInit, CollectionInvariant, CollectionTypeOK, CollectorKnows, StoreInvariant

(* The invariant of the collection holds through every interleaving of the
   collections, every crash and every power loss. *)
THEOREM CollectionIsInvariant == CollectionSpec => []CollectionInvariant
<1>1. CollectionInvariant /\ [CollectionNext]_vars => CollectionInvariant'
  BY CollectStepKeepsInvariant, DiscoveryKeepsInvariant, FaultKeepsInvariant
     DEF CollectionNext
<1> QED
  BY InitialCollectionInvariant, <1>1, PTL DEF CollectionSpec

(* Type correctness of the collection. *)
THEOREM CollectionTypes == CollectionSpec => []CollectionTypeOK
BY CollectionIsInvariant, PTL DEF CollectionInvariant

(* The collection drives the content store as a client of its protocol: seen
   through the directories, every behaviour of it is one of ContentStore. *)
THEOREM CollectionRunsStore == CollectionSpec => Spec
<1>1. CollectionInvariant /\ [CollectionNext]_vars => [Next]_storeVars
  BY CollectionStepIsStoreStep
<1>2. CollectionInit => Init
  BY DEF CollectionInit
<1> QED
  BY CollectionIsInvariant, <1>1, <1>2, PTL DEF CollectionSpec, Spec

(* I-2, for any number of collections, documents and contents: no sequence of
   steps, crashes and power losses makes the index cite missing bytes. *)
THEOREM IndexedAlwaysHasBytes == CollectionSpec => []IndexedHasBytes
<1>1. CollectionInvariant => IndexedHasBytes
  BY DEF CollectionInvariant, SoundIndex, IndexedHasBytes
<1> QED
  BY CollectionIsInvariant, <1>1, PTL

(* The versions of a document are numbered without a gap up to the current one,
   whatever collections of that document race and whatever commits are lost. *)
THEOREM IndexAlwaysConsistent == CollectionSpec => []IndexConsistent
<1>1. CollectionInvariant => IndexConsistent
  BY DEF CollectionInvariant, SoundIndex, IndexConsistent
<1> QED
  BY CollectionIsInvariant, <1>1, PTL

-----------------------------------------------------------------------------
(* The refinement of Archive. *)

(* What a transaction leaves of the other rows and documents. *)
LEMMA CommitAddsOneRow ==
  ASSUME CollectionInvariant, NEW w \in Writers, Commit(w)
  PROVE  /\ index'.rows[doc[w]][known[w] + 1] = hash[w]
         /\ \A d \in Docs : d # doc[w] => index'.current[d] = index.current[d]
         /\ \A d \in Docs, v \in Versions :
              <<d, v>> # <<doc[w], known[w] + 1>> => index'.rows[d][v] = index.rows[d][v]
<1>1. doc[w] \in Docs /\ NextVersion(w) \in Versions /\ index \in Index
  BY DEF CollectionInvariant, CollectionTypeOK, Commit, Committing, CollectorKnows
<1>2. index' = [rows    |-> [index.rows EXCEPT ![doc[w]] =
                              [@ EXCEPT ![NextVersion(w)] = hash[w]]],
                current |-> [index.current EXCEPT ![doc[w]] = NextVersion(w)],
                objects |-> index.objects \cup {hash[w]}]
  BY <1>1 DEF Commit, Index
<1> QED
  BY <1>1, <1>2 DEF Index, NextVersion

(* No step brings back bytes that the directories had lost. *)
LEMMA StepKeepsBytesOnlyCome ==
  ASSUME StoreInvariant, [Next]_storeVars, BytesOnlyCome
  PROVE  BytesOnlyCome'
<1>1. TypeOK
  BY DEF StoreInvariant
<1>2. CASE \E h \in Hashes : Sync(h)
  BY <1>1, <1>2 DEF BytesOnlyCome, Sync, TypeOK
<1>3. CASE \E h \in Hashes, d \in Directory : d.bytes = "whole" /\ SetDirectory(h, d)
  BY <1>1, <1>3 DEF BytesOnlyCome, SetDirectory, TypeOK
<1>4. CASE PowerLoss
  BY <1>4 DEF BytesOnlyCome, PowerLoss
<1> QED
  BY <1>2, <1>3, <1>4, StepOfDirectories DEF BytesOnlyCome, Next

(* No step but a transaction changes an index, and a transaction adds a version
   after the last: each index that may come back is a beginning of it. *)
LEMMA StepKeepsHistoriesOnlyGrow ==
  ASSUME CollectionInvariant, [CollectionNext]_vars, HistoriesOnlyGrow
  PROVE  HistoriesOnlyGrow'
<1>1. CASE \E w \in Writers : Commit(w)
  <2>1. PICK w \in Writers : Commit(w)
    BY <1>1
  <2>2. /\ indexSurvivors' = indexSurvivors \cup {index'}
        /\ NextVersion(w) \in Versions
    BY <2>1 DEF Commit, Committing
  <2>3. index'.current \in [Docs -> 0 .. MaxVersion] /\ MaxVersion \in Nat
    BY <2>1, CommitIsSound, MaxVersionAssumption DEF SoundIndex, Index
  <2>4. ASSUME NEW i \in indexSurvivors, NEW d \in Docs
        PROVE  /\ i.current[d] <= index'.current[d]
               /\ \A v \in 1 .. i.current[d] : i.rows[d][v] = index'.rows[d][v]
    <3>1. /\ i.current[d] \in 0 .. MaxVersion
          /\ index.current[d] \in 0 .. MaxVersion
          /\ known[w] \in Nat
      BY <2>1 DEF CollectionInvariant, CollectionTypeOK, SoundIndex, Index
    <3>2. /\ index.current[doc[w]] = known[w]
          /\ index.current[d] <= index'.current[d]
          /\ \A v \in Versions :
               <<d, v>> # <<doc[w], known[w] + 1>> => index'.rows[d][v] = index.rows[d][v]
      BY <2>1, CommitIsSound, CommitAddsOneRow
    <3>3. \A v \in 1 .. i.current[d] :
            v \in Versions /\ <<d, v>> # <<doc[w], known[w] + 1>>
      BY <2>3, <3>1, <3>2 DEF HistoriesOnlyGrow, Versions
    <3> QED
      BY <2>3, <3>1, <3>2, <3>3 DEF HistoriesOnlyGrow
  <2> QED
    BY <2>2, <2>3, <2>4 DEF HistoriesOnlyGrow
<1>2. CASE UNCHANGED index /\ indexSurvivors' \subseteq indexSurvivors
  BY <1>2 DEF HistoriesOnlyGrow
<1>3. CASE indexSurvivors' = {index'}
  <2>1. index' \in Index
    BY CollectStepKeepsInvariant, DiscoveryKeepsInvariant, FaultKeepsInvariant
       DEF CollectionNext, CollectionInvariant, CollectionTypeOK
  <2> QED
    BY <1>3, <2>1 DEF HistoriesOnlyGrow, Index
<1> QED
  BY <1>1, <1>2, <1>3
     DEF CollectionNext, CollectStep, Discover, Download, NotDownloaded, StoreWork, Touch,
         CommitReplayed, CommitConflict, Attach, AttachDone, Fail, ProcessCrash, PowerCut,
         Checkpoint, Committed, vars, indexVars

(* What a sound index shows of a document. *)
LEMMA HistoryTypes ==
  ASSUME NEW i, SoundIndex(i), NEW d \in Docs
  PROVE  /\ [v \in 1 .. i.current[d] |-> i.rows[d][v]] \in Seq(Hashes)
         /\ Len([v \in 1 .. i.current[d] |-> i.rows[d][v]]) = i.current[d]
<1>1. /\ i.current[d] \in 0 .. MaxVersion
      /\ MaxVersion \in Nat
      /\ i.rows[d] \in [Versions -> Hashes \cup {NoHash}]
  BY MaxVersionAssumption DEF SoundIndex, Index
<1>2. \A v \in 1 .. i.current[d] : v \in Versions /\ i.rows[d][v] \in Hashes
  BY <1>1 DEF SoundIndex, Versions
<1> QED
  BY <1>1, <1>2

(* A history with one more version is that history and the version. *)
LEMMA HistoryAppends ==
  ASSUME NEW n \in Nat, NEW f, NEW g, NEW h \in Hashes,
         \A v \in 1 .. n : f[v] \in Hashes /\ g[v] = f[v],
         g[n + 1] = h
  PROVE  [v \in 1 .. n + 1 |-> g[v]] = Append([v \in 1 .. n |-> f[v]], h)
<1> DEFINE past == [v \in 1 .. n |-> f[v]]
           next == [v \in 1 .. n + 1 |-> g[v]]
<1>1. past \in Seq(Hashes) /\ Len(past) = n
  OBVIOUS
<1>2. next \in Seq(Hashes) /\ Len(next) = n + 1
  <2>1. \A v \in 1 .. n + 1 : v = n + 1 \/ v \in 1 .. n
    OBVIOUS
  <2>2. \A v \in 1 .. n + 1 : g[v] \in Hashes
    BY <2>1
  <2> QED
    BY <2>2
<1>3. \A v \in 1 .. n + 1 : next[v] = IF v = n + 1 THEN h ELSE past[v]
  OBVIOUS
<1> HIDE DEF past, next
<1>4. /\ Append(past, h) \in Seq(Hashes)
      /\ Len(Append(past, h)) = n + 1
      /\ \A v \in 1 .. n + 1 : Append(past, h)[v] = IF v = n + 1 THEN h ELSE past[v]
  BY <1>1, AppendProperties
<1>5. next = Append(past, h)
  BY <1>2, <1>3, <1>4, SeqEqual
<1> QED
  BY <1>5 DEF past, next

(* E10 publishes a version of the archive: its content is held, and it differs
   from the current one, for the collection that commits knows the current one. *)
LEMMA CommitPublishes ==
  ASSUME CollectionInvariant, NEW w \in Writers, Commit(w)
  PROVE  A!Publish(doc[w], hash[w])
<1> DEFINE D == doc[w]
           N == known[w]
           H == hash[w]
           past(d) == [v \in 1 .. index.current[d] |-> index.rows[d][v]]
           next(d) == [v \in 1 .. index'.current[d] |-> index'.rows[d][v]]
<1>1. /\ D \in Docs
      /\ N \in Nat
      /\ H \in Hashes
      /\ stage[w] = "stored"
  BY MaxVersionAssumption
     DEF CollectionInvariant, CollectionTypeOK, CollectorKnows, StoreInvariant, WriterKnows,
         Commit, Committing
<1>2. dir[H].bytes = "whole" /\ UNCHANGED dir
  BY <1>1
     DEF CollectionInvariant, StoreInvariant, StoredIsDurable, SurvivorsAreSound, Durable,
         Commit, Committed, storeVars
<1>3. SoundIndex(index) /\ SoundIndex(index')
  BY CommitIsSound DEF CollectionInvariant
<1>4. /\ index.current[D] = N
      /\ index'.current[D] = N + 1
      /\ index'.rows[D][N + 1] = H
      /\ \A d \in Docs : d # D => index'.current[d] = index.current[d]
      /\ \A d \in Docs, v \in Versions :
           <<d, v>> # <<D, N + 1>> => index'.rows[d][v] = index.rows[d][v]
  BY CommitIsSound, CommitAddsOneRow
<1>5. N = 0 \/ index.rows[D][N] # H
  BY DEF Commit, Committing, KnownHash
<1>6. ASSUME NEW d \in Docs
      PROVE  /\ past(d) \in Seq(Hashes)
             /\ Len(past(d)) = index.current[d]
             /\ index.current[d] \in Nat
             /\ \A v \in 1 .. index.current[d] : v \in Versions /\ index.rows[d][v] \in Hashes
  <2>1. /\ index.current[d] \in 0 .. MaxVersion /\ MaxVersion \in Nat
        /\ index.rows[d] \in [Versions -> Hashes \cup {NoHash}]
    BY <1>3, MaxVersionAssumption DEF SoundIndex, Index
  <2>2. \A v \in 1 .. index.current[d] : v \in Versions /\ index.rows[d][v] \in Hashes
    BY <1>3, <2>1 DEF SoundIndex, Versions
  <2> QED
    BY <1>3, <2>1, <2>2, HistoryTypes
<1>7. ASSUME NEW d \in Docs, d # D
      PROVE  next(d) = past(d)
  <2>1. index'.current[d] = index.current[d]
    BY <1>4, <1>7
  <2>2. \A v \in 1 .. index.current[d] : index'.rows[d][v] = index.rows[d][v]
    BY <1>4, <1>6, <1>7
  <2> QED
    BY <2>1, <2>2
<1>8. next(D) = Append(past(D), H)
  <2>1. \A v \in 1 .. N : index.rows[D][v] \in Hashes /\ index'.rows[D][v] = index.rows[D][v]
    <3>1. \A v \in 1 .. N : v \in Versions /\ v # N + 1 /\ index.rows[D][v] \in Hashes
      <4>1. \A v \in 1 .. index.current[D] : v \in Versions /\ index.rows[D][v] \in Hashes
        BY <1>1, <1>6
      <4> HIDE DEF D, N
      <4> QED
        BY <1>1, <1>4, <4>1
    <3> QED
      BY <1>1, <1>4, <3>1
  <2>2. [v \in 1 .. N + 1 |-> index'.rows[D][v]]
          = Append([v \in 1 .. N |-> index.rows[D][v]], H)
    <3> HIDE DEF D, N, H
    <3> QED
      BY <1>1, <1>4, <2>1, HistoryAppends
  <2> QED
    BY <1>4, <2>2
<1>9. past(D) = << >> \/ past(D)[Len(past(D))] # H
  <2>1. Len(past(D)) = N /\ past(D) \in Seq(Hashes)
    BY <1>1, <1>4, <1>6
  <2>2. N # 0 => past(D)[N] = index.rows[D][N]
    BY <1>1, <1>4
  <2> HIDE DEF past, D, N, H
  <2> QED
    BY <1>1, <1>5, <2>1, <2>2, EmptySeq
<1>10. [d \in Docs |-> next(d)] = [[d \in Docs |-> past(d)] EXCEPT ![D] = Append(@, H)]
  BY <1>1, <1>7, <1>8
<1> QED
  BY <1>1, <1>2, <1>9, <1>10 DEF A!Publish

(* A step that is no power cut acquires a content or none. *)
LEMMA StoreStepAcquires ==
  ASSUME CollectionInvariant, [CollectionNext]_vars, UNCHANGED index, ~ PowerCut
  PROVE  A!Grow \/ UNCHANGED A!archiveVars
<1>1. StoreInvariant /\ TypeOK /\ [PoweredNext]_storeVars
  BY CollectionStepIsPowered DEF CollectionInvariant, StoreInvariant
<1>2. CASE UNCHANGED dir
  BY <1>2 DEF A!archiveVars
<1>3. CASE \E h \in Hashes, d \in Directory : d.bytes = "whole" /\ SetDirectory(h, d)
  <2>1. PICK h \in Hashes, d \in Directory : d.bytes = "whole" /\ SetDirectory(h, d)
    BY <1>3
  <2>2. {g \in Hashes : dir'[g].bytes = "whole"}
          = {g \in Hashes : dir[g].bytes = "whole"} \cup {h}
    BY <1>1, <2>1 DEF SetDirectory, TypeOK
  <2>3. A!Acquire(h)
    BY <2>2 DEF A!Acquire
  <2> QED
    BY <2>3 DEF A!Grow
<1> QED
  BY <1>1, <1>2, <1>3, StepOfDirectories DEF Sync

(* A power loss makes the archive forget its end. *)
LEMMA PowerCutForgets ==
  ASSUME CollectionInvariant, BytesOnlyCome, HistoriesOnlyGrow, PowerCut
  PROVE  A!Forget
<1>1. /\ \A h \in Hashes : dir'[h] \in survivors[h]
      /\ index' \in indexSurvivors
      /\ SoundIndex(index) /\ SoundIndex(index')
  BY DEF CollectionInvariant, PowerCut, PowerLoss
<1>2. {h \in Hashes : dir'[h].bytes = "whole"} \subseteq {h \in Hashes : dir[h].bytes = "whole"}
  BY <1>1 DEF BytesOnlyCome
<1>3. ASSUME NEW d \in Docs
      PROVE  /\ index'.current[d] \in 0 .. index.current[d]
             /\ [v \in 1 .. index'.current[d] |-> index'.rows[d][v]]
                  = SubSeq([v \in 1 .. index.current[d] |-> index.rows[d][v]],
                           1, index'.current[d])
  <2> DEFINE m == index'.current[d]
             n == index.current[d]
             past == [v \in 1 .. n |-> index.rows[d][v]]
             next == [v \in 1 .. m |-> index'.rows[d][v]]
  <2>1. /\ m \in Nat /\ n \in Nat /\ m <= n
        /\ \A v \in 1 .. m : index'.rows[d][v] = index.rows[d][v]
    BY <1>1, MaxVersionAssumption DEF SoundIndex, Index, HistoriesOnlyGrow
  <2>2. /\ past \in Seq(Hashes) /\ Len(past) = n
        /\ next \in Seq(Hashes) /\ Len(next) = m
    BY <1>1, HistoryTypes
  <2>3. /\ SubSeq(past, 1, m) \in Seq(Hashes)
        /\ Len(SubSeq(past, 1, m)) = m
        /\ \A v \in 1 .. m : SubSeq(past, 1, m)[v] = past[v]
    BY <2>1, <2>2
  <2>4. \A v \in 1 .. m : next[v] = past[v]
    BY <2>1
  <2>5. next = SubSeq(past, 1, m)
    <3> HIDE DEF past, next, m, n
    <3> QED
      BY <2>2, <2>3, <2>4, SeqEqual
  <2> QED
    BY <2>1, <2>5
<1>4. ASSUME NEW d \in Docs, NEW v \in 1 .. index'.current[d]
      PROVE  index'.rows[d][v] \in {h \in Hashes : dir'[h].bytes = "whole"}
  <2>1. /\ index'.current[d] \in 0 .. MaxVersion /\ MaxVersion \in Nat
        /\ index'.rows[d] \in [Versions -> Hashes \cup {NoHash}]
    BY <1>1, MaxVersionAssumption DEF SoundIndex, Index
  <2>2. v \in Versions /\ v <= index'.current[d]
    BY <2>1 DEF Versions
  <2>3. index'.rows[d][v] \in Hashes /\ Durable(index'.rows[d][v])
    BY <1>1, <2>1, <2>2 DEF SoundIndex
  <2> QED
    BY <1>1, <2>3 DEF Durable
<1>5. \A d \in Docs : Len([v \in 1 .. index.current[d] |-> index.rows[d][v]]) = index.current[d]
  BY <1>1, HistoryTypes
<1>6. \A d \in Docs : Len([v \in 1 .. index'.current[d] |-> index'.rows[d][v]]) = index'.current[d]
  BY <1>1, HistoryTypes
<1> DEFINE past == [d \in Docs |-> [v \in 1 .. index.current[d] |-> index.rows[d][v]]]
           next == [d \in Docs |-> [v \in 1 .. index'.current[d] |-> index'.rows[d][v]]]
<1>7. \A d \in Docs : \E n \in 0 .. Len(past[d]) : next[d] = SubSeq(past[d], 1, n)
  BY <1>3, <1>5
<1>8. \A d \in Docs : \A v \in 1 .. Len(next[d]) :
        next[d][v] \in {h \in Hashes : dir'[h].bytes = "whole"}
  BY <1>4, <1>6
<1> QED
  BY <1>2, <1>7, <1>8 DEF A!Forget

(* The collection implements the archive: its readers see contents acquired,
   versions of held contents published at the end of a history, and the end of
   histories forgotten by a power loss, but by nothing else. *)
THEOREM CollectionImplementsArchive == CollectionSpec => ImplementsArchive
<1> DEFINE Inv == CollectionInvariant /\ BytesOnlyCome /\ HistoriesOnlyGrow
<1>1. CollectionInit => BytesOnlyCome /\ HistoriesOnlyGrow
  <2> SUFFICES ASSUME CollectionInit PROVE BytesOnlyCome /\ HistoriesOnlyGrow
    OBVIOUS
  <2>1. index = EmptyIndex /\ indexSurvivors = {EmptyIndex}
    BY DEF CollectionInit
  <2>2. BytesOnlyCome
    BY DEF CollectionInit, Init, BytesOnlyCome, EmptyDirectory
  <2>3. \A d \in Docs : EmptyIndex.current[d] = 0
    BY DEF EmptyIndex
  <2> QED
    BY <2>1, <2>2, <2>3 DEF HistoriesOnlyGrow
<1>2. CollectionInit => A!Init
  <2> SUFFICES ASSUME CollectionInit PROVE A!Init
    OBVIOUS
  <2>1. {h \in Hashes : dir[h].bytes = "whole"} = {}
    BY DEF CollectionInit, Init, EmptyDirectory
  <2>2. \A d \in Docs : [v \in 1 .. index.current[d] |-> index.rows[d][v]] = << >>
    BY DEF CollectionInit, EmptyIndex
  <2> QED
    BY <2>1, <2>2 DEF A!Init
<1>3. Inv /\ [CollectionNext]_vars => BytesOnlyCome' /\ HistoriesOnlyGrow'
  BY CollectionStepIsStoreStep, StepKeepsBytesOnlyCome, StepKeepsHistoriesOnlyGrow
     DEF CollectionInvariant
<1>4. Inv /\ [CollectionNext]_vars
        => [A!Grow \/ A!Forget]_(A!archiveVars) /\ [A!Grow \/ PowerCut]_(A!archiveVars)
  <2> SUFFICES ASSUME Inv, [CollectionNext]_vars
               PROVE  \/ A!Grow
                      \/ A!Forget /\ PowerCut
                      \/ UNCHANGED A!archiveVars
    OBVIOUS
  <2>1. CASE \E w \in Writers : Commit(w)
    <3>1. PICK w \in Writers : Commit(w)
      BY <2>1
    <3>2. doc[w] \in Docs /\ hash[w] \in Hashes
      BY <3>1
         DEF CollectionInvariant, CollectorKnows, StoreInvariant, WriterKnows, Commit, Committing
    <3>3. A!Publish(doc[w], hash[w])
      BY <3>1, CommitPublishes
    <3>4. A!Grow
      BY <3>2, <3>3, Zenon DEF A!Grow, A!Publish
    <3> QED
      BY <3>4
  <2>2. CASE PowerCut
    BY <2>2, PowerCutForgets
  <2>3. CASE UNCHANGED index /\ ~ PowerCut
    BY <2>3, StoreStepAcquires
  <2> QED
    BY <2>1, <2>2, <2>3
       DEF CollectionNext, CollectStep, Discover, Download, NotDownloaded, StoreWork, Touch,
           CommitReplayed, CommitConflict, Attach, AttachDone, Fail, ProcessCrash,
           Checkpoint, vars, indexVars
<1> QED
  BY CollectionIsInvariant, <1>1, <1>2, <1>3, <1>4, PTL
     DEF CollectionSpec, ImplementsArchive, A!Spec

-----------------------------------------------------------------------------
(* No reference without a version. *)

(* While the machine is powered a version keeps its content. *)
LEMMA BackedStays ==
  ASSUME CollectionInvariant, [CollectionNext]_vars, ~ PowerCut,
         NEW h \in Hashes, NEW r \in Docs \X Versions, Backed(h, r)
  PROVE  Backed(h, r)'
<1>1. CASE \E w \in Writers : Commit(w)
  <2>1. PICK w \in Writers : Commit(w)
    BY <1>1
  <2>2. /\ index.rows[doc[w]][known[w] + 1] = NoHash
        /\ \A d \in Docs, v \in Versions :
             <<d, v>> # <<doc[w], known[w] + 1>> => index'.rows[d][v] = index.rows[d][v]
    BY <2>1, CommitAddsOneRow DEF Commit, NextVersion
  <2>3. r[1] \in Docs /\ r[2] \in Versions
    OBVIOUS
  <2> QED
    BY <2>2, <2>3, NoHashAssumption DEF Backed
<1>2. CASE UNCHANGED index
  BY <1>2 DEF Backed
<1> QED
  BY <1>1, <1>2
     DEF CollectionNext, CollectStep, Discover, Download, NotDownloaded, StoreWork, Touch,
         CommitReplayed, CommitConflict, Attach, AttachDone, Fail, ProcessCrash, Checkpoint,
         vars, indexVars

(* The references of a directory come from a copy, or were there. *)
LEMMA StepKeepsReferencesAreVersions ==
  ASSUME CollectionInvariant, [CollectionNext]_vars, ReferencesAreVersions
  PROVE  ReferencesAreVersions'
<1> USE DEF CollectionInvariant, StoreInvariant
<1>1. /\ \A h \in Hashes : dir[h] \in survivors[h] /\ dir[h] \in Directory
      /\ TypeOK
  BY DEF TypeOK, SurvivorsAreSound
<1>2. ASSUME NEW w \in Writers, Rename(w)
      PROVE  ReferencesAreVersions'
  <2>1. hash[w] \in Hashes /\ [dir[hash[w]] EXCEPT !.bytes = "whole"].desc = dir[hash[w]].desc
    BY <1>1, <1>2, Rebyted DEF WriterKnows, Rename
  <2>2. part[w] = "synced"
    BY <1>1, <1>2 DEF Rename, PartIsSynced, TypeOK
  <2> QED
    BY <1>1, <1>2, <2>1, <2>2 DEF ReferencesAreVersions, Rename, TypeOK
<1>3. ASSUME NEW w \in Writers, UpsertWrite(w) \/ AttachWrite(w)
      PROVE  ReferencesAreVersions'
  <2> DEFINE h == hash[w]
             d == [dir[h] EXCEPT !.desc = copy[w]]
  <2>1. h \in Hashes /\ d.desc = copy[w]
    BY <1>1, <1>3, Redescribed DEF WriterKnows, UpsertWrite, AttachWrite, TypeOK
  <2>2. survivors' = [survivors EXCEPT ![h] = @ \cup {d}] /\ copy' = copy
    BY <1>3 DEF UpsertWrite, AttachWrite, SetDirectory
  <2> HIDE DEF h, d
  <2> QED
    BY <1>1, <2>1, <2>2 DEF ReferencesAreVersions, TypeOK
<1>4. ASSUME NEW w \in Writers, SyncObject(w) \/ SyncDescriptor(w) \/ SyncAttach(w)
      PROVE  ReferencesAreVersions'
  <2>1. hash[w] \in Hashes
    BY <1>4 DEF WriterKnows, SyncObject, SyncDescriptor, SyncAttach
  <2>2. /\ survivors' = [survivors EXCEPT ![hash[w]] = {dir[hash[w]]}]
        /\ copy' = copy \/ copy' = [copy EXCEPT ![w] = NoDescriptor]
    BY <1>4 DEF SyncObject, SyncDescriptor, SyncAttach, Sync, Leave
  <2> QED
    BY <1>1, <2>1, <2>2 DEF ReferencesAreVersions, TypeOK, NoDescriptor
<1>5. ASSUME NEW w \in Writers, UpsertRead(w)
      PROVE  ReferencesAreVersions'
  <2>1. hash[w] \in Hashes
    BY <1>5 DEF WriterKnows, UpsertRead
  <2> QED
    BY <1>1, <1>5, <2>1 DEF ReferencesAreVersions, UpsertRead, Live, TypeOK
<1>6. ASSUME NEW w \in Writers, Attach(w)
      PROVE  ReferencesAreVersions'
  <2>1. /\ hash[w] \in Hashes
        /\ <<doc[w], NextVersion(w)>> \in Docs \X Versions
    BY <1>6 DEF WriterKnows, CollectorKnows, Attach, AttachRead
  <2> QED
    BY <1>1, <1>6, <2>1 DEF ReferencesAreVersions, Attach, AttachRead, Live, TypeOK
<1>7. ASSUME NEW w \in Writers, Leave(w), UNCHANGED <<dir, survivors>>
      PROVE  ReferencesAreVersions'
  BY <1>1, <1>7 DEF ReferencesAreVersions, Leave, NoDescriptor, TypeOK
<1>8. CASE PowerCut
  BY <1>8 DEF ReferencesAreVersions, PowerCut, PowerLoss, Restart, NoDescriptor
<1>9. CASE ProcessCrash
  BY <1>9 DEF ReferencesAreVersions, ProcessCrash, Crash, Restart, NoDescriptor
<1>10. CASE UNCHANGED <<survivors, copy>>
  BY <1>10 DEF ReferencesAreVersions
<1>11. ASSUME NEW w \in Writers, CollectStep(w)
       PROVE  ReferencesAreVersions'
  BY <1>2, <1>3, <1>4, <1>5, <1>6, <1>7, <1>10, <1>11
     DEF CollectStep, NotDownloaded, StoreWork, WriteBody, SyncPart, Deduplicate, NotLocated,
         Touch, Release, Commit, CommitReplayed, Committed, CommitConflict, AttachDone,
         AttachNothing, Fail, Abort, IoError, storeVars
<1> QED
  BY <1>8, <1>9, <1>10, <1>11
     DEF CollectionNext, Discover, Download, Begin, ForeignCleanup, Checkpoint, vars, storeVars

(* A collection touches nothing of the others but the directories they share. *)
LEMMA StepOfOthers ==
  ASSUME CollectionInvariant, NEW w \in Writers, NEW x \in Writers, x # w,
         \/ CollectStep(w)
         \/ \E d \in Docs : Discover(w, d)
         \/ \E h \in Hashes : Download(w, h)
  PROVE  /\ stage'[x] = stage[x] /\ hash'[x] = hash[x] /\ copy'[x] = copy[x]
         /\ phase'[x] = phase[x] /\ doc'[x] = doc[x] /\ known'[x] = known[x]
<1>1. /\ stage \in [Writers -> Stages]
      /\ hash \in [Writers -> Hashes \cup {NoHash}]
      /\ copy \in [Writers -> Descriptor]
      /\ phase \in [Writers -> {"rest", "fetching", "committed"}]
      /\ doc \in [Writers -> Docs \cup {NoDoc}]
      /\ known \in [Writers -> 0 .. MaxVersion]
  BY DEF CollectionInvariant, CollectionTypeOK, StoreInvariant, TypeOK
<1> DEFINE Same == /\ stage'[x] = stage[x] /\ hash'[x] = hash[x] /\ copy'[x] = copy[x]
                   /\ phase'[x] = phase[x] /\ doc'[x] = doc[x] /\ known'[x] = known[x]
<1>2. CASE \/ \E d \in Docs : Discover(w, d)
           \/ \E h \in Hashes : Download(w, h)
           \/ NotDownloaded(w)
  BY <1>1, <1>2 DEF Discover, Download, Begin, NotDownloaded, Rest, Goto, storeVars, collectVars
<1>3. CASE StoreWork(w)
  BY <1>1, <1>3
     DEF StoreWork, WriteBody, SyncPart, Deduplicate, NotLocated, Rename, SyncObject, UpsertRead,
         UpsertWrite, SyncDescriptor, AttachWrite, Goto, collectVars
<1>4. CASE Commit(w) \/ CommitReplayed(w)
  BY <1>1, <1>4 DEF Commit, CommitReplayed, Committed, storeVars
<1>5. CASE Leave(w) /\ (Rest(w) \/ UNCHANGED collectVars)
  BY <1>1, <1>5 DEF Leave, Rest, Goto, collectVars
<1>6. CASE Attach(w)
  BY <1>1, <1>6 DEF Attach, AttachRead, Goto, collectVars
<1> QED
  BY <1>2, <1>3, <1>4, <1>5, <1>6
     DEF CollectStep, Touch, Release, CommitConflict, AttachDone, AttachNothing, SyncAttach,
         Fail, Abort, IoError

(* A collection attaches a reference to a version it committed, and ends when it
   is done. *)
LEMMA StepKeepsCommittedBeforeAttached ==
  ASSUME CollectionInvariant, [CollectionNext]_vars, CommittedBeforeAttached
  PROVE  CommittedBeforeAttached'
<1>1. /\ stage \in [Writers -> Stages] /\ hash \in [Writers -> Hashes \cup {NoHash}]
      /\ phase \in [Writers -> {"rest", "fetching", "committed"}]
      /\ doc \in [Writers -> Docs \cup {NoDoc}]
      /\ known \in [Writers -> 0 .. MaxVersion]
  BY DEF CollectionInvariant, CollectionTypeOK, StoreInvariant, TypeOK
<1>2. CASE PowerCut \/ ProcessCrash
  BY <1>2
     DEF CommittedBeforeAttached, PowerCut, PowerLoss, ProcessCrash, Crash, Restart, RestAll
<1>3. ASSUME NEW x \in Writers, ~ PowerCut, phase[x] = "committed",
             hash'[x] = hash[x], doc'[x] = doc[x], known'[x] = known[x]
      PROVE  Backed(hash[x], <<doc[x], NextVersion(x)>>)'
  <2>1. /\ hash[x] \in Hashes /\ doc[x] \in Docs /\ NextVersion(x) \in Versions
        /\ Backed(hash[x], <<doc[x], NextVersion(x)>>)
    BY <1>3
       DEF CommittedBeforeAttached, CollectionInvariant, CollectorKnows, StoreInvariant, WriterKnows
  <2>2. Backed(hash[x], <<doc[x], NextVersion(x)>>)
          => index'.rows[doc[x]][NextVersion(x)] = hash[x]
    <3>1. <<doc[x], NextVersion(x)>> \in Docs \X Versions
      BY <2>1
    <3> QED
      BY <1>3, <2>1, <3>1, BackedStays DEF Backed
  <2> QED
    BY <1>3, <2>1, <2>2 DEF Backed, NextVersion
<1> DEFINE Ordered(x) ==
             /\ stage[x] \in {"attaching", "attached"} => phase[x] = "committed"
             /\ phase[x] = "committed" =>
                  /\ stage[x] \in {"stored", "attaching", "attached"}
                  /\ Backed(hash[x], <<doc[x], NextVersion(x)>>)
<1>4. \A x \in Writers : Ordered(x)
  BY DEF CommittedBeforeAttached
<1>5. ASSUME NEW w \in Writers,
             \/ CollectStep(w)
             \/ \E d \in Docs : Discover(w, d)
             \/ \E h \in Hashes : Download(w, h),
             ~ PowerCut
      PROVE  CommittedBeforeAttached'
  <2>1. ASSUME NEW x \in Writers, x # w
        PROVE  Ordered(x)'
    <3>1. /\ stage'[x] = stage[x] /\ phase'[x] = phase[x] /\ hash'[x] = hash[x]
          /\ doc'[x] = doc[x] /\ known'[x] = known[x]
      BY <1>5, <2>1, StepOfOthers
    <3> QED
      BY <1>3, <1>4, <1>5, <3>1
  <2>2. ASSUME Commit(w)
        PROVE  Ordered(w)'
    <3>1. index'.rows[doc[w]][NextVersion(w)] = hash[w]
      BY <2>2, CommitAddsOneRow DEF NextVersion
    <3>2. phase'[w] = "committed" /\ stage' = stage /\ UNCHANGED <<hash, doc, known>>
      BY <1>1, <2>2 DEF Commit, Committed, storeVars
    <3>3. stage[w] = "stored"
      BY <2>2 DEF Commit, Committing
    <3> QED
      BY <3>1, <3>2, <3>3 DEF Backed, NextVersion
  <2>3. ASSUME CommitReplayed(w)
        PROVE  Ordered(w)'
    BY <1>1, <2>3 DEF CommitReplayed, Committing, Committed, storeVars, indexVars, Backed,
                      NextVersion
  <2>4. ASSUME Attach(w) \/ (StoreWork(w) /\ AttachWrite(w))
        PROVE  Ordered(w)'
    <3>1. /\ phase[w] = "committed" /\ phase' = phase
          /\ stage'[w] \in {"attaching", "attached"}
          /\ hash' = hash /\ doc' = doc /\ known' = known
      BY <1>1, <1>4, <2>4
         DEF Attach, AttachRead, StoreWork, AttachWrite, Goto, collectVars
    <3> QED
      BY <1>3, <1>5, <3>1
  <2>5. ASSUME stage'[w] \notin {"attaching", "attached"} /\ phase'[w] # "committed"
        PROVE  Ordered(w)'
    BY <2>5
  <2>6. ASSUME StoreWork(w) /\ ~ AttachWrite(w)
        PROVE  Ordered(w)'
    <3>1. /\ stage[w] \notin {"stored", "attaching", "attached"}
          /\ stage'[w] \notin {"attaching", "attached"}
          /\ phase' = phase
      BY <1>1, <2>6
         DEF StoreWork, WriteBody, SyncPart, Deduplicate, NotLocated, Rename, SyncObject,
             UpsertRead,
             UpsertWrite, SyncDescriptor, Goto, collectVars
    <3> QED
      BY <1>4, <2>5, <3>1
  <2>7. ASSUME \/ \E d \in Docs : Discover(w, d)
               \/ \E h \in Hashes : Download(w, h)
               \/ NotDownloaded(w)
        PROVE  Ordered(w)'
    BY <1>1, <1>4, <2>5, <2>7
       DEF Discover, Download, Begin, NotDownloaded, Rest, Goto, storeVars, collectVars
  <2>8. ASSUME Touch(w) \/ CommitConflict(w) \/ AttachDone(w)
        PROVE  Ordered(w)'
    BY <1>1, <2>5, <2>8
       DEF Touch, Release, CommitConflict, AttachDone, AttachNothing, SyncAttach, Leave, Rest, Goto
  <2>9. ASSUME Fail(w)
        PROVE  Ordered(w)'
    <3>1. Leave(w)
      BY <2>9 DEF Fail, Abort, IoError
    <3>2. stage'[w] = "idle"
      BY <1>1, <3>1 DEF Leave, Goto
    <3>3. CASE phase[w] = "fetching" /\ UNCHANGED collectVars
      BY <2>5, <3>2, <3>3 DEF collectVars
    <3>4. CASE Rest(w)
      BY <1>1, <2>5, <3>2, <3>4 DEF Rest
    <3> QED
      BY <2>9, <3>3, <3>4 DEF Fail
  <2>10. Ordered(w)'
    BY <1>5, <2>2, <2>3, <2>4, <2>6, <2>7, <2>8, <2>9 DEF CollectStep
  <2> QED
    BY <2>1, <2>10 DEF CommittedBeforeAttached
<1>6. CASE UNCHANGED <<stage, hash, phase, doc, known>> /\ ~ PowerCut
  BY <1>1, <1>3, <1>4, <1>6 DEF CommittedBeforeAttached
<1> QED
  BY <1>2, <1>5, <1>6
     DEF CollectionNext, ForeignCleanup, Checkpoint, vars, storeVars, collectVars
(* A copy is read from the descriptor, or is the descriptor and a version that was
   committed; writing it changes no other copy of that content but by what has
   its row. *)
LEMMA StepKeepsCopiesInventNothing ==
  ASSUME CollectionInvariant, [CollectionNext]_vars, ReferencesAreCommitted
  PROVE  CopiesInventNothing'
<1>1. /\ TypeOK
      /\ \A x \in Writers : stage[x] # "idle" => hash[x] \in Hashes
  BY DEF CollectionInvariant, StoreInvariant, WriterKnows
<1> DEFINE Agrees(x) ==
             stage[x] \in {"writing", "attaching"} =>
               \A r \in Docs \X Versions :
                 ~ Backed(hash[x], r) => (r \in copy[x].refs <=> r \in dir[hash[x]].desc.refs)
<1>2. \A x \in Writers : Agrees(x)
  BY DEF ReferencesAreCommitted, CopiesInventNothing
<1>3. CASE PowerCut \/ ProcessCrash
  BY <1>3 DEF CopiesInventNothing, PowerCut, PowerLoss, ProcessCrash, Crash, Restart
(* What a writer under way relies on, when its directory lists what it did. *)
<1>4. ASSUME NEW x \in Writers, ~ PowerCut,
             stage'[x] = stage[x], hash'[x] = hash[x], copy'[x] = copy[x],
             hash[x] \in Hashes =>
               \A r \in Docs \X Versions : ~ Backed(hash[x], r) =>
                 (r \in dir'[hash[x]].desc.refs <=> r \in dir[hash[x]].desc.refs)
      PROVE  Agrees(x)'
  <2> SUFFICES ASSUME stage[x] \in {"writing", "attaching"}, NEW r \in Docs \X Versions,
                      ~ Backed(hash[x], r)'
               PROVE  r \in copy'[x].refs <=> r \in dir'[hash'[x]].desc.refs
    BY <1>4 DEF Backed
  <2>1. hash[x] \in Hashes
    BY <1>1
  <2>2. ~ Backed(hash[x], r)
    <3>1. Backed(hash[x], r) => index'.rows[r[1]][r[2]] = hash[x]
      BY <1>4, <2>1, BackedStays DEF Backed
    <3> QED
      BY <1>4, <3>1 DEF Backed
  <2> QED
    BY <1>2, <1>4, <2>1, <2>2
(* A write into a directory adds to it nothing without a row. *)
<1>5. ASSUME NEW w \in Writers, UpsertWrite(w) \/ AttachWrite(w),
             NEW h \in Hashes, NEW r \in Docs \X Versions, ~ Backed(h, r)
      PROVE  r \in dir'[h].desc.refs <=> r \in dir[h].desc.refs
  <2>1. /\ hash[w] \in Hashes
        /\ [dir[hash[w]] EXCEPT !.desc = copy[w]].desc = copy[w]
        /\ stage[w] \in {"writing", "attaching"}
    BY <1>1, <1>5, Redescribed DEF UpsertWrite, AttachWrite, TypeOK
  <2>2. dir' = [dir EXCEPT ![hash[w]] = [dir[hash[w]] EXCEPT !.desc = copy[w]]]
    BY <1>5 DEF UpsertWrite, AttachWrite, SetDirectory
  <2>3. CASE h # hash[w]
    BY <1>1, <2>1, <2>2, <2>3 DEF TypeOK
  <2>4. CASE h = hash[w]
    <3>1. dir'[h].desc = copy[w]
      BY <1>1, <2>1, <2>2, <2>4 DEF TypeOK
    <3>2. r \in copy[w].refs <=> r \in dir[h].desc.refs
      BY <1>2, <1>5, <2>1, <2>4
    <3> QED
      BY <3>1, <3>2
  <2> QED
    BY <2>3, <2>4
(* No other step of a collection touches a descriptor. *)
<1>6. ASSUME NEW w \in Writers,
             \/ CollectStep(w)
             \/ \E d \in Docs : Discover(w, d)
             \/ \E h \in Hashes : Download(w, h),
             NEW h \in Hashes
      PROVE  \/ UpsertWrite(w) \/ AttachWrite(w)
             \/ dir'[h].desc = dir[h].desc
  <2>1. CASE Rename(w)
    <3>1. hash[w] \in Hashes /\ [dir[hash[w]] EXCEPT !.bytes = "whole"].desc = dir[hash[w]].desc
      BY <1>1, <2>1, Rebyted DEF Rename, TypeOK
    <3> QED
      BY <1>1, <2>1, <3>1 DEF Rename, TypeOK
  <2>2. CASE UNCHANGED dir
    BY <2>2
  <2> QED
    BY <1>6, <2>1, <2>2
       DEF CollectStep, Discover, Download, Begin, NotDownloaded, StoreWork, WriteBody, SyncPart,
           Deduplicate, NotLocated, SyncObject, UpsertRead, SyncDescriptor, Sync, Touch, Release,
           Commit, CommitReplayed, Committed, CommitConflict, Attach, AttachRead, AttachDone,
           AttachNothing, SyncAttach, Fail, Abort, IoError, storeVars
<1>7. ASSUME NEW w \in Writers,
             \/ CollectStep(w)
             \/ \E d \in Docs : Discover(w, d)
             \/ \E h \in Hashes : Download(w, h),
             ~ PowerCut
      PROVE  CopiesInventNothing'
  <2>1. \A h \in Hashes : \A r \in Docs \X Versions : ~ Backed(h, r) =>
          (r \in dir'[h].desc.refs <=> r \in dir[h].desc.refs)
    BY <1>5, <1>6, <1>7
  <2>2. ASSUME NEW x \in Writers, x # w
        PROVE  Agrees(x)'
    BY <1>4, <1>7, <2>1, <2>2, StepOfOthers
  <2>3. ASSUME UpsertRead(w)
        PROVE  Agrees(w)'
    <3>1. hash[w] \in Hashes /\ copy'[w].refs = dir[hash[w]].desc.refs
          /\ UNCHANGED <<dir, hash>>
      BY <1>1, <2>3 DEF UpsertRead, Live, TypeOK
    <3> QED
      BY <3>1
  <2>4. ASSUME Attach(w)
        PROVE  Agrees(w)'
    <3>1. /\ hash[w] \in Hashes
          /\ copy'[w].refs = dir[hash[w]].desc.refs \cup {<<doc[w], NextVersion(w)>>}
          /\ UNCHANGED <<dir, hash, index>>
      BY <1>1, <2>4 DEF Attach, AttachRead, Live, TypeOK, indexVars
    <3>2. Backed(hash[w], <<doc[w], NextVersion(w)>>)
      BY <2>4 DEF Attach, ReferencesAreCommitted, CommittedBeforeAttached
    <3> QED
      BY <3>1, <3>2 DEF Backed
  <2>5. ASSUME stage'[w] \notin {"writing", "attaching"}
        PROVE  Agrees(w)'
    BY <2>5
  <2>6. ASSUME UNCHANGED <<stage, hash, copy>>
        PROVE  Agrees(w)'
    BY <1>4, <1>7, <2>1, <2>6
  <2>7. Agrees(w)'
    <3>1. CASE StoreWork(w) /\ ~ UpsertRead(w)
      BY <1>1, <2>5, <3>1
         DEF StoreWork, WriteBody, SyncPart, Deduplicate, NotLocated, Rename, SyncObject,
             UpsertWrite, SyncDescriptor, AttachWrite, Goto, TypeOK
    <3>2. CASE Leave(w)
      BY <1>1, <2>5, <3>2 DEF Leave, Goto, TypeOK
    <3>3. CASE \E h \in Hashes : Begin(w, h)
      BY <1>1, <2>5, <3>3 DEF Begin, Goto, TypeOK
    <3> QED
      BY <1>7, <2>3, <2>4, <2>6, <3>1, <3>2, <3>3
         DEF CollectStep, Discover, Download, NotDownloaded, Touch, Release, Commit,
             CommitReplayed, Committed, CommitConflict, AttachDone, AttachNothing, SyncAttach,
             Fail, Abort, IoError, storeVars
  <2> QED
    BY <2>2, <2>7 DEF CopiesInventNothing
<1>8. CASE UNCHANGED <<dir, stage, hash, copy>> /\ ~ PowerCut
  BY <1>4, <1>8 DEF CopiesInventNothing
<1> QED
  BY <1>3, <1>7, <1>8
     DEF CollectionNext, ForeignCleanup, Checkpoint, vars, storeVars

(* No descriptor ever receives a reference to a version that the index has not
   committed with that content, however collections of one content interleave and
   whatever a power loss took from the index. *)
THEOREM NoReferenceIsInvented == CollectionSpec => NoPhantomReference
<1> DEFINE Inv == CollectionInvariant /\ ReferencesAreCommitted
           Backing == \A w \in Writers : AttachWrite(w)
             => \A r \in dir'[hash[w]].desc.refs \ dir[hash[w]].desc.refs :
                  index.rows[r[1]][r[2]] = hash[w]
<1>1. CollectionInit => ReferencesAreCommitted
  BY DEF CollectionInit, Init, ReferencesAreCommitted, ReferencesAreVersions,
         CommittedBeforeAttached, CopiesInventNothing, EmptyDirectory, NoDescriptor
<1>2. Inv /\ [CollectionNext]_vars => ReferencesAreCommitted'
  BY StepKeepsReferencesAreVersions, StepKeepsCommittedBeforeAttached,
     StepKeepsCopiesInventNothing
     DEF ReferencesAreCommitted
<1>3. Inv /\ [CollectionNext]_vars => [Backing]_vars
  <2> SUFFICES ASSUME Inv, NEW w \in Writers, AttachWrite(w),
                      NEW r \in dir'[hash[w]].desc.refs \ dir[hash[w]].desc.refs
               PROVE  Backed(hash[w], r)
    BY DEF Backed
  <2>1. /\ hash[w] \in Hashes
        /\ [dir[hash[w]] EXCEPT !.desc = copy[w]].desc = copy[w]
        /\ dir \in [Hashes -> Directory]
    BY Redescribed DEF CollectionInvariant, StoreInvariant, WriterKnows, TypeOK, AttachWrite
  <2>2. dir'[hash[w]].desc = copy[w] /\ stage[w] = "attaching"
    BY <2>1 DEF AttachWrite, SetDirectory
  <2>3. r \in copy[w].refs /\ r \in Docs \X Versions
    BY <2>2 DEF ReferencesAreCommitted, ReferencesAreVersions
  <2> QED
    BY <2>2, <2>3 DEF ReferencesAreCommitted, CopiesInventNothing
<1> QED
  BY CollectionIsInvariant, <1>1, <1>2, <1>3, PTL DEF CollectionSpec, NoPhantomReference

-----------------------------------------------------------------------------
(* Maintenance: types *)

(* Types of what a writer does, whatever the directories hold: files decay, so
   the invariant of the write protocol is not relied on here. *)
LEMMA StoreWorkTypes ==
  ASSUME TypeOK, NEW w \in Writers, stage[w] # "idle" => hash[w] \in Hashes,
         \/ StoreStep(w)
         \/ IoError(w)
         \/ Release(w)
         \/ \E r \in Refs : AttachRead(w, r) \/ AttachNothing(w, r)
  PROVE  /\ TypeOK'
         /\ stage'[w] # "idle" => hash'[w] \in Hashes
         /\ \A x \in Writers : x # w => stage'[x] = stage[x] /\ hash'[x] = hash[x]
<1> USE DEF TypeOK, Goto, Stages
<1>1. CASE WriteBody(w) \/ SyncPart(w) \/ Deduplicate(w) \/ NotLocated(w)
  BY <1>1 DEF WriteBody, SyncPart, Deduplicate, NotLocated
<1>2. CASE Rename(w)
  <2>1. /\ hash[w] \in Hashes /\ dir[hash[w]] \in Directory
        /\ [dir[hash[w]] EXCEPT !.bytes = "whole"] \in Directory
        /\ [dir[hash[w]] EXCEPT !.bytes = "torn"] \in Directory
    BY <1>2, Rebyted DEF Rename
  <2>2. survivors' \in [Hashes -> SUBSET Directory]
    BY <1>2, <2>1 DEF Rename
  <2>3. dir' \in [Hashes -> Directory]
    BY <1>2, <2>1 DEF Rename
  <2> QED
    BY <1>2, <2>1, <2>2, <2>3 DEF Rename
<1>3. CASE SyncObject(w) \/ SyncDescriptor(w)
  BY <1>3 DEF SyncObject, SyncDescriptor, Sync
<1>4. CASE UpsertRead(w)
  <2>1. Live(dir[hash[w]].desc.refs) \in Descriptor
    BY <1>4, DescriptorTypes DEF UpsertRead, Directory, Descriptor
  <2> QED
    BY <1>4, <2>1 DEF UpsertRead
<1>5. CASE UpsertWrite(w) \/ AttachWrite(w)
  <2>1. /\ hash[w] \in Hashes /\ dir[hash[w]] \in Directory
        /\ [dir[hash[w]] EXCEPT !.desc = copy[w]] \in Directory
    BY <1>5, Redescribed DEF UpsertWrite, AttachWrite
  <2> QED
    BY <1>5, <2>1 DEF UpsertWrite, AttachWrite, SetDirectory
<1>6. CASE SyncAttach(w) \/ Abort(w) \/ IoError(w) \/ Release(w)
           \/ \E r \in Refs : AttachNothing(w, r)
  BY <1>6, DescriptorTypes
     DEF SyncAttach, Abort, IoError, Release, AttachNothing, Leave, Sync
<1>7. CASE \E r \in Refs : AttachRead(w, r)
  <2>1. PICK r \in Refs : AttachRead(w, r)
    BY <1>7
  <2>2. Live(dir[hash[w]].desc.refs \cup {r}) \in Descriptor
    BY <2>1, DescriptorTypes DEF AttachRead, Directory, Descriptor
  <2> QED
    BY <2>1, <2>2 DEF AttachRead
<1> QED
  BY <1>1, <1>2, <1>3, <1>4, <1>5, <1>6, <1>7 DEF StoreStep

(* A step of a collection keeps the types and the names of what it is about. *)
LEMMA CollectStepTypes ==
  ASSUME CollectionTypeOK, WritersAreNamed, NEW w \in Writers,
         \/ CollectStep(w)
         \/ \E d \in Docs : Discover(w, d)
         \/ \E h \in Hashes : Download(w, h)
  PROVE  CollectionTypeOK' /\ WritersAreNamed'
<1> USE DEF CollectionTypeOK
<1>1. MaxVersion \in Nat /\ 0 \in 0 .. MaxVersion
  BY MaxVersionAssumption
<1>2. stage[w] # "idle" => hash[w] \in Hashes
  BY DEF WritersAreNamed
<1>3. ASSUME TypeOK',
             stage'[w] # "idle" => hash'[w] \in Hashes,
             \A x \in Writers : x # w => stage'[x] = stage[x] /\ hash'[x] = hash[x],
             UNCHANGED indexVars,
             UNCHANGED collectVars \/ Rest(w)
      PROVE  CollectionTypeOK' /\ WritersAreNamed'
  <2>1. CASE UNCHANGED collectVars
    BY <1>3, <2>1 DEF WritersAreNamed, indexVars, collectVars, NextVersion
  <2>2. CASE Rest(w)
    BY <1>1, <1>3, <2>2 DEF WritersAreNamed, indexVars, Rest, NextVersion
  <2> QED
    BY <1>3, <2>1, <2>2
<1>4. CASE Commit(w) \/ CommitReplayed(w)
  <2>1. /\ phase' = [phase EXCEPT ![w] = "committed"]
        /\ UNCHANGED <<storeVars, doc, known>>
        /\ NextVersion(w) \in Versions /\ doc[w] \in Docs /\ hash[w] \in Hashes
    BY <1>4 DEF Commit, CommitReplayed, Committing, Committed, WritersAreNamed
  <2>2. index' \in Index /\ indexSurvivors' \in SUBSET Index
    <3>1. CASE UNCHANGED indexVars
      BY <3>1 DEF indexVars
    <3>2. CASE Commit(w)
      <4> DEFINE D == doc[w]
                 N == NextVersion(w)
                 H == hash[w]
      <4>1. index' = [rows    |-> [index.rows EXCEPT ![D] = [@ EXCEPT ![N] = H]],
                      current |-> [index.current EXCEPT ![D] = N],
                      objects |-> index.objects \cup {H}]
        BY <3>2 DEF Commit, Index
      <4>2. D \in Docs /\ N \in Versions /\ H \in Hashes
        BY <2>1
      <4> HIDE DEF D, N, H
      <4>3. index' \in Index
        BY <1>1, <4>1, <4>2 DEF Index, Versions
      <4> QED
        BY <3>2, <4>3 DEF Commit
    <3> QED
      BY <1>4, <3>1, <3>2 DEF CommitReplayed
  <2> QED
    BY <2>1, <2>2 DEF WritersAreNamed, NextVersion, TypeOK, storeVars
<1>5. CASE \E d \in Docs : Discover(w, d)
  <2>1. PICK d \in Docs : Discover(w, d)
    BY <1>5
  <2>2. index.current[d] \in 0 .. MaxVersion
    BY DEF Index
  <2> QED
    BY <2>1, <2>2 DEF Discover, WritersAreNamed, NextVersion, TypeOK, storeVars, indexVars
<1>6. CASE \E h \in Hashes : Download(w, h)
  BY <1>6 DEF Download, Begin, Goto, WritersAreNamed, NextVersion, TypeOK, Stages, indexVars,
              collectVars
<1>7. CASE NotDownloaded(w)
  BY <1>2, <1>3, <1>7 DEF NotDownloaded, TypeOK, storeVars
<1>8. CASE StoreWork(w) \/ Touch(w) \/ Fail(w)
  <2>1. /\ StoreStep(w) \/ IoError(w) \/ Release(w)
        /\ UNCHANGED indexVars
        /\ UNCHANGED collectVars \/ Rest(w)
    BY <1>8 DEF StoreWork, Touch, Fail, StoreStep
  <2> QED
    BY <1>2, <1>3, <2>1, StoreWorkTypes
<1>9. CASE CommitConflict(w)
  <2>1. Release(w) /\ UNCHANGED indexVars /\ Rest(w)
    BY <1>9 DEF CommitConflict, Committing, Release
  <2> QED
    BY <1>2, <1>3, <2>1, StoreWorkTypes
<1>10. CASE Attach(w) \/ AttachDone(w)
  <2>1. <<doc[w], NextVersion(w)>> \in Refs
    BY <1>10, RefsAssumption DEF Attach, AttachDone, WritersAreNamed, Versions
  <2>2. \/ StoreStep(w)
        \/ \E r \in Refs : AttachRead(w, r)
        \/ \E r \in Refs : AttachNothing(w, r)
    BY <1>10, <2>1 DEF Attach, AttachDone, StoreStep
  <2>3. UNCHANGED indexVars /\ (UNCHANGED collectVars \/ Rest(w))
    BY <1>10 DEF Attach, AttachDone
  <2> QED
    BY <1>2, <1>3, <2>2, <2>3, StoreWorkTypes
<1> QED
  BY <1>4, <1>5, <1>6, <1>7, <1>8, <1>9, <1>10 DEF CollectStep

LEMMA CollectionTypesStay ==
  ASSUME CollectionTypeOK, WritersAreNamed, [CollectionNext]_vars
  PROVE  CollectionTypeOK' /\ WritersAreNamed'
<1> USE DEF CollectionTypeOK
<1>1. ASSUME NEW w \in Writers,
             \/ CollectStep(w)
             \/ \E d \in Docs : Discover(w, d)
             \/ \E h \in Hashes : Download(w, h)
      PROVE  CollectionTypeOK' /\ WritersAreNamed'
  BY <1>1, CollectStepTypes
<1>2. CASE ForeignCleanup /\ UNCHANGED <<indexVars, collectVars>>
  BY <1>2 DEF ForeignCleanup, TypeOK, WritersAreNamed, indexVars, collectVars, NextVersion
<1>3. CASE ProcessCrash \/ PowerCut
  <2>1. Restart /\ RestAll
    BY <1>3 DEF ProcessCrash, PowerCut, Crash, PowerLoss
  <2>2. /\ dir' \in [Hashes -> Directory]
        /\ survivors' \in [Hashes -> SUBSET Directory]
        /\ index' \in Index /\ indexSurvivors' \in SUBSET Index
    <3>1. CASE ProcessCrash
      BY <3>1 DEF ProcessCrash, Crash, TypeOK, indexVars
    <3>2. CASE PowerCut
      <4>1. \A h \in Hashes : dir'[h] \in Directory
        BY <3>2 DEF PowerCut, PowerLoss, TypeOK
      <4>2. dir' \in [Hashes -> Directory]
        BY <3>2, <4>1 DEF PowerCut, PowerLoss
      <4>3. survivors' \in [Hashes -> SUBSET Directory]
        BY <3>2, <4>1 DEF PowerCut, PowerLoss
      <4> QED
        BY <3>2, <4>2, <4>3 DEF PowerCut
    <3> QED
      BY <1>3, <3>1, <3>2
  <2>3. NoDescriptor \in Descriptor /\ 0 \in 0 .. MaxVersion
    BY DescriptorTypes, MaxVersionAssumption
  <2>4. TypeOK'
    BY <2>1, <2>2, <2>3 DEF Restart, TypeOK, Stages
  <2> QED
    BY <2>1, <2>2, <2>3, <2>4 DEF RestAll, Restart, WritersAreNamed
<1>4. CASE Checkpoint \/ UNCHANGED vars
  BY <1>4 DEF Checkpoint, vars, storeVars, indexVars, collectVars, TypeOK, WritersAreNamed,
              NextVersion
<1> QED
  BY <1>1, <1>2, <1>3, <1>4 DEF CollectionNext

-----------------------------------------------------------------------------
(* The verification of the whole index. *)

(* While the machine is powered, objects are added to the index and stay. *)
LEMMA ObjectsOnlyCome ==
  ASSUME CollectionTypeOK, [CollectionNext]_vars, ~ PowerCut
  PROVE  index.objects \subseteq index'.objects
<1>1. UNCHANGED index \/ \E w \in Writers : Commit(w)
  BY DEF CollectionNext, vars, indexVars, Discover, Download, CollectStep, NotDownloaded,
         StoreWork, Touch, CommitReplayed, CommitConflict, Attach, AttachDone, Fail,
         ProcessCrash, Checkpoint
<1>2. ASSUME NEW w \in Writers, Commit(w)
      PROVE  index'.objects = index.objects \cup {hash[w]}
  BY <1>2 DEF Commit, CollectionTypeOK, Index
<1> QED
  BY <1>1, <1>2

(* Ranks tell the objects apart, so that finitely many lie between two of them. *)
LEMMA FewBetween ==
  ASSUME NEW S \in SUBSET Hashes, NEW a \in Nat, NEW b \in Nat
  PROVE  IsFiniteSet({k \in S : Rank[k] \in a + 1 .. b - 1})
<1> DEFINE G == {k \in S : Rank[k] \in a + 1 .. b - 1}
           T == {n \in a + 1 .. b - 1 : \E g \in G : Rank[g] = n}
           f == [n \in T |-> CHOOSE g \in G : Rank[g] = n]
<1>1. IsFiniteSet(T)
  <2>1. a + 1 \in Int /\ b - 1 \in Int /\ T \in SUBSET (a + 1 .. b - 1)
    OBVIOUS
  <2>2. IsFiniteSet(a + 1 .. b - 1)
    BY <2>1, FS_Interval
  <2> HIDE DEF T
  <2> QED
    BY <2>1, <2>2, FS_Subset
<1>2. \A g \in G : Rank[g] \in T /\ f[Rank[g]] = g
  <2> SUFFICES ASSUME NEW g \in G
               PROVE  Rank[g] \in T /\ f[Rank[g]] = g
    OBVIOUS
  <2>1. \A h \in G : Rank[h] = Rank[g] => h = g
    BY RankAssumption
  <2> QED
    BY <2>1
<1>3. f \in Surjection(T, G)
  BY <1>2 DEF Surjection
<1> HIDE DEF G, T, f
<1>4. IsFiniteSet(G)
  BY <1>1, <1>3, FS_Surjection
<1> QED
  BY <1>4 DEF G

(* Numbers are ordered as the intervals below them. *)
LEMMA LeastNumber ==
  ASSUME NEW T, T \subseteq Nat, T # {}
  PROVE  \E n \in T : \A m \in T : n <= m
<1> DEFINE Below == {0 .. n : n \in T}
<1>1. Below \subseteq FiniteSubsetsOf(Nat) /\ Below # {}
  <2>1. \A n \in T : IsFiniteSet(0 .. n) /\ 0 .. n \subseteq Nat
    BY FS_Interval
  <2> QED
    BY <2>1 DEF FiniteSubsetsOf
<1>2. \E x \in Below : \A y \in Below : ~ (<<y, x>> \in StrictSubsetOrdering(Nat))
  BY <1>1, FS_StrictSubsetOrderingWellFounded, WFMin
<1>3. PICK n \in T : \A y \in Below : ~ (<<y, 0 .. n>> \in StrictSubsetOrdering(Nat))
  BY <1>2
<1>4. ASSUME NEW m \in T, m < n
      PROVE  FALSE
  <2>1. 0 .. m \subseteq 0 .. n /\ 0 .. m \in SUBSET Nat /\ 0 .. n \in SUBSET Nat
    BY <1>4
  <2>2. n \in 0 .. n /\ n \notin 0 .. m
    BY <1>4
  <2>3. 0 .. m \in Below
    OBVIOUS
  <2> QED
    BY <1>3, <2>1, <2>2, <2>3 DEF StrictSubsetOrdering
<1> QED
  BY <1>4

(* A batch is a beginning of what comes after the cursor. *)
LEMMA BatchIsFirst ==
  ASSUME index.objects \subseteq Hashes, cursor \in Nat,
         NEW x \in index.objects \ NextBatch, Rank[x] > cursor,
         NEW g \in NextBatch
  PROVE  Rank[x] > Rank[g]
<1> DEFINE Between(h) == {k \in index.objects : Rank[k] \in cursor + 1 .. Rank[h] - 1}
<1>1. Rank[x] \in Nat /\ Rank[g] \in Nat /\ g \in index.objects
  BY RankAssumption DEF NextBatch
<1>2. IsFiniteSet(Between(x)) /\ IsFiniteSet(Between(g))
  BY <1>1, FewBetween
<1>3. ~ (Cardinality(Between(x)) < BatchSize) /\ Cardinality(Between(g)) < BatchSize
  BY DEF NextBatch
<1>4. Cardinality(Between(x)) \in Nat /\ Cardinality(Between(g)) \in Nat
  BY <1>2, FS_CardinalityType
<1>5. ASSUME Rank[x] <= Rank[g]
      PROVE  FALSE
  <2>1. Between(x) \in SUBSET Between(g)
    BY <1>1, <1>5
  <2>2. Cardinality(Between(x)) <= Cardinality(Between(g))
    BY <1>2, <2>1, FS_Subset
  <2> HIDE DEF Between
  <2> QED
    BY <1>3, <1>4, <2>2, BatchAssumption
<1> QED
  BY <1>1, <1>5

(* An empty batch means that nothing comes after the cursor. *)
LEMMA NothingAfterEmptyBatch ==
  ASSUME index.objects \subseteq Hashes, cursor \in Nat, NextBatch = {}
  PROVE  \A x \in index.objects : Rank[x] <= cursor
<1> DEFINE After == {n \in Nat : n > cursor /\ \E h \in index.objects : Rank[h] = n}
<1>1. \A h \in index.objects : Rank[h] \in Nat
  BY RankAssumption
<1>2. ASSUME After # {}
      PROVE  FALSE
  <2>1. PICK n \in After : \A m \in After : n <= m
    BY <1>2, LeastNumber
  <2>2. PICK h \in index.objects : Rank[h] = n
    BY <2>1
  <2>3. {k \in index.objects : Rank[k] \in cursor + 1 .. Rank[h] - 1} = {}
    BY <1>1, <2>1, <2>2
  <2>4. h \in NextBatch
    BY <2>1, <2>2, <2>3, FS_EmptySet, BatchAssumption DEF NextBatch
  <2> QED
    BY <2>4
<1> QED
  BY <1>1, <1>2

(* accumulate() keeps the greatest of the versions read. *)
LEMMA AccumulatesGreatest ==
  ASSUME newest \in [Docs -> 0 .. MaxVersion], NEW h \in Hashes, NEW d \in Docs
  PROVE  /\ Accumulate(h)[d] \in 0 .. MaxVersion
         /\ newest[d] <= Accumulate(h)[d]
         /\ \A v \in Versions : <<d, v>> \in dir[h].desc.refs => v <= Accumulate(h)[d]
         /\ \/ Accumulate(h)[d] = newest[d]
            \/ Accumulate(h)[d] \in Versions /\ <<d, Accumulate(h)[d]>> \in dir[h].desc.refs
<1> DEFINE read == {newest[d]} \cup {v \in Versions : <<d, v>> \in dir[h].desc.refs}
           greatest == CHOOSE v \in read : \A u \in read : u <= v
           Missing == {n \in Nat : n <= MaxVersion /\ MaxVersion - n \in read}
<1>1. MaxVersion \in Nat
  BY MaxVersionAssumption
<1>2. read \subseteq 0 .. MaxVersion /\ newest[d] \in read
  BY <1>1 DEF Versions
<1>3. \E v \in read : \A u \in read : u <= v
  <2> HIDE DEF read
  <2>1. \A u \in read : MaxVersion - u \in Missing
    BY <1>1, <1>2
  <2>2. Missing # {} /\ Missing \subseteq Nat
    BY <1>2, <2>1
  <2>3. PICK n \in Missing : \A m \in Missing : n <= m
    BY <2>2, LeastNumber
  <2>4. MaxVersion - n \in read /\ \A u \in read : u <= MaxVersion - n
    BY <1>1, <1>2, <2>1, <2>3
  <2> QED
    BY <2>4
<1>4. greatest \in read /\ \A u \in read : u <= greatest
  <2> HIDE DEF read
  <2> QED
    BY <1>3
<1>5. Accumulate(h)[d] = greatest
  BY DEF Accumulate
<1> HIDE DEF greatest
<1> QED
  BY <1>2, <1>4, <1>5

(* What a descriptor adds to the index. *)
LEMMA InsertedRows ==
  ASSUME index \in Index, NEW h \in Hashes
  PROVE  /\ Inserted(h) \in Index
         /\ Inserted(h).current = index.current
         /\ Inserted(h).objects = index.objects \cup {h}
         /\ \A d \in Docs, v \in Versions :
              Inserted(h).rows[d][v] =
                IF <<d, v>> \in dir[h].desc.refs /\ index.rows[d][v] = NoHash
                THEN h ELSE index.rows[d][v]
<1> DEFINE rows == [d \in Docs |-> [v \in Versions |->
                      IF <<d, v>> \in dir[h].desc.refs /\ index.rows[d][v] = NoHash
                      THEN h ELSE index.rows[d][v]]]
<1>1. Inserted(h) = [index EXCEPT !.objects = @ \cup {h}, !.rows = rows]
  BY DEF Inserted
<1>2. rows \in [Docs -> [Versions -> Hashes \cup {NoHash}]]
  BY DEF Index
<1>3. \A d \in Docs, v \in Versions :
        rows[d][v] = IF <<d, v>> \in dir[h].desc.refs /\ index.rows[d][v] = NoHash
                     THEN h ELSE index.rows[d][v]
  OBVIOUS
<1> HIDE DEF rows
<1>4. Inserted(h) = [rows    |-> rows,
                     current |-> index.current,
                     objects |-> index.objects \cup {h}]
  BY <1>1 DEF Index
<1> QED
  BY <1>2, <1>3, <1>4 DEF Index

(* The types of the index and of the collections stay whatever is maintained. *)
LEMMA MaintenanceTypesStay ==
  ASSUME CollectionTypeOK, WritersAreNamed, replaced \in Index,
         newest \in [Docs -> 0 .. MaxVersion],
         [MaintenanceNext]_maintenanceVars
  PROVE  /\ CollectionTypeOK' /\ WritersAreNamed'
         /\ replaced' \in Index /\ newest' \in [Docs -> 0 .. MaxVersion]
<1>1. MaxVersion \in Nat /\ NoVersion \in [Docs -> 0 .. MaxVersion]
  BY MaxVersionAssumption DEF NoVersion
<1>2. EmptyIndex \in Index
  BY <1>1 DEF EmptyIndex, Index, Versions
<1>3. CASE Collecting
  BY <1>3, CollectionTypesStay DEF Collecting, reindexVars
<1>4. ASSUME NEW i \in Index, SetIndex(i)
      PROVE  CollectionTypeOK' /\ WritersAreNamed'
  BY <1>4 DEF SetIndex, CollectionTypeOK, TypeOK, WritersAreNamed, storeVars, collectVars,
              NextVersion
<1>5. CASE LoseIndex
  BY <1>2, <1>4, <1>5 DEF LoseIndex, CollectionTypeOK
<1>6. CASE \E h \in Hashes : Decay(h)
  <2>1. PICK h \in Hashes, b \in {"torn", "absent"} :
          Decay(h) /\ SetDirectory(h, [dir[h] EXCEPT !.bytes = b])
    BY <1>6 DEF Decay
  <2>2. [dir[h] EXCEPT !.bytes = b] \in Directory
    BY Rebyted DEF CollectionTypeOK, TypeOK
  <2> QED
    BY <2>1, <2>2 DEF Decay, SetDirectory, CollectionTypeOK, TypeOK, WritersAreNamed, indexVars,
                      collectVars,
                      reindexVars, NextVersion
<1>7. CASE BeginReindex
  BY <1>1, <1>7 DEF BeginReindex, vars, storeVars, indexVars, collectVars, CollectionTypeOK, TypeOK,
                    WritersAreNamed, NextVersion
<1>8. CASE \E h \in Hashes : ReindexObject(h)
  <2> PICK h \in Hashes : ReindexObject(h)
    BY <1>8
  <2>1. CASE dir[h].desc.kind = "tombstone"
    BY <2>1 DEF ReindexObject, vars, storeVars, indexVars, collectVars, CollectionTypeOK, TypeOK,
                      WritersAreNamed, NextVersion
  <2>2. CASE dir[h].desc.kind # "tombstone"
    <3>1. Inserted(h) \in Index
      BY InsertedRows DEF CollectionTypeOK
    <3>2. Accumulate(h) \in [Docs -> 0 .. MaxVersion]
      BY AccumulatesGreatest DEF Accumulate
    <3> QED
      BY <1>4, <2>2, <3>1, <3>2 DEF ReindexObject
  <2> QED
    BY <2>1, <2>2
<1>9. CASE \E d \in Docs : ReindexDocument(d)
  <2> PICK d \in Docs : ReindexDocument(d)
    BY <1>9
  <2>1. [index EXCEPT !.current[d] = newest[d]] \in Index
    BY DEF CollectionTypeOK, Index
  <2> QED
    BY <1>4, <2>1 DEF ReindexDocument, reindexVars
<1>10. CASE ReindexEnd \/ ReindexKilled
  BY <1>1, <1>2, <1>10 DEF ReindexEnd, ReindexKilled, vars, storeVars, indexVars, collectVars,
                           CollectionTypeOK, TypeOK, WritersAreNamed, NextVersion
<1>11. CASE \/ BeginVerify \/ ListBatch \/ \E h \in Hashes : VerifyObject(h)
            \/ \E h \in Hashes : SearchObject(h)
            \/ VerifyEnd
            \/ UNCHANGED maintenanceVars
  <2>1. UNCHANGED <<vars, replaced, newest>>
    BY <1>11 DEF BeginVerify, ListBatch, VerifyObject, SearchObject, VerifyEnd, ForgetVerification,
                 maintenanceVars, reindexVars
  <2> QED
    BY <2>1 DEF vars, storeVars, indexVars, collectVars, CollectionTypeOK, TypeOK,
                WritersAreNamed, NextVersion
<1> QED
  BY <1>3, <1>5, <1>6, <1>7, <1>8, <1>9, <1>10, <1>11 DEF MaintenanceNext

(* A collection that runs beside a verification adds to the index, and what it
   repairs is no longer damaged. *)
LEMMA CollectingKeepsVerify ==
  ASSUME CollectionTypeOK, VerifyIsUnderWay, DamageIsReported, Collecting, ~ PowerCut
  PROVE  VerifyIsUnderWay' /\ DamageIsReported'
<1>1. index.objects \subseteq index'.objects
  BY ObjectsOnlyCome DEF Collecting
<1>2. /\ UNCHANGED <<job, batch, cursor, indexed, anomalies, orphans>>
      /\ atStart' \in [objects : SUBSET Hashes, torn : SUBSET Hashes]
      /\ atStart'.objects = atStart.objects
      /\ \A h \in atStart'.torn : h \in atStart.torn /\ dir'[h].bytes = "torn"
  BY DEF Collecting, VerifyIsUnderWay
<1>3. VerifyIsUnderWay'
  BY <1>1, <1>2 DEF VerifyIsUnderWay
<1>4. DamageIsReported'
  BY <1>2 DEF DamageIsReported
<1> QED
  BY <1>3, <1>4

(* The actions that leave what is being verified alone. *)
LEMMA MaintainingKeepsVerify ==
  ASSUME VerifyInvariant, CollectionTypeOK', replaced' \in Index,
         newest' \in [Docs -> 0 .. MaxVersion],
         \/ LoseIndex
         \/ \E h \in Hashes : Decay(h)
         \/ BeginReindex
         \/ \E h \in Hashes : ReindexObject(h)
         \/ \E d \in Docs : ReindexDocument(d)
         \/ ReindexEnd
         \/ ReindexKilled
         \/ UNCHANGED maintenanceVars
  PROVE  MaintenanceTypeOK' /\ VerifyIsUnderWay' /\ DamageIsReported'
<1> USE DEF VerifyInvariant
<1>1. CASE \E h \in Hashes : Decay(h)
  <2>1. /\ UNCHANGED <<index, job, todo, lost, verifyVars>>
        /\ \A h \in Hashes : dir[h].bytes = "torn" => dir'[h] = dir[h]
    BY <1>1 DEF Decay, SetDirectory, indexVars, reindexVars, MaintenanceTypeOK, CollectionTypeOK,
                TypeOK
  <2>2. MaintenanceTypeOK' /\ VerifyIsUnderWay'
    BY <2>1 DEF MaintenanceTypeOK, VerifyIsUnderWay, verifyVars
  <2>3. DamageIsReported'
    BY <2>1 DEF DamageIsReported, VerifyIsUnderWay, verifyVars
  <2> QED
    BY <2>2, <2>3
<1>2. CASE UNCHANGED maintenanceVars
  BY <1>2 DEF MaintenanceTypeOK, VerifyIsUnderWay, DamageIsReported, maintenanceVars, vars,
              storeVars,
              indexVars, reindexVars, verifyVars
<1>3. CASE \/ LoseIndex \/ BeginReindex \/ ReindexEnd \/ ReindexKilled
           \/ \E h \in Hashes : ReindexObject(h)
           \/ \E d \in Docs : ReindexDocument(d)
  <2>1. /\ UNCHANGED <<verifyVars>>
        /\ job \in {"none", "reindexing"} /\ job' \in {"none", "reindexing"}
        /\ todo' \subseteq Hashes /\ lost' \in BOOLEAN
    BY <1>3 DEF LoseIndex, BeginReindex, ReindexObject, ReindexDocument, ReindexEnd,
                ReindexKilled, Scanned, reindexVars, MaintenanceTypeOK
  <2>2. batch = {} /\ indexed = {} /\ orphans = {} /\ atStart = Nothing
    BY <2>1 DEF MaintenanceTypeOK, VerifyIsUnderWay
  <2>3. MaintenanceTypeOK' /\ VerifyIsUnderWay'
    BY <2>1, <2>2 DEF MaintenanceTypeOK, VerifyIsUnderWay, verifyVars
  <2>4. DamageIsReported'
    BY <2>1, <2>2 DEF DamageIsReported, Nothing, verifyVars
  <2> QED
    BY <2>3, <2>4
<1> QED
  BY <1>1, <1>2, <1>3

(* What is not listed comes after the cursor and after all that is: the next batch
   begins where the last one ended. *)
LEMMA VerifyingKeepsVerify ==
  ASSUME VerifyInvariant, CollectionTypeOK', replaced' \in Index,
         newest' \in [Docs -> 0 .. MaxVersion],
         \/ BeginVerify
         \/ ListBatch
         \/ \E h \in Hashes : VerifyObject(h)
         \/ \E h \in Hashes : SearchObject(h)
         \/ VerifyEnd
  PROVE  MaintenanceTypeOK' /\ VerifyIsUnderWay' /\ DamageIsReported'
<1> USE DEF VerifyInvariant
<1>1. index.objects \subseteq Hashes /\ UNCHANGED <<index, dir, replaced, newest, lost>>
  BY DEF MaintenanceTypeOK, CollectionTypeOK, Index, BeginVerify, ListBatch, VerifyObject,
         SearchObject,
         VerifyEnd, ForgetVerification, vars, storeVars, indexVars, reindexVars
<1>2. \A h \in Hashes : Rank[h] \in Nat /\ Rank[h] > 0
  BY RankAssumption
<1>3. cursor \in Nat
  BY <1>2 DEF MaintenanceTypeOK
<1>4. CASE BeginVerify
  <2>1. indexed = {} /\ batch = {} /\ orphans = {} /\ anomalies = {}
    BY <1>4 DEF BeginVerify, MaintenanceTypeOK, VerifyIsUnderWay
  <2>2. MaintenanceTypeOK'
    BY <1>1, <1>4, <2>1 DEF BeginVerify, MaintenanceTypeOK
  <2>3. VerifyIsUnderWay'
    BY <1>1, <1>2, <1>4, <2>1 DEF BeginVerify, VerifyIsUnderWay
  <2>4. DamageIsReported'
    BY <1>1, <1>4, <2>1 DEF BeginVerify, DamageIsReported
  <2> QED
    BY <2>2, <2>3, <2>4
<1>5. CASE ListBatch
  <2>1. NextBatch \subseteq index.objects
    BY DEF NextBatch
  <2>2. MaintenanceTypeOK'
    BY <1>1, <1>5, <2>1 DEF ListBatch, MaintenanceTypeOK
  <2>3. ASSUME NEW x \in atStart.objects \ (indexed \cup NextBatch), NEW g \in NextBatch
        PROVE  Rank[x] > Rank[g]
    <3>1. x \in index.objects \ NextBatch /\ Rank[x] > cursor
      BY <1>5 DEF ListBatch, VerifyIsUnderWay
    <3> QED
      BY <1>1, <1>3, <3>1, BatchIsFirst
  <2>4. ASSUME NextBatch = {}
        PROVE  atStart.objects \subseteq indexed
    <3>1. \A x \in index.objects : Rank[x] <= cursor
      BY <1>1, <1>3, <2>4, NothingAfterEmptyBatch
    <3>2. \A x \in atStart.objects \ indexed : x \in index.objects /\ Rank[x] > cursor
      BY <1>5 DEF ListBatch, VerifyIsUnderWay
    <3> QED
      BY <1>1, <1>2, <1>3, <3>1, <3>2
  <2>5. VerifyIsUnderWay'
    <3> HIDE DEF NextBatch
    <3> QED
      BY <1>1, <1>5, <2>3, <2>4 DEF ListBatch, VerifyIsUnderWay
  <2>6. DamageIsReported'
    BY <1>1, <1>5 DEF ListBatch, DamageIsReported
  <2> QED
    BY <2>2, <2>5, <2>6
<1>6. ASSUME NEW h \in Hashes, VerifyObject(h)
      PROVE  MaintenanceTypeOK' /\ VerifyIsUnderWay' /\ DamageIsReported'
  <2>1. /\ UNCHANGED <<job, todo, orphans, atStart>>
        /\ job = "verifying" /\ h \in batch /\ h \in index.objects
        /\ batch' = batch \ {h} /\ indexed' = indexed \cup {h}
        /\ cursor' = IF batch' = {} THEN Rank[h] ELSE cursor
    BY <1>6 DEF VerifyObject, MaintenanceTypeOK
  <2>2. orphans = {}
    BY <2>1 DEF VerifyIsUnderWay
  <2>3. MaintenanceTypeOK'
    BY <1>1, <1>6, <2>1, <2>2 DEF VerifyObject, MaintenanceTypeOK
  <2>4. \A x \in atStart.objects \ (indexed' \cup batch') :
          Rank[x] > cursor' /\ \A g \in batch' : Rank[x] > Rank[g]
    BY <1>2, <2>1 DEF VerifyIsUnderWay
  <2>5. VerifyIsUnderWay'
    BY <1>1, <2>1, <2>2, <2>4 DEF VerifyIsUnderWay
  <2>6. dir[h].bytes = "torn" => h \in anomalies'
    BY <1>6 DEF VerifyObject, Verify
  <2>7. DamageIsReported'
    BY <1>1, <1>6, <2>1, <2>6 DEF VerifyObject, DamageIsReported
  <2> QED
    BY <2>3, <2>5, <2>7
<1>7. CASE \E h \in Hashes : SearchObject(h)
  <2>1. /\ UNCHANGED <<job, batch, cursor, indexed, anomalies, atStart>> /\ job = "searching"
        /\ todo' \subseteq Hashes /\ orphans' \subseteq Hashes \ indexed
    BY <1>7 DEF SearchObject, MaintenanceTypeOK
  <2>2. MaintenanceTypeOK' /\ VerifyIsUnderWay'
    BY <1>1, <2>1 DEF MaintenanceTypeOK, VerifyIsUnderWay
  <2>3. DamageIsReported'
    BY <1>1, <2>1 DEF DamageIsReported
  <2> QED
    BY <2>2, <2>3
<1>8. CASE VerifyEnd
  <2>1. batch = {}
    BY <1>8 DEF VerifyEnd, ForgetVerification, VerifyIsUnderWay
  <2>2. MaintenanceTypeOK' /\ VerifyIsUnderWay'
    BY <1>1, <1>8, <2>1 DEF VerifyEnd, ForgetVerification, MaintenanceTypeOK, VerifyIsUnderWay,
                                Nothing
  <2>3. DamageIsReported'
    BY <1>8 DEF VerifyEnd, ForgetVerification, DamageIsReported, Nothing
  <2> QED
    BY <2>2, <2>3
<1> QED
  BY <1>4, <1>5, <1>6, <1>7, <1>8

LEMMA VerifyStep ==
  ASSUME VerifyInvariant, [MaintenanceNext]_maintenanceVars
  PROVE  VerifyInvariant'
<1>1. /\ CollectionTypeOK' /\ WritersAreNamed'
      /\ replaced' \in Index /\ newest' \in [Docs -> 0 .. MaxVersion]
  BY MaintenanceTypesStay DEF VerifyInvariant, MaintenanceTypeOK
<1>2. CASE Collecting /\ PowerCut
  BY <1>1, <1>2 DEF Collecting, ForgetVerification, Nothing, reindexVars, VerifyInvariant,
                    MaintenanceTypeOK, VerifyIsUnderWay, DamageIsReported
<1>3. CASE Collecting /\ ~ PowerCut
  <2>1. VerifyIsUnderWay' /\ DamageIsReported'
    BY <1>3, CollectingKeepsVerify DEF VerifyInvariant, MaintenanceTypeOK
  <2>2. index.objects \subseteq index'.objects
    BY <1>3, ObjectsOnlyCome DEF Collecting, VerifyInvariant, MaintenanceTypeOK
  <2>3. /\ UNCHANGED <<job, todo, lost, batch, cursor, indexed, anomalies, orphans>>
        /\ atStart = Nothing => atStart' = Nothing
    BY <1>3 DEF Collecting, reindexVars, Nothing
  <2>4. MaintenanceTypeOK'
    BY <1>1, <2>2, <2>3 DEF VerifyInvariant, MaintenanceTypeOK
  <2> QED
    BY <1>1, <2>1, <2>4 DEF VerifyInvariant
<1>4. CASE \/ LoseIndex
           \/ \E h \in Hashes : Decay(h)
           \/ BeginReindex
           \/ \E h \in Hashes : ReindexObject(h)
           \/ \E d \in Docs : ReindexDocument(d)
           \/ ReindexEnd
           \/ ReindexKilled
           \/ UNCHANGED maintenanceVars
  BY <1>1, <1>4, MaintainingKeepsVerify DEF VerifyInvariant
<1>5. CASE \/ BeginVerify
           \/ ListBatch
           \/ \E h \in Hashes : VerifyObject(h)
           \/ \E h \in Hashes : SearchObject(h)
           \/ VerifyEnd
  BY <1>1, <1>5, VerifyingKeepsVerify DEF VerifyInvariant
<1> QED
  BY <1>2, <1>3, <1>4, <1>5 DEF MaintenanceNext

LEMMA MaintenanceTypesInit ==
  MaintenanceInit => MaintenanceTypeOK /\ WritersAreNamed /\ VerifyIsUnderWay /\ DamageIsReported
<1> SUFFICES ASSUME MaintenanceInit
             PROVE  MaintenanceTypeOK /\ WritersAreNamed /\ VerifyIsUnderWay /\ DamageIsReported
  OBVIOUS
<1>1. MaxVersion \in Nat /\ EmptyIndex \in Index
  BY MaxVersionAssumption DEF EmptyIndex, Index, Versions
<1>2. CollectionTypeOK /\ WritersAreNamed
  BY <1>1, DescriptorTypes DEF MaintenanceInit, CollectionInit, Init, CollectionTypeOK, TypeOK,
                               Stages, EmptyDirectory,
         WritersAreNamed, Directory
<1>3. NoVersion \in [Docs -> 0 .. MaxVersion]
  BY <1>1 DEF NoVersion
<1> QED
  BY <1>1, <1>2, <1>3 DEF MaintenanceInit, MaintenanceTypeOK, VerifyIsUnderWay, DamageIsReported,
                          Nothing

(* A verification of the whole index - scanAll(), by batches and while collections
   go on - misses no object that was there when it began, and reports each that was
   damaged all along. *)
THEOREM VerificationMissesNothing == MaintenanceSpec => []VerifyCoversIndex
<1>1. MaintenanceInit => VerifyInvariant
  BY MaintenanceTypesInit DEF VerifyInvariant
<1>2. VerifyInvariant /\ [MaintenanceNext]_maintenanceVars => VerifyInvariant'
  BY VerifyStep
<1>3. VerifyInvariant => VerifyCoversIndex
  BY DEF VerifyInvariant, VerifyIsUnderWay, DamageIsReported, VerifyCoversIndex
<1> QED
  BY <1>1, <1>2, <1>3, PTL DEF MaintenanceSpec

-----------------------------------------------------------------------------
(* Reindexing and the descriptors that it reads. *)

(* What was attached stays in agreement with the index: references are added where
   the index has them, and a writer leaves none of its own behind. *)
LEMMA AgreementStays ==
  ASSUME DescriptorsAgree,
         UNCHANGED <<lost, replaced, index>>,
         \A h \in Hashes :
           /\ dir[h].desc.refs \subseteq dir'[h].desc.refs
           /\ dir'[h].desc = dir[h].desc \/ dir'[h].desc.kind = "live"
           /\ \A r \in dir'[h].desc.refs \ dir[h].desc.refs :
                r \in Docs \X Versions /\ Promised.rows[r[1]][r[2]] = h,
         \A w \in Writers :
           phase[w] = "committed" =>
             \/ phase'[w] = "committed" /\ doc'[w] = doc[w] /\ known'[w] = known[w]
             \/ /\ Promised.rows[doc[w]][NextVersion(w)] = hash[w] /\ hash[w] \in Hashes
                /\ <<doc[w], NextVersion(w)>> \in dir[hash[w]].desc.refs,
         \A d \in Docs, v \in Versions : Promised.rows[d][v] \in Hashes \cup {NoHash},
         Promised.objects \cup index.objects \subseteq Hashes
  PROVE  DescriptorsAgree'
<1>1. Promised' = Promised
  BY DEF Promised
<1>2. NumberedThrough(Promised)'
  BY <1>1 DEF DescriptorsAgree, NumberedThrough
<1>3. \A h \in Hashes : \A r \in dir'[h].desc.refs :
        r \in Docs \X Versions /\ Promised.rows[r[1]][r[2]] = h
  BY DEF DescriptorsAgree
<1>4. ASSUME NEW d \in Docs, NEW v \in Versions, Promised.rows[d][v] # NoHash
      PROVE  \/ <<d, v>> \in dir'[Promised.rows[d][v]].desc.refs
             \/ \E w \in Writers :
                  phase'[w] = "committed" /\ doc'[w] = d /\ known'[w] + 1 = v
  <2>1. Promised.rows[d][v] \in Hashes
    BY <1>4
  <2>2. CASE <<d, v>> \in dir[Promised.rows[d][v]].desc.refs
    BY <2>1, <2>2
  <2>3. CASE \E w \in Writers : phase[w] = "committed" /\ doc[w] = d /\ NextVersion(w) = v
    BY <2>1, <2>3 DEF NextVersion
  <2> QED
    BY <1>4, <2>2, <2>3 DEF DescriptorsAgree
<1>5. /\ \A h \in Promised.objects \cup index.objects : dir'[h].desc.kind = "live"
      /\ \A h \in Hashes : dir'[h].desc.kind = "live" \/ dir'[h].desc = NoDescriptor
  BY DEF DescriptorsAgree
<1> QED
  BY <1>1, <1>2, <1>3, <1>4, <1>5 DEF DescriptorsAgree, NextVersion

(* The steps of the only writer, which has the index for itself: those that change
   neither the index nor a descriptor. *)
LEMMA OnlyWriterPrepares ==
  ASSUME CollectionTypeOK, WritersAreNamed, WriterIsAlone,
         NEW w \in Writers, \A v \in Writers : v = w,
         \/ \E d \in Docs : Discover(w, d)
         \/ \E h \in Hashes : Download(w, h)
         \/ NotDownloaded(w)
         \/ WriteBody(w) /\ UNCHANGED collectVars
         \/ SyncPart(w) /\ UNCHANGED collectVars
         \/ Deduplicate(w) /\ UNCHANGED collectVars
         \/ NotLocated(w) /\ UNCHANGED collectVars
         \/ Rename(w) /\ UNCHANGED collectVars
         \/ SyncObject(w) /\ UNCHANGED collectVars
         \/ UpsertRead(w) /\ UNCHANGED collectVars
         \/ SyncDescriptor(w) /\ UNCHANGED collectVars
         \/ Touch(w)
         \/ CommitReplayed(w)
         \/ CommitConflict(w)
         \/ Attach(w)
         \/ AttachDone(w)
         \/ Fail(w),
         UNCHANGED index, "io" \notin Faults
  PROVE  /\ \A h \in Hashes : dir'[h].desc = dir[h].desc
         /\ phase[w] = "committed" =>
              \/ phase'[w] = "committed" /\ doc'[w] = doc[w] /\ known'[w] = known[w]
              \/ <<doc[w], NextVersion(w)>> \in dir[hash[w]].desc.refs
              \/ dir[hash[w]].desc.kind = "tombstone"
         /\ WriterIsAlone'
<1> USE DEF CollectionTypeOK, TypeOK, Goto, Leave, Rest
<1> DEFINE Stays == \A h \in Hashes : dir'[h].desc = dir[h].desc
           Keeps == phase[w] = "committed" =>
                      \/ phase'[w] = "committed" /\ doc'[w] = doc[w] /\ known'[w] = known[w]
                      \/ <<doc[w], NextVersion(w)>> \in dir[hash[w]].desc.refs
                      \/ dir[hash[w]].desc.kind = "tombstone"
<1>1. CASE \/ \E d \in Docs : Discover(w, d)
           \/ \E h \in Hashes : Download(w, h)
           \/ NotDownloaded(w)
  <2>1. Stays /\ Keeps
    BY <1>1 DEF Discover, Download, Begin, NotDownloaded, storeVars, collectVars
  <2>2. \A d \in Docs : index.current[d] <= index.current[d]
    BY MaxVersionAssumption DEF Index
  <2>3. WriterIsAlone'
    <3>1. CASE \E d \in Docs : Discover(w, d)
      <4>1. PICK d \in Docs : Discover(w, d)
        BY <3>1
      <4>2. /\ UNCHANGED <<dir, stage, hash, copy>>
            /\ phase[w] = "rest" /\ phase'[w] = "fetching"
            /\ known'[w] = index.current[d] /\ doc'[w] = d
        BY <4>1 DEF Discover, storeVars
      <4>3. stage[w] \notin {"attaching", "attached"}
        BY <4>2 DEF WriterIsAlone
      <4> SUFFICES ASSUME NEW x \in Writers
                   PROVE  WriterIsAlone!(x)'
        BY DEF WriterIsAlone
      <4>4. x = w
        OBVIOUS
      <4>5. known'[w] <= index'.current[doc'[w]]
        BY <2>2, <4>2
      <4> HIDE DEF CollectionTypeOK
      <4> QED
        BY <4>2, <4>3, <4>4, <4>5 DEF WriterIsAlone, NextVersion
    <3>2. CASE \/ NotDownloaded(w)
               \/ \E h \in Hashes : Download(w, h)
      BY <3>2 DEF WriterIsAlone, NextVersion, Download, Begin, NotDownloaded, storeVars, collectVars
    <3> QED
      BY <1>1, <3>1, <3>2
  <2> QED
    BY <2>1, <2>3
<1>2. CASE UNCHANGED collectVars /\ (WriteBody(w) \/ SyncPart(w) \/ Deduplicate(w) \/ NotLocated(w))
  BY <1>2 DEF WriterIsAlone, NextVersion, WriteBody, SyncPart, Deduplicate, NotLocated, collectVars
<1>3. CASE UNCHANGED collectVars /\ Rename(w)
  <2>1. hash[w] \in Hashes
    BY <1>3 DEF Rename, WritersAreNamed
  <2>2. Stays
    BY <1>3, <2>1, Rebyted DEF Rename
  <2> HIDE DEF Stays
  <2>3. WriterIsAlone'
    BY <1>3, <2>1, <2>2 DEF Rename, WriterIsAlone, NextVersion, collectVars, WritersAreNamed, Stays
  <2> QED
    BY <1>3, <2>2, <2>3 DEF collectVars, Stays
<1>4. CASE UNCHANGED collectVars /\ (SyncObject(w) \/ SyncDescriptor(w))
  BY <1>4 DEF SyncObject, SyncDescriptor, Sync, WriterIsAlone, NextVersion, collectVars
<1>5. CASE UNCHANGED collectVars /\ UpsertRead(w)
  BY <1>5 DEF UpsertRead, Live, WriterIsAlone, NextVersion, collectVars
<1>6. CASE Touch(w) \/ CommitConflict(w)
  BY <1>6 DEF Touch, CommitConflict, Committing, Release, WriterIsAlone, NextVersion
<1>7. CASE CommitReplayed(w)
  BY <1>7 DEF CommitReplayed, Committing, Committed, WriterIsAlone, NextVersion, storeVars,
              indexVars
<1>8. CASE Attach(w)
  BY <1>8 DEF Attach, AttachRead, Live, WriterIsAlone, NextVersion, collectVars, indexVars
<1>9. CASE AttachDone(w)
  <2>1. Stays /\ <<doc[w], NextVersion(w)>> \in dir[hash[w]].desc.refs
    BY <1>9 DEF AttachDone, AttachNothing, SyncAttach, Sync, WriterIsAlone
  <2>2. stage'[w] = "idle" /\ phase'[w] = "rest"
    BY <1>9 DEF AttachDone, AttachNothing, SyncAttach
  <2> QED
    BY <2>1, <2>2 DEF WriterIsAlone
<1>10. CASE Fail(w)
  <2>1. Abort(w) /\ UNCHANGED <<dir, survivors>>
    BY <1>10 DEF Fail, IoError, Abort
  <2>2. stage'[w] = "idle" /\ (UNCHANGED collectVars \/ Rest(w))
    BY <1>10, <2>1 DEF Fail, Abort
  <2>3. phase[w] = "committed" => dir[hash[w]].desc.kind = "tombstone"
    BY <2>1 DEF Abort, WriterIsAlone
  <2>4. WriterIsAlone'
    BY <1>10, <2>1, <2>2, <2>3 DEF Fail, WriterIsAlone, collectVars, NextVersion
  <2> QED
    BY <2>1, <2>3, <2>4
<1> QED
  BY <1>1, <1>2, <1>3, <1>4, <1>5, <1>6, <1>7, <1>8, <1>9, <1>10

(* A descriptor is written back as it was read, with one reference more if the
   writer has committed one: nobody wrote in between. *)
LEMMA OnlyWriterDescribes ==
  ASSUME CollectionTypeOK, WritersAreNamed, WriterIsAlone,
         NEW w \in Writers, \A v \in Writers : v = w,
         UpsertWrite(w) \/ AttachWrite(w),
         UNCHANGED index, UNCHANGED collectVars
  PROVE  /\ \A h \in Hashes \ {hash[w]} : dir'[h].desc = dir[h].desc
         /\ hash[w] \in Hashes /\ dir'[hash[w]].desc.kind = "live"
         /\ dir[hash[w]].desc.refs \subseteq dir'[hash[w]].desc.refs
         /\ \A r \in dir'[hash[w]].desc.refs \ dir[hash[w]].desc.refs :
              /\ phase[w] = "committed"
              /\ r = <<doc[w], NextVersion(w)>>
         /\ WriterIsAlone'
<1>1. hash[w] \in Hashes /\ stage[w] \in {"writing", "attaching"}
  BY DEF UpsertWrite, AttachWrite, WritersAreNamed
<1>2. [dir[hash[w]] EXCEPT !.desc = copy[w]].desc = copy[w]
  BY <1>1, Redescribed DEF CollectionTypeOK, TypeOK
<1>3. /\ \A h \in Hashes \ {hash[w]} : dir'[h].desc = dir[h].desc
      /\ dir'[hash[w]].desc = copy[w]
  BY <1>1, <1>2 DEF UpsertWrite, AttachWrite, SetDirectory, CollectionTypeOK, TypeOK
<1>4. /\ UNCHANGED <<hash, copy>>
      /\ stage[w] = "writing" => stage'[w] = "described"
      /\ stage[w] = "attaching" => stage'[w] = "attached"
  BY DEF UpsertWrite, AttachWrite, Goto, CollectionTypeOK, TypeOK
<1>5. copy[w].kind = "live" /\ (stage[w] = "attaching" => phase[w] = "committed")
  BY <1>1 DEF WriterIsAlone
<1>6. /\ stage[w] = "writing" => copy[w].refs = dir[hash[w]].desc.refs
      /\ stage[w] = "attaching" =>
           copy[w].refs = dir[hash[w]].desc.refs \cup {<<doc[w], NextVersion(w)>>}
  BY DEF WriterIsAlone
<1>7. WriterIsAlone'
  <2> SUFFICES ASSUME NEW x \in Writers
               PROVE  WriterIsAlone!(x)'
    BY DEF WriterIsAlone
  <2>1. x = w
    OBVIOUS
  <2> QED
    BY <1>1, <1>3, <1>4, <1>5, <1>6, <2>1 DEF WriterIsAlone, NextVersion, collectVars
<1> QED
  BY <1>1, <1>3, <1>5, <1>6, <1>7

(* The version that is committed is the next one of its document. *)
LEMMA OnlyWriterCommits ==
  ASSUME CollectionTypeOK, WritersAreNamed, DescriptorsAgree, WriterIsAlone,
         NEW w \in Writers, \A v \in Writers : v = w,
         Commit(w), ~ lost, UNCHANGED <<lost, replaced>>
  PROVE  DescriptorsAgree' /\ WriterIsAlone'
<1> DEFINE D == doc[w]
           N == NextVersion(w)
           H == hash[w]
<1>1. D \in Docs /\ N \in Versions /\ H \in Hashes /\ N = known[w] + 1
  BY DEF Commit, Committing, WritersAreNamed, NextVersion
<1>2. Promised = index /\ Promised' = index'
  BY DEF Promised
<1>3. index' = [rows    |-> [index.rows EXCEPT ![D] = [@ EXCEPT ![N] = H]],
                current |-> [index.current EXCEPT ![D] = N],
                objects |-> index.objects \cup {H}]
  BY DEF Commit, CollectionTypeOK, Index
<1>4. /\ phase' = [phase EXCEPT ![w] = "committed"]
      /\ UNCHANGED <<dir, stage, hash, copy, doc, known>>
      /\ stage[w] = "stored" /\ index.rows[D][N] = NoHash /\ phase[w] = "fetching"
  BY DEF Commit, Committing, Committed, storeVars
<1>5. known[w] <= index.current[D] /\ dir[H].desc.kind = "live"
  BY <1>4 DEF WriterIsAlone
<1> HIDE DEF D, N, H
<1>6. /\ index.rows \in [Docs -> [Versions -> Hashes \cup {NoHash}]]
      /\ index.current \in [Docs -> 0 .. MaxVersion] /\ index.objects \subseteq Hashes
      /\ known[w] \in 0 .. MaxVersion /\ MaxVersion \in Nat
      /\ phase \in [Writers -> {"rest", "fetching", "committed"}]
  BY MaxVersionAssumption DEF CollectionTypeOK, Index
<1>7. \A d \in Docs, v \in Versions :
        index'.rows[d][v] = IF d = D /\ v = N THEN H ELSE index.rows[d][v]
  BY <1>1, <1>3, <1>6
<1>8. \A d \in Docs : index'.current[d] = IF d = D THEN N ELSE index.current[d]
  BY <1>1, <1>3, <1>6
<1>9. N = index.current[D] + 1 /\ N \in Nat
  <2>1. ~ (N <= index.current[D])
    BY <1>1, <1>2, <1>4, NoHashAssumption DEF DescriptorsAgree, NumberedThrough
  <2> QED
    BY <1>1, <1>5, <1>6, <2>1 DEF Versions
<1>10. NumberedThrough(index')
  <2> SUFFICES ASSUME NEW d \in Docs, NEW v \in Versions
               PROVE  index'.rows[d][v] # NoHash <=> v <= index'.current[d]
    BY DEF NumberedThrough
  <2>1. index.rows[d][v] # NoHash <=> v <= index.current[d]
    BY <1>2 DEF DescriptorsAgree, NumberedThrough
  <2> QED
    BY <1>1, <1>6, <1>7, <1>8, <1>9, <2>1, NoHashAssumption DEF Versions
<1>11. \A h \in Hashes : \A r \in dir[h].desc.refs :
         r \in Docs \X Versions /\ index'.rows[r[1]][r[2]] = h
  <2> SUFFICES ASSUME NEW h \in Hashes, NEW r \in dir[h].desc.refs
               PROVE  r \in Docs \X Versions /\ index'.rows[r[1]][r[2]] = h
    OBVIOUS
  <2>1. r \in Docs \X Versions /\ index.rows[r[1]][r[2]] = h
    BY <1>2 DEF DescriptorsAgree
  <2>2. ~ (r[1] = D /\ r[2] = N)
    BY <1>4, <2>1, NoHashAssumption
  <2>3. r[1] \in Docs /\ r[2] \in Versions
    BY <2>1
  <2> QED
    BY <1>7, <2>1, <2>2, <2>3
<1>12. ASSUME NEW d \in Docs, NEW v \in Versions, index'.rows[d][v] # NoHash
       PROVE  \/ <<d, v>> \in dir[index'.rows[d][v]].desc.refs
              \/ \E x \in Writers :
                   phase'[x] = "committed" /\ doc[x] = d /\ NextVersion(x) = v
  <2>1. CASE d = D /\ v = N
    BY <1>4, <1>6, <2>1 DEF D, N
  <2>2. CASE ~ (d = D /\ v = N)
    <3>1. index'.rows[d][v] = index.rows[d][v]
      BY <1>7, <2>2
    <3>2. \A x \in Writers : phase[x] # "committed"
      BY <1>4
    <3> QED
      BY <1>2, <1>12, <3>1, <3>2 DEF DescriptorsAgree
  <2> QED
    BY <2>1, <2>2
<1>13. /\ \A h \in index'.objects : dir[h].desc.kind = "live"
       /\ \A h \in Hashes : dir[h].desc.kind = "live" \/ dir[h].desc = NoDescriptor
  BY <1>2, <1>3, <1>5 DEF DescriptorsAgree
<1>14. DescriptorsAgree'
  BY <1>2, <1>4, <1>10, <1>11, <1>12, <1>13 DEF DescriptorsAgree, NextVersion
<1>15. WriterIsAlone'
  <2> SUFFICES ASSUME NEW x \in Writers
               PROVE  WriterIsAlone!(x)'
    BY DEF WriterIsAlone
  <2>1. x = w
    OBVIOUS
  <2>2. /\ phase'[w] = "committed" /\ index'.rows[doc[w]][NextVersion(w)] = hash[w]
        /\ known[w] <= index'.current[doc[w]]
    BY <1>1, <1>4, <1>6, <1>7, <1>8, <1>9 DEF D, N, H
  <2> QED
    BY <1>4, <1>5, <2>1, <2>2 DEF WriterIsAlone, NextVersion, H
<1> QED
  BY <1>14, <1>15

LEMMA PromisedTypes ==
  ASSUME CollectionTypeOK, replaced \in Index
  PROVE  /\ \A d \in Docs, v \in Versions : Promised.rows[d][v] \in Hashes \cup {NoHash}
         /\ Promised.objects \cup index.objects \subseteq Hashes
         /\ \A d \in Docs : Promised.current[d] \in 0 .. MaxVersion
BY DEF CollectionTypeOK, Index, Promised

(* A collection that has the archive for itself, and is not interrupted. *)
LEMMA CollectingAlone ==
  ASSUME Faults \subseteq {"cleanup"}, \A v, w \in Writers : v = w,
         RebuildInvariant, Collecting
  PROVE  DescriptorsAgree' /\ WriterIsAlone' /\ RebuildIsUnderWay'
<1> USE DEF RebuildInvariant
<1>1. /\ ~ lost /\ job # "reindexing" /\ CollectionNext
      /\ UNCHANGED <<job, todo, newest, replaced, lost>>
  <2> ~ PowerCut
    BY DEF PowerCut, PowerLoss
  <2> QED
    BY DEF Collecting, reindexVars
<1>2. RebuildIsUnderWay'
  BY <1>1 DEF RebuildIsUnderWay
<1>3. Promised = index /\ replaced \in Index
  BY <1>1 DEF Promised, RebuildIsUnderWay
<1>4. ASSUME NEW w \in Writers,
             \/ \E d \in Docs : Discover(w, d)
             \/ \E h \in Hashes : Download(w, h)
             \/ CollectStep(w)
      PROVE  DescriptorsAgree' /\ WriterIsAlone'
  <2>1. \A v \in Writers : v = w
    OBVIOUS
  <2>2. CASE Commit(w)
    BY <1>1, <2>1, <2>2, OnlyWriterCommits
  <2>3. CASE StoreWork(w) /\ (UpsertWrite(w) \/ AttachWrite(w))
    <3>1. UNCHANGED index /\ UNCHANGED collectVars
      BY <2>3 DEF StoreWork, indexVars
    <3>2. /\ \A h \in Hashes \ {hash[w]} : dir'[h].desc = dir[h].desc
          /\ hash[w] \in Hashes /\ dir'[hash[w]].desc.kind = "live"
          /\ dir[hash[w]].desc.refs \subseteq dir'[hash[w]].desc.refs
          /\ \A r \in dir'[hash[w]].desc.refs \ dir[hash[w]].desc.refs :
               /\ phase[w] = "committed"
               /\ r = <<doc[w], NextVersion(w)>>
          /\ WriterIsAlone'
      BY <2>1, <2>3, <3>1, OnlyWriterDescribes
    <3>3. ASSUME phase[w] = "committed"
          PROVE  /\ <<doc[w], NextVersion(w)>> \in Docs \X Versions
                 /\ index.rows[doc[w]][NextVersion(w)] = hash[w]
      BY <3>3 DEF WritersAreNamed, WriterIsAlone
    <3>4. \A h \in Hashes :
            /\ dir[h].desc.refs \subseteq dir'[h].desc.refs
            /\ dir'[h].desc = dir[h].desc \/ dir'[h].desc.kind = "live"
            /\ \A r \in dir'[h].desc.refs \ dir[h].desc.refs :
                 r \in Docs \X Versions /\ Promised.rows[r[1]][r[2]] = h
      BY <1>3, <3>2, <3>3
    <3> QED
      BY <1>1, <1>3, <3>1, <3>2, <3>4, PromisedTypes, AgreementStays DEF collectVars
  <2>4. CASE ~ Commit(w) /\ ~ (StoreWork(w) /\ (UpsertWrite(w) \/ AttachWrite(w)))
    <3>1. \/ \E d \in Docs : Discover(w, d)
          \/ \E h \in Hashes : Download(w, h)
          \/ NotDownloaded(w)
          \/ WriteBody(w) /\ UNCHANGED collectVars
          \/ SyncPart(w) /\ UNCHANGED collectVars
          \/ Deduplicate(w) /\ UNCHANGED collectVars
          \/ NotLocated(w) /\ UNCHANGED collectVars
          \/ Rename(w) /\ UNCHANGED collectVars
          \/ SyncObject(w) /\ UNCHANGED collectVars
          \/ UpsertRead(w) /\ UNCHANGED collectVars
          \/ SyncDescriptor(w) /\ UNCHANGED collectVars
          \/ Touch(w)
          \/ CommitReplayed(w)
          \/ CommitConflict(w)
          \/ Attach(w)
          \/ AttachDone(w)
          \/ Fail(w)
      BY <1>4, <2>4 DEF CollectStep, StoreWork
    <3>2. UNCHANGED index
      BY <3>1, <1>4, <2>4 DEF CollectStep, Discover, Download, NotDownloaded, StoreWork, Touch,
                              CommitReplayed,
                  CommitConflict, Attach, AttachDone, Fail, indexVars
    <3>3. /\ \A h \in Hashes : dir'[h].desc = dir[h].desc
          /\ phase[w] = "committed" =>
               \/ phase'[w] = "committed" /\ doc'[w] = doc[w] /\ known'[w] = known[w]
               \/ <<doc[w], NextVersion(w)>> \in dir[hash[w]].desc.refs
               \/ dir[hash[w]].desc.kind = "tombstone"
          /\ WriterIsAlone'
      BY <2>1, <3>1, <3>2, OnlyWriterPrepares
    <3>4. ASSUME phase[w] = "committed"
          PROVE  /\ hash[w] \in Hashes /\ dir[hash[w]].desc.kind # "tombstone"
                 /\ index.rows[doc[w]][NextVersion(w)] = hash[w]
      BY <3>4 DEF WritersAreNamed, WriterIsAlone
    <3> QED
      BY <1>1, <1>3, <2>1, <3>2, <3>3, <3>4, PromisedTypes, AgreementStays
  <2> QED
    BY <2>2, <2>3, <2>4
<1>5. CASE ForeignCleanup /\ UNCHANGED <<indexVars, collectVars>>
  <2>1. UNCHANGED <<dir, stage, hash, copy, index, phase, doc, known>>
    BY <1>5 DEF ForeignCleanup, indexVars, collectVars
  <2>2. WriterIsAlone'
    BY <2>1 DEF WriterIsAlone, NextVersion
  <2> QED
    BY <1>1, <1>2, <1>3, <2>1, <2>2, PromisedTypes, AgreementStays
<1>6. ~ ProcessCrash /\ ~ PowerCut /\ ~ Checkpoint
  BY DEF ProcessCrash, Crash, PowerCut, PowerLoss, Checkpoint
<1> QED
  BY <1>1, <1>2, <1>4, <1>5, <1>6 DEF CollectionNext

(* What is done to the store and the index without a descriptor being touched. *)
LEMMA WriterUndisturbed ==
  ASSUME WriterIsAlone, UNCHANGED <<stage, hash, copy, collectVars>>,
         \A h \in Hashes : dir'[h].desc = dir[h].desc,
         WritersAreNamed,
         UNCHANGED index \/ Quiet
  PROVE  WriterIsAlone'
<1>1. CASE UNCHANGED index
  BY <1>1 DEF WriterIsAlone, WritersAreNamed, NextVersion, collectVars
<1>2. CASE Quiet
  BY <1>2 DEF Quiet, WriterIsAlone, collectVars
<1> QED
  BY <1>1, <1>2

(* The steps that neither reindex nor collect. *)
LEMMA LookingOn ==
  ASSUME RebuildInvariant,
         \/ \E h \in Hashes : Decay(h)
         \/ BeginVerify
         \/ ListBatch
         \/ \E h \in Hashes : VerifyObject(h)
         \/ \E h \in Hashes : SearchObject(h)
         \/ VerifyEnd
         \/ UNCHANGED maintenanceVars
  PROVE  DescriptorsAgree' /\ WriterIsAlone' /\ RebuildIsUnderWay'
<1> USE DEF RebuildInvariant
<1>1. /\ UNCHANGED <<stage, hash, copy, index, phase, doc, known, newest, replaced, lost>>
      /\ \A h \in Hashes : dir'[h].desc = dir[h].desc
      /\ job' = "reindexing" => job = "reindexing" /\ todo' = todo
  <2>1. CASE \E h \in Hashes : Decay(h)
    <3>1. PICK h \in Hashes, b \in {"torn", "absent"} :
            Decay(h) /\ SetDirectory(h, [dir[h] EXCEPT !.bytes = b])
      BY <2>1 DEF Decay
    <3>2. [dir[h] EXCEPT !.bytes = b].desc = dir[h].desc
      BY Rebyted DEF CollectionTypeOK, TypeOK
    <3> QED
      BY <3>1, <3>2 DEF Decay, SetDirectory, CollectionTypeOK, TypeOK, indexVars, collectVars,
                        reindexVars
  <2>2. CASE ~ \E h \in Hashes : Decay(h)
    BY <2>2 DEF BeginVerify, ListBatch, VerifyObject, SearchObject, VerifyEnd, ForgetVerification,
                maintenanceVars, vars, storeVars, indexVars, collectVars, reindexVars
  <2> QED
    BY <2>1, <2>2
<1>2. DescriptorsAgree'
  BY <1>1, PromisedTypes, AgreementStays DEF RebuildIsUnderWay
<1>3. WriterIsAlone'
  BY <1>1, WriterUndisturbed DEF collectVars
<1>4. RebuildIsUnderWay'
  BY <1>1 DEF RebuildIsUnderWay, Quiet, Scanned
<1> QED
  BY <1>2, <1>3, <1>4

(* The loss of the database, and the ends of a reindexing that does not finish. *)
LEMMA ReindexingSetAside ==
  ASSUME RebuildInvariant, LoseIndex \/ BeginReindex \/ ReindexKilled
  PROVE  DescriptorsAgree' /\ WriterIsAlone' /\ RebuildIsUnderWay'
<1> USE DEF RebuildInvariant
<1>1. MaxVersion \in Nat /\ NoVersion \in [Docs -> 0 .. MaxVersion]
  BY MaxVersionAssumption DEF NoVersion
<1>2. /\ UNCHANGED <<dir, stage, hash, copy, phase, doc, known>> /\ Quiet
      /\ Promised' = Promised
  BY DEF LoseIndex, BeginReindex, ReindexKilled, SetIndex, storeVars, collectVars, vars, indexVars,
         Promised, RebuildIsUnderWay
<1>3. index'.objects \subseteq index.objects
  BY DEF LoseIndex, BeginReindex, ReindexKilled, SetIndex, vars, indexVars, EmptyIndex
<1>4. DescriptorsAgree'
  BY <1>2, <1>3 DEF DescriptorsAgree, NumberedThrough, NextVersion
<1>5. WriterIsAlone'
  BY <1>2, WriterUndisturbed DEF collectVars
<1>6. CASE LoseIndex
  <2>1. /\ \A d \in Docs : index'.current[d] = 0
        /\ \A d \in Docs, v \in Versions : index'.rows[d][v] = NoHash
    BY <1>6 DEF LoseIndex, SetIndex, EmptyIndex
  <2>2. /\ job' = "none" /\ replaced' = index /\ newest' = newest
    BY <1>6 DEF LoseIndex
  <2>3. RebuildIsUnderWay'
    BY <1>2, <2>1, <2>2 DEF RebuildIsUnderWay, CollectionTypeOK, Quiet
  <2> QED
    BY <1>4, <1>5, <2>3
<1>7. CASE BeginReindex
  <2>1. /\ UNCHANGED <<index, lost>> /\ job' = "reindexing"
        /\ todo' = Scanned /\ newest' = NoVersion
        /\ replaced' = IF lost THEN replaced ELSE index
    BY <1>7 DEF BeginReindex, vars, indexVars
  <2>2. \A h \in Hashes \ Scanned : dir[h].desc.kind # "live" /\ dir[h].desc.refs = {}
    <3> SUFFICES ASSUME NEW h \in Hashes \ Scanned
                 PROVE  dir[h].desc.kind # "live" /\ dir[h].desc.refs = {}
      OBVIOUS
    <3>1. dir[h].desc.kind = "none"
      BY DEF Scanned
    <3>2. dir[h].desc = NoDescriptor
      BY <3>1 DEF DescriptorsAgree
    <3> QED
      BY <3>1, <3>2 DEF NoDescriptor
  <2>3. \A d \in Docs : newest'[d] = 0
    BY <2>1 DEF NoVersion
  <2>4. Scanned' = Scanned
    BY <1>2 DEF Scanned
  <2>5. RebuildIsUnderWay'
    BY <1>1, <1>2, <2>1, <2>2, <2>3, <2>4 DEF RebuildIsUnderWay, CollectionTypeOK, Quiet
  <2> QED
    BY <1>4, <1>5, <2>5
<1>8. CASE ReindexKilled
  <2>1. /\ UNCHANGED <<index, lost>> /\ job' = "none" /\ newest' = NoVersion
        /\ replaced' = IF lost THEN replaced ELSE EmptyIndex
    BY <1>8 DEF ReindexKilled, vars, indexVars
  <2>2. EmptyIndex \in Index
    BY <1>1 DEF EmptyIndex, Index, Versions
  <2>3. RebuildIsUnderWay'
    BY <1>1, <1>2, <2>1, <2>2 DEF RebuildIsUnderWay, Quiet
  <2> QED
    BY <1>4, <1>5, <2>3
<1> QED
  BY <1>6, <1>7, <1>8

(* A descriptor gives back its own rows and nothing else. *)
LEMMA ReindexingObject ==
  ASSUME RebuildInvariant, NEW h \in Hashes, ReindexObject(h)
  PROVE  DescriptorsAgree' /\ WriterIsAlone' /\ RebuildIsUnderWay'
<1> USE DEF RebuildInvariant
<1>1. /\ job = "reindexing" /\ h \in todo /\ h \in Scanned /\ Quiet
      /\ replaced \in Index /\ newest \in [Docs -> 0 .. MaxVersion] /\ index \in Index
  BY DEF ReindexObject, RebuildIsUnderWay, CollectionTypeOK
<1>2. dir[h].desc.kind = "live"
  BY <1>1 DEF Scanned, DescriptorsAgree, NoDescriptor
<1>3. /\ UNCHANGED <<dir, stage, hash, copy, phase, doc, known, job, replaced, lost>>
      /\ todo' = todo \ {h} /\ newest' = Accumulate(h) /\ index' = Inserted(h)
  BY <1>2 DEF ReindexObject, SetIndex, storeVars, collectVars
<1>4. ASSUME NEW g \in Hashes, NEW r \in dir[g].desc.refs
      PROVE  /\ r[1] \in Docs /\ r[2] \in Versions /\ r = <<r[1], r[2]>>
             /\ Promised.rows[r[1]][r[2]] = g
  <2>1. r \in Docs \X Versions /\ Promised.rows[r[1]][r[2]] = g
    BY DEF DescriptorsAgree
  <2> QED
    BY <2>1
<1>5. \A d \in Docs, v \in Versions :
        index.rows[d][v] \in {NoHash, Promised.rows[d][v]}
  BY DEF Promised, RebuildIsUnderWay
<1>6. /\ index' \in Index
      /\ index'.current = index.current
      /\ index'.objects = index.objects \cup {h}
      /\ \A d \in Docs, v \in Versions :
           index'.rows[d][v] = IF <<d, v>> \in dir[h].desc.refs /\ index.rows[d][v] = NoHash
                               THEN h ELSE index.rows[d][v]
  BY <1>1, <1>3, InsertedRows
<1>7. \A d \in Docs, v \in Versions :
        /\ <<d, v>> \in dir[h].desc.refs => index'.rows[d][v] = h
        /\ <<d, v>> \notin dir[h].desc.refs => index'.rows[d][v] = index.rows[d][v]
  <2> SUFFICES ASSUME NEW d \in Docs, NEW v \in Versions
               PROVE  /\ <<d, v>> \in dir[h].desc.refs => index'.rows[d][v] = h
                      /\ <<d, v>> \notin dir[h].desc.refs => index'.rows[d][v] = index.rows[d][v]
    OBVIOUS
  <2>1. ASSUME <<d, v>> \in dir[h].desc.refs
        PROVE  Promised.rows[d][v] = h
    <3>1. <<d, v>>[1] = d /\ <<d, v>>[2] = v
      OBVIOUS
    <3> QED
      BY <1>4, <2>1, <3>1
  <2> QED
    BY <1>5, <1>6, <2>1
<1>8. ASSUME ~ lost
      PROVE  index'.rows = index.rows
  <2>1. \A d \in Docs, v \in Versions : index'.rows[d][v] = index.rows[d][v]
    BY <1>4, <1>7, <1>8 DEF Promised
  <2>2. /\ index.rows \in [Docs -> [Versions -> Hashes \cup {NoHash}]]
        /\ index'.rows \in [Docs -> [Versions -> Hashes \cup {NoHash}]]
    BY <1>1, <1>6 DEF Index
  <2>3. \A d \in Docs : index'.rows[d] = index.rows[d]
    BY <2>1, <2>2
  <2> QED
    BY <2>2, <2>3
<1>9. /\ Promised'.rows = Promised.rows /\ Promised'.current = Promised.current
      /\ Promised'.objects \subseteq Promised.objects \cup {h}
  BY <1>3, <1>6, <1>8 DEF Promised
<1>10. DescriptorsAgree'
  <2>1. NumberedThrough(Promised)'
    BY <1>9 DEF DescriptorsAgree, NumberedThrough
  <2> QED
    BY <1>2, <1>3, <1>6, <1>9, <2>1 DEF DescriptorsAgree, NextVersion
<1>11. WriterIsAlone'
  BY <1>1, <1>3, WriterUndisturbed DEF collectVars
<1>12. /\ newest' \in [Docs -> 0 .. MaxVersion]
       /\ \A d \in Docs :
            /\ newest[d] <= newest'[d]
            /\ \A v \in Versions : <<d, v>> \in dir[h].desc.refs => v <= newest'[d]
            /\ newest'[d] = newest[d] \/ <<d, newest'[d]>> \in dir[h].desc.refs
  <2>1. Accumulate(h) \in [Docs -> 0 .. MaxVersion]
    BY <1>1, AccumulatesGreatest DEF Accumulate
  <2> QED
    BY <1>1, <1>3, <2>1, AccumulatesGreatest
<1>13. ASSUME NEW g \in Hashes \ todo'
       PROVE  /\ dir[g].desc.kind = "live" => g \in index'.objects
              /\ \A r \in dir[g].desc.refs :
                   index'.rows[r[1]][r[2]] = g /\ r[2] <= newest'[r[1]]
  <2>1. CASE g = h
    <3> SUFFICES ASSUME NEW r \in dir[h].desc.refs
                 PROVE  index'.rows[r[1]][r[2]] = h /\ r[2] <= newest'[r[1]]
      BY <1>6, <2>1
    <3>1. r[1] \in Docs /\ r[2] \in Versions /\ r = <<r[1], r[2]>>
      BY <1>4
    <3>2. r[2] <= newest'[r[1]] /\ index'.rows[r[1]][r[2]] = h
      BY <1>7, <1>12, <3>1
    <3> QED
      BY <3>2
  <2>2. CASE g # h
    <3>1. g \in Hashes \ todo
      BY <1>3, <2>2
    <3>2. dir[g].desc.kind = "live" => g \in index'.objects
      BY <1>1, <1>6, <3>1 DEF RebuildIsUnderWay
    <3> SUFFICES ASSUME NEW r \in dir[g].desc.refs
                 PROVE  index'.rows[r[1]][r[2]] = g /\ r[2] <= newest'[r[1]]
      BY <3>2
    <3>3. /\ r[1] \in Docs /\ r[2] \in Versions /\ r = <<r[1], r[2]>>
          /\ Promised.rows[r[1]][r[2]] = g
      BY <1>4
    <3>4. index.rows[r[1]][r[2]] = g /\ r[2] <= newest[r[1]]
      BY <1>1, <3>1 DEF RebuildIsUnderWay
    <3>5. <<r[1], r[2]>> \notin dir[h].desc.refs
      BY <1>4, <2>2, <3>3
    <3>6. r[2] <= newest'[r[1]]
      <4>1. /\ newest[r[1]] \in 0 .. MaxVersion /\ newest'[r[1]] \in 0 .. MaxVersion
            /\ newest[r[1]] <= newest'[r[1]] /\ MaxVersion \in Nat
        BY <1>1, <1>12, <3>3, MaxVersionAssumption
      <4> QED
        BY <3>3, <3>4, <4>1 DEF Versions
    <3> QED
      BY <1>7, <3>3, <3>4, <3>5, <3>6
  <2> QED
    BY <2>1, <2>2
<1>14. \A d \in Docs : newest'[d] # 0 => \E g \in Hashes : <<d, newest'[d]>> \in dir[g].desc.refs
  BY <1>1, <1>12 DEF RebuildIsUnderWay
<1>15. lost => /\ \A d \in Docs : index'.current[d] \in {0, replaced.current[d]}
               /\ \A d \in Docs, v \in Versions :
                    index'.rows[d][v] \in {NoHash, replaced.rows[d][v]}
  <2> HAVE lost
  <2>1. Promised = replaced
    BY DEF Promised
  <2>2. ASSUME NEW d \in Docs, NEW v \in Versions
        PROVE  index'.rows[d][v] \in {NoHash, replaced.rows[d][v]}
    <3>1. <<d, v>> \in dir[h].desc.refs => Promised.rows[d][v] = h
      <4>1. <<d, v>>[1] = d /\ <<d, v>>[2] = v
        OBVIOUS
      <4> QED
        BY <1>4, <4>1
    <3> QED
      BY <1>5, <1>7, <2>1, <3>1
  <2> QED
    BY <1>6, <2>2 DEF RebuildIsUnderWay
<1>16. ~ lost => /\ index'.rows = replaced.rows /\ index'.current = replaced.current
                 /\ replaced.objects \subseteq index'.objects
  BY <1>1, <1>6, <1>8 DEF RebuildIsUnderWay
<1>17. Quiet' /\ Scanned' = Scanned /\ todo' \subseteq Scanned
  BY <1>1, <1>3 DEF Quiet, Scanned, RebuildIsUnderWay
<1>18. RebuildIsUnderWay'
  BY <1>1, <1>3, <1>12, <1>13, <1>14, <1>15, <1>16, <1>17 DEF RebuildIsUnderWay
<1> QED
  BY <1>10, <1>11, <1>18

(* When no descriptor is left, what they gave back is all the rows, and the
   greatest version read of each document is its current one. *)
LEMMA DescriptorsGiveBack ==
  ASSUME RebuildInvariant, job = "reindexing", todo = {}
  PROVE  /\ index.rows = replaced.rows
         /\ \A d \in Docs : newest[d] = replaced.current[d]
         /\ replaced.objects \subseteq index.objects
<1> USE DEF RebuildInvariant
<1>1. /\ Quiet /\ MaxVersion \in Nat
      /\ replaced \in Index /\ newest \in [Docs -> 0 .. MaxVersion] /\ index \in Index
  BY MaxVersionAssumption DEF RebuildIsUnderWay, CollectionTypeOK
<1>2. /\ Promised.rows = replaced.rows /\ Promised.current = replaced.current
      /\ replaced.objects \subseteq Promised.objects
  BY DEF Promised, RebuildIsUnderWay
<1>3. ASSUME NEW d \in Docs, NEW v \in Versions, replaced.rows[d][v] # NoHash
      PROVE  index.rows[d][v] = replaced.rows[d][v] /\ v <= newest[d]
  <2>1. replaced.rows[d][v] \in Hashes
    BY <1>1, <1>3 DEF Index
  <2>2. \A w \in Writers : phase[w] # "committed"
    BY <1>1 DEF Quiet
  <2>3. <<d, v>> \in dir[replaced.rows[d][v]].desc.refs
    BY <1>2, <1>3, <2>2 DEF DescriptorsAgree
  <2>4. <<d, v>>[1] = d /\ <<d, v>>[2] = v
    OBVIOUS
  <2>5. \A r \in dir[replaced.rows[d][v]].desc.refs :
          index.rows[r[1]][r[2]] = replaced.rows[d][v] /\ r[2] <= newest[r[1]]
    BY <2>1 DEF RebuildIsUnderWay
  <2> QED
    BY <2>3, <2>4, <2>5
<1>4. index.rows = replaced.rows
  <2>1. \A d \in Docs, v \in Versions : index.rows[d][v] = replaced.rows[d][v]
    <3> SUFFICES ASSUME NEW d \in Docs, NEW v \in Versions
                 PROVE  index.rows[d][v] = replaced.rows[d][v]
      OBVIOUS
    <3>1. index.rows[d][v] \in {NoHash, replaced.rows[d][v]}
      BY DEF RebuildIsUnderWay
    <3> QED
      BY <1>3, <3>1
  <2>2. /\ index.rows \in [Docs -> [Versions -> Hashes \cup {NoHash}]]
        /\ replaced.rows \in [Docs -> [Versions -> Hashes \cup {NoHash}]]
    BY <1>1 DEF Index
  <2>3. \A d \in Docs : index.rows[d] = replaced.rows[d]
    BY <2>1, <2>2
  <2> QED
    BY <2>2, <2>3
<1>5. ASSUME NEW d \in Docs
      PROVE  newest[d] = replaced.current[d]
  <2>1. newest[d] \in 0 .. MaxVersion /\ replaced.current[d] \in 0 .. MaxVersion
    BY <1>1 DEF Index
  <2>2. \A v \in Versions : replaced.rows[d][v] # NoHash <=> v <= replaced.current[d]
    BY <1>2 DEF DescriptorsAgree, NumberedThrough
  <2>3. ASSUME newest[d] # 0
        PROVE  newest[d] <= replaced.current[d]
    <3>1. PICK h \in Hashes : <<d, newest[d]>> \in dir[h].desc.refs
      BY <2>3 DEF RebuildIsUnderWay
    <3>2. newest[d] \in Versions
      BY <1>1, <2>1, <2>3 DEF Versions
    <3>3. Promised.rows[<<d, newest[d]>>[1]][<<d, newest[d]>>[2]] = h
      BY <3>1 DEF DescriptorsAgree
    <3>4. replaced.rows[d][newest[d]] # NoHash
      BY <1>2, <3>3, NoHashAssumption
    <3> QED
      BY <2>2, <3>2, <3>4
  <2>4. ASSUME replaced.current[d] # 0
        PROVE  replaced.current[d] <= newest[d]
    <3>1. replaced.current[d] \in Versions /\ replaced.current[d] <= replaced.current[d]
      BY <1>1, <2>1, <2>4 DEF Versions
    <3> QED
      BY <1>3, <2>2, <3>1
  <2> QED
    BY <1>1, <2>1, <2>3, <2>4
<1>6. replaced.objects \subseteq index.objects
  <2> SUFFICES ASSUME NEW h \in replaced.objects
               PROVE  h \in index.objects
    OBVIOUS
  <2>1. h \in Hashes /\ dir[h].desc.kind = "live"
    BY <1>1, <1>2 DEF Index, DescriptorsAgree
  <2> QED
    BY <2>1 DEF RebuildIsUnderWay
<1> QED
  BY <1>4, <1>5, <1>6

(* The current version of one document is given back; that of an index which was
   not lost is there. *)
LEMMA ReindexingDocument ==
  ASSUME RebuildInvariant, NEW d \in Docs, ReindexDocument(d)
  PROVE  DescriptorsAgree' /\ WriterIsAlone' /\ RebuildIsUnderWay'
<1> USE DEF RebuildInvariant
<1>1. /\ job = "reindexing" /\ todo = {} /\ Quiet /\ index \in Index
      /\ newest[d] \notin {0, index.current[d]}
  BY DEF ReindexDocument, RebuildIsUnderWay, CollectionTypeOK
<1>2. UNCHANGED <<dir, stage, hash, copy, phase, doc, known, job, todo, newest, replaced, lost>>
  BY DEF ReindexDocument, SetIndex, storeVars, collectVars, reindexVars
<1>3. newest[d] = replaced.current[d]
  BY <1>1, DescriptorsGiveBack
<1>4. lost
  BY <1>1, <1>3 DEF RebuildIsUnderWay
<1>5. /\ index'.rows = index.rows /\ index'.objects = index.objects
      /\ index'.current = [index.current EXCEPT ![d] = newest[d]]
  BY <1>1 DEF ReindexDocument, SetIndex, Index
<1>6. Promised' = Promised
  BY <1>2, <1>4 DEF Promised
<1>7. DescriptorsAgree'
  BY <1>2, <1>5, <1>6 DEF DescriptorsAgree, NumberedThrough, NextVersion
<1>8. WriterIsAlone'
  BY <1>1, <1>2, WriterUndisturbed DEF collectVars
<1>9. \A e \in Docs : index'.current[e] \in {0, replaced.current[e]}
  BY <1>1, <1>3, <1>4, <1>5 DEF RebuildIsUnderWay, Index
<1>10. Quiet' /\ Scanned' = Scanned
  BY <1>1, <1>2 DEF Quiet, Scanned
<1>11. RebuildIsUnderWay'
  BY <1>1, <1>2, <1>4, <1>5, <1>9, <1>10 DEF RebuildIsUnderWay
<1> QED
  BY <1>7, <1>8, <1>11

(* At the end of a reindexing the whole index is there. *)
LEMMA ReindexingGivesBack ==
  ASSUME RebuildInvariant, ReindexEnd
  PROVE  /\ index'.rows = replaced.rows
         /\ index'.current = replaced.current
         /\ replaced.objects \subseteq index'.objects
         /\ DescriptorsAgree' /\ WriterIsAlone' /\ RebuildIsUnderWay'
<1> USE DEF RebuildInvariant
<1>1. /\ job = "reindexing" /\ todo = {} /\ Quiet
      /\ replaced \in Index /\ index \in Index /\ MaxVersion \in Nat
      /\ \A d \in Docs : newest[d] \in {0, index.current[d]}
  BY MaxVersionAssumption DEF ReindexEnd, RebuildIsUnderWay, CollectionTypeOK
<1>2. /\ UNCHANGED <<dir, stage, hash, copy, phase, doc, known, index>>
      /\ job' = "none" /\ lost' = FALSE /\ newest' = NoVersion /\ replaced' = EmptyIndex
  BY DEF ReindexEnd, vars, storeVars, indexVars, collectVars
<1>3. index.current = replaced.current
  <2>1. /\ replaced.current \in [Docs -> 0 .. MaxVersion]
        /\ index.current \in [Docs -> 0 .. MaxVersion]
    BY <1>1 DEF Index
  <2>2. ASSUME NEW d \in Docs
        PROVE  index.current[d] = replaced.current[d]
    <3>1. newest[d] = replaced.current[d] /\ newest[d] \in {0, index.current[d]}
      BY <1>1, DescriptorsGiveBack
    <3>2. index.current[d] \in {0, replaced.current[d]}
      BY <1>1 DEF RebuildIsUnderWay
    <3> QED
      BY <3>1, <3>2
  <2> QED
    BY <2>1, <2>2
<1>4. /\ Promised.rows = replaced.rows /\ Promised.current = replaced.current
      /\ Promised' = index'
  BY <1>1, <1>2 DEF Promised, RebuildIsUnderWay
<1>5. /\ index'.rows = replaced.rows /\ index'.current = replaced.current
      /\ index'.objects = index.objects /\ replaced.objects \subseteq index'.objects
  BY <1>1, <1>2, <1>3, DescriptorsGiveBack
<1>6. DescriptorsAgree'
  <2>1. NumberedThrough(Promised)'
    BY <1>4, <1>5 DEF DescriptorsAgree, NumberedThrough
  <2> QED
    BY <1>2, <1>4, <1>5, <2>1 DEF DescriptorsAgree, NextVersion
<1>7. WriterIsAlone'
  BY <1>1, <1>2, WriterUndisturbed DEF collectVars
<1>8. RebuildIsUnderWay'
  BY <1>1, <1>2 DEF RebuildIsUnderWay, NoVersion, EmptyIndex, Index, Versions
<1> QED
  BY <1>5, <1>6, <1>7, <1>8

LEMMA RebuildStep ==
  ASSUME Faults \subseteq {"cleanup"}, \A v, w \in Writers : v = w,
         RebuildInvariant, [MaintenanceNext]_maintenanceVars
  PROVE  RebuildInvariant'
<1>1. CollectionTypeOK' /\ WritersAreNamed'
  BY MaintenanceTypesStay DEF RebuildInvariant, RebuildIsUnderWay
<1>2. CASE Collecting
  BY <1>1, <1>2, CollectingAlone DEF RebuildInvariant
<1>3. CASE LoseIndex \/ BeginReindex \/ ReindexKilled
  BY <1>1, <1>3, ReindexingSetAside DEF RebuildInvariant
<1>4. CASE \E h \in Hashes : ReindexObject(h)
  BY <1>1, <1>4, ReindexingObject DEF RebuildInvariant
<1>5. CASE ReindexEnd \/ \E d \in Docs : ReindexDocument(d)
  BY <1>1, <1>5, ReindexingDocument, ReindexingGivesBack DEF RebuildInvariant
<1>6. CASE \/ \E h \in Hashes : Decay(h)
           \/ BeginVerify
           \/ ListBatch
           \/ \E h \in Hashes : VerifyObject(h)
           \/ \E h \in Hashes : SearchObject(h)
           \/ VerifyEnd
           \/ UNCHANGED maintenanceVars
  BY <1>1, <1>6, LookingOn DEF RebuildInvariant
<1> QED
  BY <1>2, <1>3, <1>4, <1>5, <1>6 DEF MaintenanceNext

LEMMA RebuildInit == MaintenanceInit => RebuildInvariant
<1> SUFFICES ASSUME MaintenanceInit
             PROVE  RebuildInvariant
  OBVIOUS
<1>1. /\ CollectionTypeOK /\ WritersAreNamed /\ replaced \in Index
      /\ newest \in [Docs -> 0 .. MaxVersion]
  BY MaintenanceTypesInit DEF MaintenanceTypeOK
<1>2. /\ index = EmptyIndex /\ lost = FALSE /\ job = "none" /\ Promised = EmptyIndex
      /\ \A h \in Hashes : dir[h].desc = NoDescriptor
      /\ \A w \in Writers : stage[w] = "idle" /\ phase[w] = "rest"
  BY DEF MaintenanceInit, CollectionInit, Init, EmptyDirectory, Promised
<1>3. /\ \A d \in Docs, v \in Versions : EmptyIndex.rows[d][v] = NoHash
      /\ \A d \in Docs : EmptyIndex.current[d] = 0
      /\ EmptyIndex.objects = {}
  BY DEF EmptyIndex
<1>4. NumberedThrough(EmptyIndex)
  BY <1>3, MaxVersionAssumption DEF NumberedThrough, Versions
<1>5. DescriptorsAgree
  BY <1>2, <1>3, <1>4 DEF DescriptorsAgree, NoDescriptor
<1>6. WriterIsAlone /\ RebuildIsUnderWay
  BY <1>1, <1>2 DEF WriterIsAlone, RebuildIsUnderWay
<1> QED
  BY <1>1, <1>5, <1>6 DEF RebuildInvariant

(* I-4, "le magasin reste auto-suffisant": as long as documents are collected one
   at a time by a process that is not interrupted between its commit and the
   descriptor, whatever is lost, rebuilt, damaged and verified beside it leaves
   every committed version listed by the descriptor of its content. *)
THEOREM StoreAlwaysSelfSufficient ==
  ASSUME Faults \subseteq {"cleanup"}, \A v, w \in Writers : v = w
  PROVE  MaintenanceSpec => []StoreSelfSufficient
<1>1. MaintenanceInit => RebuildInvariant
  BY RebuildInit
<1>2. RebuildInvariant /\ [MaintenanceNext]_maintenanceVars => RebuildInvariant'
  BY RebuildStep
<1>3. ASSUME RebuildInvariant
      PROVE  StoreSelfSufficient
  <2> SUFFICES ASSUME NEW d \in Docs, NEW v \in Versions, index.rows[d][v] # NoHash
               PROVE  \/ <<d, v>> \in dir[index.rows[d][v]].desc.refs
                      \/ \E w \in Writers :
                           phase[w] = "committed" /\ doc[w] = d /\ NextVersion(w) = v
    BY DEF StoreSelfSufficient
  <2>1. index.rows[d][v] = Promised.rows[d][v]
    BY <1>3 DEF RebuildInvariant, RebuildIsUnderWay, Promised
  <2> QED
    BY <1>3, <2>1 DEF RebuildInvariant, DescriptorsAgree
<1> QED
  BY <1>1, <1>2, <1>3, PTL DEF MaintenanceSpec

(* I-4: what lcf reindex gives back is the index, its rows and its current versions,
   whether the database was lost or is still there and however often the reindexing
   was killed - under the same two conditions. *)
THEOREM ReindexingRestoresIndex ==
  ASSUME Faults \subseteq {"cleanup"}, \A v, w \in Writers : v = w
  PROVE  MaintenanceSpec => RebuiltIndex
<1>1. MaintenanceInit => RebuildInvariant
  BY RebuildInit
<1>2. RebuildInvariant /\ [MaintenanceNext]_maintenanceVars => RebuildInvariant'
  BY RebuildStep
<1>3. RebuildInvariant /\ [MaintenanceNext]_maintenanceVars
        => [ReindexEnd =>
              /\ index'.rows = replaced.rows
              /\ index'.current = replaced.current
              /\ replaced.objects \subseteq index'.objects]_maintenanceVars
  BY ReindexingGivesBack
<1> QED
  BY <1>1, <1>2, <1>3, PTL DEF MaintenanceSpec, RebuiltIndex
=============================================================================
