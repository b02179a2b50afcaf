--------------------------- MODULE StartupProofs ---------------------------
(***************************************************************************)
(* Proofs about ProcessLock, Migrations and Startup: for any number of     *)
(* processes, kills, releases and edited files, the lock file excludes     *)
(* those that it is not taken from, and the schema of the index is what    *)
(* its journal says.                                                       *)
(***************************************************************************)
EXTENDS Startup, SequenceTheorems, TLAPS

(* A process inside acquire() or release() lives. *)
InsideIsAlive == \A p \in Pids : lockStep[p] # "out" => p \in alive

LockInvariant == LockTypeOK /\ InsideIsAlive /\ FileIsSafe

LEMMA LockInitially == LockInit => LockInvariant
BY DEF LockInit, LockInvariant, LockTypeOK, InsideIsAlive, FileIsSafe, LockSteps

(* What a lock file is made of. *)
LEMMA LockFiles ==
  ASSUME LockTypeOK
  PROVE  /\ \A p \in Pids, t \in {"empty", "whole"} :
              /\ [pid |-> p, text |-> t] \in LockFile
              /\ [pid |-> p, text |-> t] # NoLock
         /\ lockFile # NoLock =>
              /\ lockFile.pid \in Pids
              /\ lockFile.text \in {"empty", "whole"}
              /\ [lockFile EXCEPT !.text = "whole"] = [pid |-> lockFile.pid, text |-> "whole"]
BY NoLockAssumption DEF LockTypeOK, LockFile

(* A step that neither touches the file nor begins a removal. *)
LEMMA PassingKeepsLock ==
  ASSUME LockInvariant, NEW p \in Pids, NEW s \in LockSteps,
         LockGoto(p, s), UNCHANGED lockFile,
         s \notin {"removing", "deleting"},
         s \in {"writing", "held"} => FALSE,
         s = "checking" => lockStep[p] = "held",
         \A q \in Pids \ {p} : q \in alive => q \in alive',
         s # "out" => p \in alive',
         alive' \subseteq Pids,
         attempt' \in [Pids -> {0, 1}],
         challenged' \subseteq Pids,
         challenged \ {p} \subseteq challenged',
         s = "checking" => challenged' = challenged
  PROVE  LockInvariant'
BY DEF LockInvariant, LockTypeOK, InsideIsAlive, FileIsSafe, LockGoto, Creator, Removers

(* The file is created while nobody stands before a removal, or its creator is
   challenged. *)
LEMMA CreateKeepsLock ==
  ASSUME LockInvariant, NEW p \in Pids, CreateLock(p)
  PROVE  LockInvariant'
<1>1. /\ lockFile' \in LockFile
      /\ lockFile' # NoLock
      /\ lockFile'.pid = p
      /\ lockFile'.text = "empty"
  BY LockFiles DEF LockInvariant, CreateLock
<1>2. LockTypeOK' /\ InsideIsAlive'
  BY <1>1 DEF LockInvariant, LockTypeOK, InsideIsAlive, CreateLock, LockGoto, LockSteps
<1>3. ASSUME NEW q \in Pids \ challenged', lockStep'[q] \in {"writing", "held", "checking"}
      PROVE  q = p /\ Removers = {}
  BY <1>3 DEF LockInvariant, LockTypeOK, FileIsSafe, CreateLock, LockGoto, Creator
<1>4. Removers = {} => Removers' = {}
  BY DEF LockInvariant, LockTypeOK, Removers, CreateLock, LockGoto
<1>5. lockStep'[p] = "writing"
  BY DEF LockInvariant, LockTypeOK, CreateLock, LockGoto
<1> QED
  BY <1>1, <1>2, <1>3, <1>4, <1>5 DEF LockInvariant, FileIsSafe, Creator

(* The text goes into the file of its own process. *)
LEMMA WriteKeepsLock ==
  ASSUME LockInvariant, NEW p \in Pids, WriteLock(p)
  PROVE  LockInvariant'
<1>1. /\ Creator' = Creator
      /\ Creator = {p} => lockFile' # NoLock /\ lockFile'.text = "whole"
      /\ Creator # {p} => lockFile' = lockFile
      /\ lockFile' \in LockFile \cup {NoLock}
  BY LockFiles DEF LockInvariant, LockTypeOK, WriteLock, Creator
<1>2. /\ lockStep' = [lockStep EXCEPT ![p] = "held"]
      /\ lockStep[p] = "writing"
      /\ UNCHANGED <<alive, attempt, challenged>>
  BY DEF WriteLock, LockGoto
<1>3. LockTypeOK' /\ InsideIsAlive'
  BY <1>1, <1>2 DEF LockInvariant, LockTypeOK, InsideIsAlive, LockSteps
<1>4. Removers' = Removers
  BY <1>2 DEF LockInvariant, LockTypeOK, Removers
<1> QED
  BY <1>1, <1>2, <1>3, <1>4 DEF LockInvariant, LockTypeOK, InsideIsAlive, FileIsSafe

(* Whoever finds the lock abandoned challenges its creator, if it still lives. *)
LEMMA FindKeepsLock ==
  ASSUME LockInvariant, NEW p \in Pids, FindAbandoned(p)
  PROVE  LockInvariant'
<1>1. /\ lockStep' = [lockStep EXCEPT ![p] = "removing"]
      /\ challenged' = challenged \cup (Creator \cap alive)
      /\ UNCHANGED <<lockFile, alive, attempt>>
      /\ lockStep[p] = "reading"
  BY DEF FindAbandoned, LockGoto
<1>2. LockTypeOK' /\ InsideIsAlive'
  BY <1>1, LockFiles DEF LockInvariant, LockTypeOK, InsideIsAlive, LockSteps, Creator
<1>3. \A q \in Pids \ challenged' : lockStep'[q] \notin {"writing", "held", "checking"}
  BY <1>1 DEF LockInvariant, LockTypeOK, InsideIsAlive, FileIsSafe
<1> QED
  BY <1>2, <1>3 DEF LockInvariant, FileIsSafe

(* While somebody removes the file, no unchallenged process relies on it. *)
LEMMA RemovalKeepsLock ==
  ASSUME LockInvariant, NEW p \in Pids, RemoveLock(p) \/ ReleaseRemove(p)
  PROVE  LockInvariant'
<1>1. /\ lockStep[p] \in {"removing", "deleting"}
      /\ \E s \in {"opening", "out"} : lockStep' = [lockStep EXCEPT ![p] = s]
      /\ lockFile' = NoLock
      /\ attempt' \in [Pids -> {0, 1}]
      /\ UNCHANGED <<alive, challenged>>
  BY DEF LockInvariant, LockTypeOK, RemoveLock, ReleaseRemove, LockGoto
<1>2. LockTypeOK' /\ InsideIsAlive'
  BY <1>1 DEF LockInvariant, LockTypeOK, InsideIsAlive, LockSteps
<1>3. \A q \in Pids \ challenged : lockStep[q] \notin {"writing", "held", "checking"}
  BY <1>1 DEF LockInvariant, FileIsSafe, Removers
<1>4. \A q \in Pids \ challenged' : lockStep'[q] \notin {"writing", "held", "checking"}
  BY <1>1, <1>3 DEF LockInvariant, LockTypeOK
<1> QED
  BY <1>2, <1>4 DEF LockInvariant, FileIsSafe

(* A process deletes the file that names it; nobody else relies on that file. *)
LEMMA ReleaseReadKeepsLock ==
  ASSUME LockInvariant, NEW p \in Pids, ReleaseRead(p)
  PROVE  LockInvariant'
<1>1. CASE Holder = {p}
  <2>1. /\ lockStep' = [lockStep EXCEPT ![p] = "deleting"]
        /\ UNCHANGED <<lockFile, alive, attempt, challenged>>
        /\ lockStep[p] = "checking"
        /\ Creator = {p}
    BY <1>1 DEF ReleaseRead, LockGoto, Holder, Creator
  <2>2. LockTypeOK' /\ InsideIsAlive'
    BY <2>1 DEF LockInvariant, LockTypeOK, InsideIsAlive, LockSteps
  <2>3. \A q \in Pids \ challenged' : lockStep'[q] \notin {"writing", "held", "checking"}
    BY <2>1 DEF LockInvariant, LockTypeOK, FileIsSafe
  <2> QED
    BY <2>2, <2>3 DEF LockInvariant, FileIsSafe
<1>2. CASE Holder # {p}
  <2>1. LockGoto(p, "out") /\ UNCHANGED <<lockFile, alive, attempt, challenged>>
    BY <1>2 DEF ReleaseRead
  <2> QED
    BY <2>1, PassingKeepsLock DEF LockInvariant, LockTypeOK, LockSteps
<1> QED
  BY <1>1, <1>2

LEMMA AcquireKeepsLock ==
  ASSUME LockInvariant, NEW p \in Pids, Acquire(p)
  PROVE  LockInvariant'
<1>1. /\ LockGoto(p, "opening")
      /\ attempt' \in [Pids -> {0, 1}]
      /\ alive' = alive \cup {p}
      /\ challenged' = challenged \ {p}
      /\ UNCHANGED lockFile
  BY DEF LockInvariant, LockTypeOK, Acquire
<1> QED
  BY <1>1, PassingKeepsLock DEF LockInvariant, LockTypeOK, LockSteps

LEMMA AcquireStepKeepsLock ==
  ASSUME LockInvariant, NEW p \in Pids, AcquireStep(p) \/ WriteLockFails(p)
  PROVE  LockInvariant'
<1>1. CASE LockExists(p)
  BY <1>1, PassingKeepsLock DEF LockInvariant, LockTypeOK, InsideIsAlive, LockExists, LockSteps
<1>2. CASE Refuse(p) \/ WriteLockFails(p)
  BY <1>2, PassingKeepsLock DEF LockInvariant, LockTypeOK, Refuse, WriteLockFails, LockSteps
<1> QED
  BY <1>1, <1>2, CreateKeepsLock, WriteKeepsLock, FindKeepsLock, RemovalKeepsLock DEF AcquireStep

LEMMA ReleaseCheckKeepsLock ==
  ASSUME LockInvariant, NEW p \in Pids, ReleaseCheck(p)
  PROVE  LockInvariant'
BY PassingKeepsLock DEF LockInvariant, LockTypeOK, InsideIsAlive, ReleaseCheck, LockSteps

LEMMA ReleaseStepKeepsLock ==
  ASSUME LockInvariant, NEW p \in Pids, ReleaseStep(p)
  PROVE  LockInvariant'
BY ReleaseReadKeepsLock, RemovalKeepsLock DEF ReleaseStep

LEMMA EndKeepsLock ==
  ASSUME LockInvariant, NEW p \in Pids, EndProcess(p)
  PROVE  LockInvariant'
<1>1. /\ LockGoto(p, "out")
      /\ attempt' \in [Pids -> {0, 1}]
      /\ alive' = alive \ {p}
      /\ challenged' = challenged \ {p}
      /\ UNCHANGED lockFile
  BY DEF LockInvariant, LockTypeOK, EndProcess
<1> QED
  BY <1>1, PassingKeepsLock DEF LockInvariant, LockTypeOK, LockSteps

(* A process that takes no lock begins. *)
LEMMA BirthKeepsLock ==
  ASSUME LockInvariant, NEW p \in Pids, alive' = alive \cup {p},
         UNCHANGED <<lockFile, lockStep, attempt, challenged>>
  PROVE  LockInvariant'
BY DEF LockInvariant, LockTypeOK, InsideIsAlive, FileIsSafe, Creator, Removers

LEMMA StillKeepsLock ==
  ASSUME LockInvariant, UNCHANGED lockVars
  PROVE  LockInvariant'
BY DEF LockInvariant, LockTypeOK, InsideIsAlive, FileIsSafe, Creator, Removers, lockVars

(* The lock file leads to the file of whoever holds it unchallenged, and nobody
   is about to remove it, for any number of processes killed anywhere. *)
THEOREM LockIsInvariant == LockSpec => []LockInvariant
<1>1. LockInvariant /\ [LockNext]_lockVars => LockInvariant'
  BY AcquireKeepsLock, AcquireStepKeepsLock, ReleaseCheckKeepsLock, ReleaseStepKeepsLock,
     EndKeepsLock, StillKeepsLock DEF LockNext
<1> QED
  BY LockInitially, <1>1, PTL DEF LockSpec

(* Of two processes that hold the lock, one has had its file exposed to a
   removal. *)
THEOREM HoldersExclude == LockSpec => [](OneHolder /\ HolderIsNamed)
<1>1. LockInvariant => OneHolder /\ HolderIsNamed
  BY DEF LockInvariant, FileIsSafe, OneHolder, HolderIsNamed, Creator, Holder
<1> QED
  BY LockIsInvariant, <1>1, PTL

(* A living process whose pid a whole lock names is the one that wrote it. *)
LEMMA AcquireKeepsHolder ==
  ASSUME LockTypeOK, RefusedByHolder, ~ PidsReturn, NEW p \in Pids,
         Acquire(p) \/ AcquireStep(p) \/ WriteLockFails(p)
  PROVE  RefusedByHolder'
<1> USE DEF LockTypeOK, RefusedByHolder, Holder, LockGoto
<1>1. CASE Acquire(p)
  BY <1>1 DEF Acquire, PidIsFresh, Creator
<1>2. CASE CreateLock(p)
  BY <1>2, LockFiles DEF CreateLock
<1>3. CASE WriteLock(p)
  <2>1. Creator # {p} => lockFile' = lockFile
    BY <1>3 DEF WriteLock
  <2>2. Creator = {p} => Holder' = {p}
    BY <1>3, LockFiles DEF WriteLock, Creator
  <2>3. lockStep' = [lockStep EXCEPT ![p] = "held"] /\ alive' = alive
    BY <1>3 DEF WriteLock
  <2> QED
    BY <2>1, <2>2, <2>3
<1>4. CASE LockExists(p) \/ Refuse(p) \/ WriteLockFails(p)
  BY <1>4 DEF LockExists, Refuse, WriteLockFails
<1>5. CASE FindAbandoned(p) \/ RemoveLock(p)
  BY <1>5 DEF FindAbandoned, RemoveLock
<1> QED
  BY <1>1, <1>2, <1>3, <1>4, <1>5 DEF AcquireStep

LEMMA ReleaseKeepsHolder ==
  ASSUME LockTypeOK, RefusedByHolder, NEW p \in Pids,
         ReleaseCheck(p) \/ ReleaseStep(p) \/ EndProcess(p)
  PROVE  RefusedByHolder'
BY DEF LockTypeOK, RefusedByHolder, Holder, LockGoto, ReleaseCheck, ReleaseStep, ReleaseRead,
       ReleaseRemove, EndProcess

-----------------------------------------------------------------------------
(* What a process inside migrate() knows of the journal, although other
   processes append to it. *)
KnowsJournal(p) ==
  /\ step[p] \in {"verifying", "comparing", "loading", "applying"} =>
       next[p] \in Nat \ {0} /\ next[p] <= Len(records) + 1
  /\ step[p] \in {"loading", "applying"} =>
       /\ next[p] <= Len(files[p]) + 1
       /\ \A v \in 1 .. next[p] - 1 : records[v] = files[p][v]
  /\ step[p] = "applying" => next[p] <= Len(files[p])
  /\ step[p] \in {"checking", "ready"} =>
       \A v \in DOMAIN files[p] : v <= Len(records) /\ records[v] = files[p][v]

(* The types that the journal's invariant needs. *)
JournalTypeOK ==
  /\ directory \in FileSeq
  /\ records \in FileSeq
  /\ schema \in Seq(Migration)
  /\ step \in [Openers -> MigrationSteps]
  /\ files \in [Openers -> FileSeq]
  /\ next \in [Openers -> Nat]

MigrationsInvariant ==
  /\ JournalTypeOK
  /\ SchemaIsRecorded
  /\ \A p \in Openers : KnowsJournal(p)

LEMMA MigrationsInitially == MigrationsInit => MigrationsInvariant
<1> SUFFICES ASSUME MigrationsInit PROVE MigrationsInvariant
  OBVIOUS
<1>1. directory \in Seq(Texts)
  BY ReleasesAssumption, PublishedAssumption DEF MigrationsInit
<1>2. \A p \in Openers : step[p] = "out"
  BY DEF MigrationsInit
<1>3. JournalTypeOK
  BY <1>1 DEF MigrationsInit, JournalTypeOK, MigrationSteps, FileSeq
<1>4. SchemaIsRecorded
  <2>1. DOMAIN records = {} /\ schema = <<>> /\ DOMAIN schema = {}
    BY DEF MigrationsInit
  <2> QED
    BY <2>1 DEF SchemaIsRecorded
<1> QED
  BY <1>2, <1>3, <1>4 DEF MigrationsInvariant, KnowsJournal

(* A journal that has grown still says what a process knows of it. *)
LEMMA GrowthKeepsKnowledge ==
  ASSUME JournalTypeOK, NEW p \in Openers, KnowsJournal(p),
         records' \in Seq(Texts), Len(records) <= Len(records'),
         \A v \in DOMAIN records : records'[v] = records[v],
         step'[p] = step[p], next'[p] = next[p], files'[p] = files[p]
  PROVE  KnowsJournal(p)'
<1>1. /\ records \in Seq(Texts)
      /\ next[p] \in Nat
      /\ files[p] \in Seq(Texts)
      /\ DOMAIN records = 1 .. Len(records)
      /\ Len(records) \in Nat
      /\ DOMAIN files[p] = 1 .. Len(files[p])
      /\ Len(files[p]) \in Nat
  BY DEF JournalTypeOK, FileSeq
<1>2. CASE step[p] \in {"verifying", "comparing", "loading", "applying"}
  <2>1. \A v \in 1 .. next[p] - 1 : v \in DOMAIN records
    BY <1>1, <1>2 DEF KnowsJournal
  <2>2. \A v \in 1 .. next[p] - 1 : records'[v] = records[v]
    BY <2>1
  <2>3. Len(records') \in Nat /\ next[p] <= Len(records') + 1
    BY <1>1, <1>2 DEF KnowsJournal
  <2>4. step'[p] \notin {"checking", "ready"}
    BY <1>2
  <2>5. step[p] \in {"loading", "applying"} =>
          /\ next[p] <= Len(files[p]) + 1
          /\ \A v \in 1 .. next[p] - 1 : records'[v] = files[p][v]
    BY <2>2 DEF KnowsJournal
  <2>6. step[p] = "applying" => next[p] <= Len(files[p])
    BY DEF KnowsJournal
  <2>7. next[p] \in Nat \ {0}
    BY <1>2 DEF KnowsJournal
  <2> QED
    BY <2>3, <2>4, <2>5, <2>6, <2>7 DEF KnowsJournal
<1>3. CASE step[p] \in {"checking", "ready"}
  <2>1. \A v \in DOMAIN files[p] : v \in DOMAIN records
    BY <1>1, <1>3 DEF KnowsJournal
  <2>2. \A v \in DOMAIN files[p] : v <= Len(records') /\ records'[v] = files[p][v]
    BY <1>1, <1>3, <2>1 DEF KnowsJournal
  <2> QED
    BY <1>3, <2>2 DEF KnowsJournal
<1> QED
  BY <1>2, <1>3 DEF KnowsJournal

(* The journal and the schema grow together, by the next migration. *)
LEMMA CommitAppends ==
  ASSUME MigrationsInvariant, NEW p \in Openers, Commit(p)
  PROVE  /\ next[p] = Len(records) + 1
         /\ next[p] <= Len(files[p])
         /\ records' \in Seq(Texts)
         /\ Len(records') = Len(records) + 1
         /\ \A v \in DOMAIN records : records'[v] = records[v]
         /\ records'[next[p]] = files[p][next[p]]
         /\ schema' \in Seq(Migration)
         /\ SchemaIsRecorded'
<1>1. /\ next[p] = Len(records) + 1
      /\ next[p] \in 1 .. Len(files[p])
      /\ files[p] \in Seq(Texts)
      /\ records \in Seq(Texts)
  BY DEF MigrationsInvariant, JournalTypeOK, KnowsJournal, Commit, FileSeq
<1>2. files[p][next[p]] \in Texts
  BY <1>1
<1>3. /\ records' = Append(records, files[p][next[p]])
      /\ schema' = Append(schema, <<next[p], files[p][next[p]]>>)
  BY DEF Commit, Current
<1>4. /\ records' \in Seq(Texts)
      /\ Len(records') = Len(records) + 1
      /\ \A v \in DOMAIN records : records'[v] = records[v]
      /\ records'[next[p]] = files[p][next[p]]
  BY <1>1, <1>2, <1>3
<1>5. /\ schema \in Seq(Migration)
      /\ Len(schema) = Len(records)
      /\ \A v \in 1 .. Len(records) : schema[v] = <<v, records[v]>>
  BY <1>1 DEF MigrationsInvariant, JournalTypeOK, SchemaIsRecorded
<1>6. <<next[p], files[p][next[p]]>> \in Migration
  BY <1>1, <1>2 DEF Migration
<1>7. /\ schema' \in Seq(Migration)
      /\ Len(schema') = Len(records')
      /\ \A v \in 1 .. Len(records') : schema'[v] = <<v, records'[v]>>
  BY <1>1, <1>3, <1>4, <1>5, <1>6
<1>8. SchemaIsRecorded'
  <2>1. DOMAIN records' = 1 .. Len(records') /\ DOMAIN schema' = 1 .. Len(schema')
    BY <1>4, <1>7
  <2> QED
    BY <1>7, <2>1 DEF SchemaIsRecorded
<1> QED
  BY <1>1, <1>4, <1>7, <1>8

(* What a process that loads the files again knows: below the version that it has
   read the texts that it verified, above it those of the directory. *)
LEMMA LoadedTexts ==
  ASSUME MigrationsInvariant, NEW p \in Openers, Load(p)
  PROVE  /\ files' = [files EXCEPT ![p] = files'[p]]
         /\ files'[p] \in Seq(Texts)
         /\ next[p] <= Len(files'[p]) + 1
         /\ Pending(p) # <<>> => next[p] <= Len(files'[p])
         /\ Pending(p) = <<>> => Len(files'[p]) = next[p] - 1
         /\ \A v \in 1 .. next[p] - 1 : records[v] = files'[p][v]
<1> DEFINE n == next[p]
           known == SubSeq(files[p], 1, n - 1)
<1>1. /\ n \in Nat \ {0}
      /\ n <= Len(files[p]) + 1
      /\ \A v \in 1 .. n - 1 : records[v] = files[p][v]
      /\ files \in [Openers -> Seq(Texts)]
      /\ directory \in Seq(Texts)
      /\ files' = [files EXCEPT ![p] = known \o Pending(p)]
  BY DEF MigrationsInvariant, JournalTypeOK, KnowsJournal, Load, FileSeq
<1>2. files[p] \in Seq(Texts) /\ Len(files[p]) \in Nat
  BY <1>1
<1>3. /\ known \in Seq(Texts)
      /\ Len(known) = n - 1
      /\ \A v \in 1 .. n - 1 : known[v] = files[p][v]
  <2>1. 1 .. n - 1 \subseteq 1 .. Len(files[p])
    BY <1>1, <1>2
  <2>2. \A v \in 1 .. n - 1 : v \in 1 .. Len(files[p])
    BY <2>1
  <2> QED
    BY <1>1, <1>2, <2>1, <2>2, SubSeqProperties
<1>4. Pending(p) \in Seq(Texts)
  <2>1. \A v \in n .. Len(directory) : v \in 1 .. Len(directory)
    BY <1>1
  <2> QED
    BY <1>1, <2>1, SubSeqProperties DEF Pending
<1>5. /\ Len(Pending(p)) \in Nat
      /\ Pending(p) # <<>> => Len(Pending(p)) > 0
      /\ Pending(p) = <<>> => Len(Pending(p)) = 0
  BY <1>4, EmptySeq
<1>6. files'[p] = known \o Pending(p)
  BY <1>1
<1> HIDE DEF known
<1>7. /\ files'[p] \in Seq(Texts)
      /\ Len(files'[p]) = n - 1 + Len(Pending(p))
      /\ \A v \in 1 .. n - 1 : files'[p][v] = known[v]
  <2>1. /\ known \o Pending(p) \in Seq(Texts)
        /\ Len(known \o Pending(p)) = Len(known) + Len(Pending(p))
        /\ \A v \in 1 .. Len(known) + Len(Pending(p)) :
             v <= Len(known) => (known \o Pending(p))[v] = known[v]
    BY <1>3, <1>4, ConcatProperties
  <2>2. \A v \in 1 .. n - 1 : v \in 1 .. Len(known) + Len(Pending(p)) /\ v <= Len(known)
    BY <1>1, <1>3, <1>5
  <2> QED
    BY <1>3, <1>6, <2>1, <2>2
<1> QED
  BY <1>1, <1>3, <1>5, <1>6, <1>7

LEMMA CommitKeepsMigrations ==
  ASSUME MigrationsInvariant, NEW p \in Openers, Commit(p)
  PROVE  MigrationsInvariant'
<1>1. /\ UNCHANGED <<directory, files>>
      /\ next' = [next EXCEPT ![p] = next[p] + 1]
      /\ \E s \in {"checking", "applying"} : step' = [step EXCEPT ![p] = s]
      /\ JournalTypeOK
  BY DEF MigrationsInvariant, Commit, MigrateGoto
<1>2. JournalTypeOK'
  <2>1. next' \in [Openers -> Nat] /\ step' \in [Openers -> MigrationSteps]
    BY <1>1 DEF JournalTypeOK, MigrationSteps
  <2>2. records' \in Seq(Texts) /\ schema' \in Seq(Migration)
    BY CommitAppends
  <2> QED
    BY <1>1, <2>1, <2>2 DEF JournalTypeOK, FileSeq
<1>3. ASSUME NEW q \in Openers
      PROVE  KnowsJournal(q)'
  <2>1. CASE q # p
    <3>1. step'[q] = step[q] /\ next'[q] = next[q] /\ files'[q] = files[q]
      BY <1>1, <1>3, <2>1 DEF JournalTypeOK
    <3>2. /\ records' \in Seq(Texts)
          /\ Len(records) <= Len(records')
          /\ \A v \in DOMAIN records : records'[v] = records[v]
      BY <1>1, CommitAppends DEF JournalTypeOK, FileSeq
    <3> QED
      BY <1>1, <1>3, <3>1, <3>2, GrowthKeepsKnowledge DEF MigrationsInvariant
  <2>2. CASE q = p
    <3>1. /\ next'[p] = next[p] + 1
          /\ files' = files
          /\ step'[p] = IF next[p] = Len(files[p]) THEN "checking" ELSE "applying"
          /\ files[p] \in Seq(Texts) /\ next[p] \in Nat \ {0} /\ records \in Seq(Texts)
      BY DEF MigrationsInvariant, JournalTypeOK, Commit, MigrateGoto, KnowsJournal, FileSeq
    <3>2. \A v \in 1 .. next[p] : records'[v] = files[p][v]
      <4>1. \A v \in 1 .. next[p] - 1 : records[v] = files[p][v]
        BY DEF MigrationsInvariant, KnowsJournal, Commit
      <4>2. next[p] = Len(records) + 1
        BY CommitAppends
      <4>3. \A v \in 1 .. next[p] - 1 : v \in DOMAIN records
        BY <3>1, <4>2
      <4> QED
        BY <3>1, <4>1, <4>2, <4>3, CommitAppends
    <3>3. /\ next[p] = Len(records')
          /\ next[p] <= Len(files[p])
          /\ Len(files[p]) \in Nat
          /\ DOMAIN files[p] = 1 .. Len(files[p])
      BY <3>1, CommitAppends
    <3>4. CASE step'[p] = "checking"
      <4>1. next[p] = Len(files[p])
        BY <3>1, <3>4
      <4>2. \A v \in DOMAIN files[p] : v <= Len(records') /\ records'[v] = files[p][v]
        BY <3>1, <3>2, <3>3, <4>1
      <4> QED
        BY <2>2, <3>1, <3>4, <4>2 DEF KnowsJournal
    <3>5. CASE step'[p] = "applying"
      <4>1. next'[p] \in Nat \ {0} /\ next'[p] <= Len(records') + 1
        BY <3>1, <3>3
      <4>2. next'[p] <= Len(files'[p])
        BY <3>1, <3>3, <3>5
      <4>3. \A v \in 1 .. next'[p] - 1 : records'[v] = files'[p][v]
        BY <3>1, <3>2
      <4> QED
        BY <2>2, <3>5, <4>1, <4>2, <4>3 DEF KnowsJournal
    <3> QED
      BY <2>2, <3>1, <3>4, <3>5
  <2> QED
    BY <2>1, <2>2
<1> QED
  BY <1>2, <1>3, CommitAppends DEF MigrationsInvariant

(* Every other step of migrate() leaves the journal and the schema alone. *)
LEMMA ReadingKeepsMigrations ==
  ASSUME MigrationsInvariant, NEW p \in Openers,
         \/ ReadVersion(p) \/ LoadVerified(p) \/ Verify(p) \/ Load(p) \/ BeginTransaction(p)
         \/ BusyTimeout(p)
         \/ ExecuteSql(p) \/ ExecuteFails(p) \/ RecordFails(p) \/ CheckInvariants(p)
  PROVE  MigrationsInvariant'
<1>1. UNCHANGED <<directory, records, schema>>
  BY DEF ReadVersion, LoadVerified, Verify, Load, BeginTransaction, BusyTimeout, ExecuteSql,
         ExecuteFails, RecordFails, CheckInvariants, database
<1>2. JournalTypeOK'
  <2>1. /\ step' = step \/ \E s \in MigrationSteps : MigrateGoto(p, s)
        /\ \/ next' = next
           \/ next' = [next EXCEPT ![p] = Len(records) + 1]
           \/ next' = [next EXCEPT ![p] = 0]
        /\ \/ files' = files
           \/ files' = [files EXCEPT ![p] = <<>>]
           \/ files' = [files EXCEPT ![p] = directory]
           \/ Load(p)
    BY DEF MigrationSteps, ReadVersion, LoadVerified, Verify, Load, BeginTransaction, BusyTimeout,
           ExecuteSql, ExecuteFails, RecordFails, CheckInvariants, Throw
  <2>2. step' \in [Openers -> MigrationSteps]
    BY <2>1 DEF MigrationsInvariant, JournalTypeOK, MigrateGoto
  <2>3. next' \in [Openers -> Nat]
    <3>1. Len(records) + 1 \in Nat /\ 0 \in Nat /\ next \in [Openers -> Nat]
      BY DEF MigrationsInvariant, JournalTypeOK, FileSeq
    <3>2. CASE next' = [next EXCEPT ![p] = Len(records) + 1]
      BY <3>1, <3>2
    <3>3. CASE next' = [next EXCEPT ![p] = 0]
      BY <3>1, <3>3
    <3> QED
      BY <2>1, <3>1, <3>2, <3>3
  <2>4. files' \in [Openers -> FileSeq]
    <3>1. CASE Load(p)
      BY <3>1, LoadedTexts DEF MigrationsInvariant, JournalTypeOK, FileSeq
    <3>2. <<>> \in FileSeq
      BY DEF FileSeq
    <3> QED
      BY <2>1, <3>1, <3>2 DEF MigrationsInvariant, JournalTypeOK
  <2> QED
    BY <1>1, <2>2, <2>3, <2>4 DEF MigrationsInvariant, JournalTypeOK
<1>3. SchemaIsRecorded'
  BY <1>1 DEF MigrationsInvariant, SchemaIsRecorded
<1>4. ASSUME NEW q \in Openers, q # p
      PROVE  KnowsJournal(q)'
  <2>1. step'[q] = step[q] /\ next'[q] = next[q] /\ files'[q] = files[q]
    BY <1>4
       DEF MigrationsInvariant, JournalTypeOK, MigrateGoto, ReadVersion, LoadVerified, Verify, Load,
           BeginTransaction, BusyTimeout, ExecuteSql, ExecuteFails, RecordFails, CheckInvariants,
           Throw
  <2> QED
    BY <1>1, <1>4, <2>1 DEF MigrationsInvariant, KnowsJournal
<1>5. KnowsJournal(p)'
  <2> USE DEF MigrationsInvariant, JournalTypeOK, MigrateGoto, KnowsJournal, FileSeq
  <2>1. CASE ReadVersion(p)
    BY <1>1, <2>1 DEF ReadVersion
  <2>2. CASE LoadVerified(p)
    BY <1>1, <2>2 DEF LoadVerified
  <2>3. CASE Throw(p)
    BY <1>1, <2>3 DEF Throw
  <2>4. CASE Verify(p) /\ ~ Altered(p)
    <3>1. \A v \in 1 .. next[p] - 1 : v <= Len(files[p]) /\ records[v] = files[p][v]
      BY <2>4 DEF Verify, Altered
    <3>2. next[p] \in Nat \ {0} /\ next[p] <= Len(files[p]) + 1
      <4>1. next[p] \in Nat \ {0} /\ Len(files[p]) \in Nat
        BY <2>4 DEF Verify
      <4>2. next[p] # 1 => next[p] - 1 \in 1 .. next[p] - 1
        BY <4>1
      <4> QED
        BY <3>1, <4>1, <4>2
    <3> QED
      BY <1>1, <2>4, <3>1, <3>2 DEF Verify, Throw
  <2>5. CASE Load(p)
    <3>1. /\ next[p] \in Nat \ {0} /\ next[p] <= Len(records) + 1
          /\ next' = next
          /\ step'[p] = IF Pending(p) = <<>> THEN "ready" ELSE "applying"
      BY <2>5 DEF Load
    <3>2. \A v \in 1 .. next[p] - 1 : v <= Len(records)
      BY <3>1
    <3>3. Pending(p) = <<>> => DOMAIN files'[p] = 1 .. next[p] - 1
      <4>1. DOMAIN files'[p] = 1 .. Len(files'[p])
        BY <2>5, LoadedTexts
      <4> QED
        BY <2>5, <4>1, LoadedTexts
    <3> HIDE DEF MigrationsInvariant, JournalTypeOK, MigrateGoto
    <3> QED
      BY <1>1, <2>5, <3>1, <3>2, <3>3, LoadedTexts
  <2>6. CASE BeginTransaction(p) \/ ExecuteSql(p)
    BY <1>1, <2>6 DEF BeginTransaction, ExecuteSql
  <2>7. CASE CheckInvariants(p) /\ ~ Damaged
    BY <1>1, <2>7 DEF CheckInvariants
  <2>8. CASE BusyTimeout(p) \/ ExecuteFails(p) \/ RecordFails(p)
    BY <2>3, <2>8 DEF BusyTimeout, ExecuteFails, RecordFails
  <2> QED
    BY <2>1, <2>2, <2>3, <2>4, <2>5, <2>6, <2>7, <2>8 DEF Verify, CheckInvariants
<1> QED
  BY <1>2, <1>3, <1>4, <1>5 DEF MigrationsInvariant

LEMMA MigrateKeepsMigrations ==
  ASSUME MigrationsInvariant, NEW p \in Openers, MigrateStep(p)
  PROVE  MigrationsInvariant'
BY CommitKeepsMigrations, ReadingKeepsMigrations DEF MigrateStep

(* A connection that is closed or dies takes its transaction with it. *)
LEMMA DisconnectKeepsMigrations ==
  ASSUME MigrationsInvariant, NEW p \in Openers, Disconnect(p), UNCHANGED directory
  PROVE  MigrationsInvariant'
<1>1. /\ UNCHANGED <<records, schema, directory>>
      /\ step' = [step EXCEPT ![p] = "out"]
      /\ files' = [files EXCEPT ![p] = <<>>]
      /\ next' = [next EXCEPT ![p] = 0]
      /\ writer' \in {writer, NoWriter}
      /\ \/ executed' = executed /\ writer' = writer
         \/ executed' = FALSE
  BY DEF Disconnect, MigrateGoto, Rollback
<1>2. JournalTypeOK'
  BY <1>1 DEF MigrationsInvariant, JournalTypeOK, MigrationSteps, FileSeq
<1> QED
  BY <1>1, <1>2 DEF MigrationsInvariant, JournalTypeOK, SchemaIsRecorded, KnowsJournal

(* A process goes to migrate(). *)
LEMMA StartKeepsMigrations ==
  ASSUME MigrationsInvariant, NEW p \in Openers, MigrateGoto(p, "starting"),
         UNCHANGED <<directory, files, next, database>>
  PROVE  MigrationsInvariant'
BY DEF MigrationsInvariant, JournalTypeOK, MigrationSteps, MigrateGoto, database,
       SchemaIsRecorded, KnowsJournal

(* Whatever the operator does to the directory, what a process knows is what it
   has read. *)
LEMMA OperatorKeepsMigrations ==
  ASSUME MigrationsInvariant, InstallRelease \/ EditFile
  PROVE  MigrationsInvariant'
<1> USE DEF MigrationsInvariant, JournalTypeOK, FileSeq
<1>1. directory' \in Seq(Texts)
  <2>1. CASE directory' = Append(directory, Published)
    BY <2>1, PublishedAssumption
  <2>2. CASE directory' = SubSeq(directory, 1, Len(directory) - 1) /\ Len(directory) > Oldest
    BY <2>2, ReleasesAssumption, SubSeqProperties
  <2>3. ASSUME NEW v \in DOMAIN directory, NEW x \in Texts,
               directory' = [directory EXCEPT ![v] = x]
        PROVE  directory' \in Seq(Texts)
    BY <2>3, ExceptSeq
  <2> QED
    BY <2>1, <2>2, <2>3 DEF InstallRelease, EditFile
<1>2. UNCHANGED <<records, schema, step, files, next>>
  BY DEF InstallRelease, EditFile, database
<1>3. \A p \in Openers : KnowsJournal(p)'
  BY <1>2 DEF KnowsJournal
<1> QED
  BY <1>1, <1>2, <1>3 DEF SchemaIsRecorded

LEMMA StillKeepsMigrations ==
  ASSUME MigrationsInvariant, UNCHANGED migrationVars
  PROVE  MigrationsInvariant'
BY DEF MigrationsInvariant, JournalTypeOK, SchemaIsRecorded, KnowsJournal, migrationVars

-----------------------------------------------------------------------------
(* An exclusive command that touches the data directory holds the lock. *)
WorksUnderLock ==
  \A p \in exclusive :
    /\ at[p] # "none"
    /\ Touching(p) => lockStep[p] = "held"

StartupInvariant ==
  /\ LockInvariant
  /\ MigrationsInvariant
  /\ at \in [Pids -> Places]
  /\ exclusive \subseteq Pids
  /\ WorksUnderLock

LEMMA StartupInitially == StartupInit => StartupInvariant
BY LockInitially, MigrationsInitially
   DEF StartupInit, StartupInvariant, Places, WorksUnderLock

LEMMA LockOfOthers ==
  ASSUME LockInvariant, NEW p \in Pids, NEW q \in Pids \ {p},
         Acquire(p) \/ AcquireStep(p) \/ WriteLockFails(p) \/ ReleaseCheck(p)
           \/ ReleaseStep(p) \/ EndProcess(p)
  PROVE  lockStep'[q] = lockStep[q]
BY DEF LockInvariant, LockTypeOK, LockGoto, Acquire, AcquireStep, CreateLock, LockExists,
       WriteLock, FindAbandoned, Refuse, RemoveLock, WriteLockFails, ReleaseCheck, ReleaseStep,
       ReleaseRead, ReleaseRemove, EndProcess

(* The lock and the place of a process change together. *)
LEMMA StepKeepsWork ==
  ASSUME StartupInvariant, NEW p \in Pids,
         \/ LaunchExclusive(p) \/ LaunchShared(p) \/ StartStep(p) \/ InitFails(p)
         \/ EndWork(p) \/ Kill(p)
  PROVE  at' \in [Pids -> Places] /\ exclusive' \subseteq Pids /\ WorksUnderLock'
<1> USE DEF StartupInvariant, Places, Place, WorksUnderLock, Touching
<1>1. CASE LaunchExclusive(p)
  BY <1>1, LockOfOthers DEF LaunchExclusive
<1>2. CASE LaunchShared(p)
  BY <1>2 DEF LaunchShared
<1>3. CASE TakeLock(p)
  BY <1>3, LockOfOthers DEF TakeLock
<1>4. CASE InitStore(p) \/ InitFails(p) \/ Migrate(p) \/ EndWork(p)
  BY <1>4 DEF InitStore, InitFails, Migrate, EndWork, lockVars
<1>5. CASE Close(p)
  BY <1>5, LockOfOthers DEF Close, lockVars
<1>6. CASE ReleaseLock(p)
  BY <1>6, LockOfOthers DEF ReleaseLock, startVars
<1>7. CASE Exit(p) \/ Kill(p)
  BY <1>7, LockOfOthers DEF Exit, Kill
<1> QED
  BY <1>1, <1>2, <1>3, <1>4, <1>5, <1>6, <1>7 DEF StartStep

LEMMA StepKeepsStartup ==
  ASSUME StartupInvariant, NEW p \in Pids,
         \/ LaunchExclusive(p) \/ LaunchShared(p) \/ StartStep(p) \/ InitFails(p)
         \/ EndWork(p) \/ Kill(p)
  PROVE  StartupInvariant'
<1>1. p \in Openers
  BY SameProcesses
<1>2. LockInvariant'
  BY AcquireKeepsLock, AcquireStepKeepsLock, ReleaseCheckKeepsLock, ReleaseStepKeepsLock,
     EndKeepsLock, BirthKeepsLock, StillKeepsLock
     DEF StartupInvariant, LaunchExclusive, LaunchShared, StartStep, TakeLock, InitStore, Migrate,
         Close, ReleaseLock, Exit, InitFails, EndWork, Kill
<1>3. MigrationsInvariant'
  BY <1>1, MigrateKeepsMigrations, DisconnectKeepsMigrations, StartKeepsMigrations,
     StillKeepsMigrations
     DEF StartupInvariant, LaunchExclusive, LaunchShared, StartStep, TakeLock, InitStore, Migrate,
         Close, ReleaseLock, Exit, InitFails, EndWork, Kill
<1> QED
  BY <1>2, <1>3, StepKeepsWork DEF StartupInvariant

(* Whatever processes open the data directory, however they die and whatever the
   operator does to the files of the migrations. *)
THEOREM StartupIsInvariant == StartupSpec => []StartupInvariant
<1>1. StartupInvariant /\ [StartupNext]_allVars => StartupInvariant'
  <2> SUFFICES ASSUME StartupInvariant, [StartupNext]_allVars
               PROVE  StartupInvariant'
    OBVIOUS
  <2>1. CASE Operator
    BY <2>1, OperatorKeepsMigrations, StillKeepsLock
       DEF Operator, StartupInvariant, startVars, WorksUnderLock, Touching, lockVars
  <2>2. CASE UNCHANGED allVars
    BY <2>2, StillKeepsMigrations, StillKeepsLock
       DEF allVars, StartupInvariant, startVars, WorksUnderLock, Touching, lockVars
  <2> QED
    BY <2>1, <2>2, StepKeepsStartup DEF StartupNext
<1> QED
  BY StartupInitially, <1>1, PTL DEF StartupSpec

(* "rien ne doit toucher tmp/ avant d'etre sur qu'aucun autre processus n'y
   travaille", among the commands that take the lock. *)
THEOREM ExclusiveCommandsExclude == StartupSpec => []WorkIsExclusive
<1>1. StartupInvariant => WorkIsExclusive
  BY DEF StartupInvariant, LockInvariant, FileIsSafe, WorksUnderLock, WorkIsExclusive, Touching,
         Creator
<1> QED
  BY StartupIsInvariant, <1>1, PTL

(* A command is refused by a living holder only. *)
THEOREM OnlyHoldersRefuse ==
  ASSUME ~ PidsReturn
  PROVE  StartupSpec => []RefusedByHolder
<1>1. StartupInit => RefusedByHolder
  BY DEF StartupInit, LockInit, RefusedByHolder, Holder
<1>2. StartupInvariant /\ RefusedByHolder /\ [StartupNext]_allVars => RefusedByHolder'
  <2> SUFFICES ASSUME StartupInvariant, RefusedByHolder, [StartupNext]_allVars
               PROVE  RefusedByHolder'
    OBVIOUS
  <2>1. ASSUME UNCHANGED lockVars
        PROVE  RefusedByHolder'
    BY <2>1 DEF RefusedByHolder, Holder, lockVars
  <2>2. ASSUME NEW p \in Pids, LaunchShared(p)
        PROVE  RefusedByHolder'
    BY <2>2 DEF LaunchShared, RefusedByHolder, Holder, PidIsFresh, Creator
  <2>3. ASSUME NEW p \in Pids, LaunchExclusive(p) \/ TakeLock(p)
        PROVE  RefusedByHolder'
    BY <2>3, AcquireKeepsHolder DEF StartupInvariant, LockInvariant, LaunchExclusive, TakeLock
  <2>4. ASSUME NEW p \in Pids, Close(p) \/ ReleaseLock(p) \/ Exit(p) \/ Kill(p)
        PROVE  RefusedByHolder'
    BY <2>1, <2>4, ReleaseKeepsHolder
       DEF StartupInvariant, LockInvariant, Close, ReleaseLock, Exit, Kill
  <2> QED
    BY <2>1, <2>2, <2>3, <2>4
       DEF StartupNext, StartStep, InitStore, Migrate, InitFails, EndWork, Operator, allVars
<1> QED
  BY StartupIsInvariant, <1>1, <1>2, PTL DEF StartupSpec

(* The schema is what its journal says, however many processes apply migrations. *)
THEOREM SchemaAlwaysRecorded == StartupSpec => []SchemaIsRecorded
BY StartupIsInvariant, PTL DEF StartupInvariant, MigrationsInvariant

(* Nobody goes to work on a schema that it supposes: each migration of it that the
   process counts on has the text that this process verified or executed, although
   files are edited and releases installed between its two readings of them. *)
THEOREM ReadyAlwaysKnows == StartupSpec => []ReadyKnowsSchema
<1>1. StartupInvariant => ReadyKnowsSchema
  BY DEF StartupInvariant, MigrationsInvariant, KnowsJournal, ReadyKnowsSchema
<1> QED
  BY StartupIsInvariant, <1>1, PTL

(* Nothing that a start or its death does takes a migration from the journal or
   changes its checksum. *)
THEOREM RecordsStay == StartupSpec => RecordedForever
<1>1. StartupInvariant /\ [StartupNext]_allVars =>
        [/\ Len(records) <= Len(records')
         /\ \A v \in DOMAIN records : records'[v] = records[v]]_migrationVars
  <2> SUFFICES ASSUME StartupInvariant, StartupNext
               PROVE  /\ Len(records) <= Len(records')
                      /\ \A v \in DOMAIN records : records'[v] = records[v]
    BY DEF allVars, migrationVars
  <2>1. records \in Seq(Texts)
    BY DEF StartupInvariant, MigrationsInvariant, JournalTypeOK, FileSeq
  <2>2. ASSUME NEW p \in Openers, Commit(p)
        PROVE  /\ Len(records) <= Len(records')
               /\ \A v \in DOMAIN records : records'[v] = records[v]
    BY <2>1, <2>2, CommitAppends DEF StartupInvariant
  <2>3. records' = records \/ \E p \in Openers : Commit(p)
    BY SameProcesses
       DEF StartupNext, LaunchExclusive, LaunchShared, StartStep, TakeLock, InitStore, Migrate,
           Close, ReleaseLock, Exit, InitFails, EndWork, Kill, Operator, InstallRelease, EditFile,
           MigrateStep, ReadVersion, LoadVerified, Verify, Load, BeginTransaction, BusyTimeout,
           ExecuteSql, ExecuteFails, RecordFails, CheckInvariants, Disconnect, migrationVars,
           database
  <2> QED
    BY <2>1, <2>2, <2>3
<1> QED
  BY StartupIsInvariant, <1>1, PTL DEF StartupSpec, RecordedForever
=============================================================================
