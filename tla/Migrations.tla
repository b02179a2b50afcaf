---------------------------- MODULE Migrations ----------------------------
(***************************************************************************)
(* The migrations of the index: packages/kernel/src/db/migrations.ts, run  *)
(* by every command at its start, with or without the lock of the data     *)
(* directory.                                                              *)
(*                                                                         *)
(* A migration is a number and the text of its file.  Several processes    *)
(* apply them to one SQLite file, each in a transaction of its own, while  *)
(* an operator installs another release or edits a published file, at any  *)
(* time.  One load() reads the directory at once: a change in the middle of *)
(* it gives the process for each file a text that stood there.             *)
(***************************************************************************)
EXTENDS Naturals, Sequences

CONSTANTS
  Openers,    \* processes that open the index
  NoWriter,   \* nobody is inside a transaction
  Oldest, Newest,  \* numbers of migrations of the releases that may be installed
  Texts,      \* texts that a migration file may have
  Published,  \* the one it is published with
  Failing,    \* the migrations whose SQL fails, as <<version, text>>
  Damaging    \* those that leave rows which break a post-migration invariant

ASSUME NoWriterAssumption == NoWriter \notin Openers
ASSUME ReleasesAssumption == Oldest \in Nat /\ Newest \in Nat /\ Oldest <= Newest
ASSUME PublishedAssumption == Published \in Texts

VARIABLES
  directory,  \* the migration files in order, by their texts
  records,    \* schema_migrations: the checksum recorded for each version
  schema,     \* the migrations whose effects are committed, in order
  writer,     \* the process between BEGIN IMMEDIATE and COMMIT
  executed,   \* the writer has executed the SQL of its migration
  step,       \* step[p]: where p stands in migrate()
  files,      \* files[p]: the texts that p has read, to verify or to apply them
  next        \* next[p]: the first version that p has still to apply

migrationVars == <<directory, records, schema, writer, executed, step, files, next>>
database == <<records, schema, writer, executed>>

MigrationSteps == {"out", "starting", "verifying", "comparing", "loading", "applying",
                   "checking", "ready", "failed"}

Migration == Nat \X Texts
FileSeq == Seq(Texts)

MigrationsTypeOK ==
  /\ directory \in FileSeq
  /\ records \in FileSeq
  /\ schema \in Seq(Migration)
  /\ writer \in Openers \cup {NoWriter}
  /\ executed \in BOOLEAN
  /\ executed => writer # NoWriter
  /\ step \in [Openers -> MigrationSteps]
  /\ files \in [Openers -> FileSeq]
  /\ next \in [Openers -> Nat]

MigrationsInit ==
  /\ directory = [v \in 1 .. Oldest |-> Published]
  /\ records = <<>>
  /\ schema = <<>>
  /\ writer = NoWriter
  /\ executed = FALSE
  /\ step = [p \in Openers |-> "out"]
  /\ files = [p \in Openers |-> <<>>]
  /\ next = [p \in Openers |-> 0]

-----------------------------------------------------------------------------
MigrateGoto(p, s) == step' = [step EXCEPT ![p] = s]

(* What migrate() has read goes with its exception. *)
Throw(p) ==
  /\ MigrateGoto(p, "failed")
  /\ files' = [files EXCEPT ![p] = <<>>]
  /\ next' = [next EXCEPT ![p] = 0]

(* currentVersion(). *)
ReadVersion(p) ==
  /\ step[p] = "starting"
  /\ next' = [next EXCEPT ![p] = Len(records) + 1]
  /\ MigrateGoto(p, "verifying")
  /\ UNCHANGED <<directory, files, database>>

(* The load() of verifyChecksums(), which then reads the journal. *)
LoadVerified(p) ==
  /\ step[p] = "verifying"
  /\ files' = [files EXCEPT ![p] = directory]
  /\ MigrateGoto(p, "comparing")
  /\ UNCHANGED <<directory, next, database>>

(* What verifyChecksums() refuses: a recorded migration whose file is missing
   or has another text. *)
Altered(p) == ~ \A v \in DOMAIN records : v <= Len(files[p]) /\ files[p][v] = records[v]

(* Mutation of Verify: the checksums are not compared. *)
VerifyNothing(p) ==
  /\ step[p] = "comparing"
  /\ MigrateGoto(p, "loading")
  /\ UNCHANGED <<directory, files, next, database>>

Verify(p) ==
  /\ step[p] = "comparing"
  /\ \/ Altered(p) /\ Throw(p)
     \/ ~ Altered(p) /\ MigrateGoto(p, "loading") /\ UNCHANGED <<files, next>>
  /\ UNCHANGED <<directory, database>>

Pending(p) == SubSeq(directory, next[p], Len(directory))

(* The second load(), of the directory as it is by then: what is above the version
   read first is pending, below it p knows the texts that it verified.  The guard
   of the backup lets everything pass, as the application configures it. *)
Load(p) ==
  /\ step[p] = "loading"
  /\ files' = [files EXCEPT ![p] = SubSeq(@, 1, next[p] - 1) \o Pending(p)]
  /\ MigrateGoto(p, IF Pending(p) = <<>> THEN "ready" ELSE "applying")
  /\ UNCHANGED <<directory, next, database>>

(* BEGIN IMMEDIATE waits for the writer, or gives up after busy_timeout. *)
BeginTransaction(p) ==
  /\ step[p] = "applying"
  /\ writer = NoWriter
  /\ writer' = p
  /\ UNCHANGED <<directory, records, schema, executed, step, files, next>>

BusyTimeout(p) ==
  /\ step[p] = "applying"
  /\ writer \notin {NoWriter, p}
  /\ Throw(p)
  /\ UNCHANGED <<directory, database>>

Current(p) == <<next[p], files[p][next[p]]>>

(* Mutation of ExecuteSql: the statements commit by themselves. *)
ExecuteSqlCommitting(p) ==
  /\ step[p] = "applying"
  /\ writer = p
  /\ ~ executed
  /\ Current(p) \notin Failing
  /\ schema' = Append(schema, Current(p))
  /\ executed' = TRUE
  /\ UNCHANGED <<directory, records, writer, step, files, next>>

(* tx.exec(file.sql): the effects belong to the transaction. *)
ExecuteSql(p) ==
  /\ step[p] = "applying"
  /\ writer = p
  /\ ~ executed
  /\ Current(p) \notin Failing
  /\ executed' = TRUE
  /\ UNCHANGED <<directory, records, schema, writer, step, files, next>>

Rollback == writer' = NoWriter /\ executed' = FALSE

(* The SQL fails, of itself or because another process has executed it. *)
ExecuteFails(p) ==
  /\ step[p] = "applying"
  /\ writer = p
  /\ ~ executed
  /\ Current(p) \in Failing \/ next[p] <= Len(schema)
  /\ Rollback
  /\ Throw(p)
  /\ UNCHANGED <<directory, records, schema>>

(* Mutation of Commit: INSERT OR REPLACE, of a migration that may be replayed. *)
CommitReplacing(p) ==
  /\ step[p] = "applying"
  /\ writer = p
  /\ executed
  /\ records' = IF next[p] <= Len(records)
                THEN [records EXCEPT ![next[p]] = files[p][next[p]]]
                ELSE Append(records, files[p][next[p]])
  /\ schema' = IF next[p] <= Len(schema)
               THEN [schema EXCEPT ![next[p]] = Current(p)] ELSE Append(schema, Current(p))
  /\ Rollback
  /\ next' = [next EXCEPT ![p] = @ + 1]
  /\ MigrateGoto(p, IF next[p] = Len(files[p]) THEN "checking" ELSE "applying")
  /\ UNCHANGED <<directory, files>>

(* INSERT INTO schema_migrations, then COMMIT. *)
Commit(p) ==
  /\ step[p] = "applying"
  /\ writer = p
  /\ executed
  /\ next[p] > Len(records)
  /\ records' = Append(records, files[p][next[p]])
  /\ schema' = Append(schema, Current(p))
  /\ writer' = NoWriter
  /\ executed' = FALSE
  /\ next' = [next EXCEPT ![p] = @ + 1]
  /\ MigrateGoto(p, IF next[p] = Len(files[p]) THEN "checking" ELSE "applying")
  /\ UNCHANGED <<directory, files>>

(* The primary key refuses a version that another process has recorded. *)
RecordFails(p) ==
  /\ step[p] = "applying"
  /\ writer = p
  /\ executed
  /\ next[p] <= Len(records)
  /\ Rollback
  /\ Throw(p)
  /\ UNCHANGED <<directory, records, schema>>

Damaged == \E i \in DOMAIN schema : schema[i] \in Damaging

(* checkInvariants(): the migrations stay, the start fails. *)
CheckInvariants(p) ==
  /\ step[p] = "checking"
  /\ \/ Damaged /\ Throw(p)
     \/ ~ Damaged /\ MigrateGoto(p, "ready") /\ UNCHANGED <<files, next>>
  /\ UNCHANGED <<directory, database>>

(* The connection of p is closed, or dies: SQLite undoes its transaction. *)
Disconnect(p) ==
  /\ IF writer = p THEN Rollback ELSE UNCHANGED <<writer, executed>>
  /\ MigrateGoto(p, "out")
  /\ files' = [files EXCEPT ![p] = <<>>]
  /\ next' = [next EXCEPT ![p] = 0]
  /\ UNCHANGED <<records, schema>>

MigrateStep(p) ==
  \/ ReadVersion(p)
  \/ LoadVerified(p)
  \/ Verify(p)
  \/ Load(p)
  \/ BeginTransaction(p)
  \/ BusyTimeout(p)
  \/ ExecuteSql(p)
  \/ ExecuteFails(p)
  \/ Commit(p)
  \/ RecordFails(p)
  \/ CheckInvariants(p)

-----------------------------------------------------------------------------
(* The operator: another release, an edited file *)

InstallRelease ==
  /\ \/ /\ Len(directory) < Newest
        /\ directory' = Append(directory, Published)
     \/ /\ Len(directory) > Oldest
        /\ directory' = SubSeq(directory, 1, Len(directory) - 1)
  /\ UNCHANGED <<step, files, next, database>>

EditFile ==
  /\ \E v \in DOMAIN directory, t \in Texts : directory' = [directory EXCEPT ![v] = t]
  /\ UNCHANGED <<step, files, next, database>>

-----------------------------------------------------------------------------
(* The schema and its journal agree, whichever processes apply migrations
   together and wherever they are killed: every migration recorded was executed
   with the text recorded, once and in order, and none was executed that is not
   recorded. *)
SchemaIsRecorded == schema = [v \in DOMAIN records |-> <<v, records[v]>>]

(* A recorded migration stays as it is: "immuable". *)
RecordedForever ==
  [][/\ Len(records) <= Len(records')
     /\ \A v \in DOMAIN records : records'[v] = records[v]]_migrationVars

(* "le schema n'est jamais suppose": a process that goes to work has in the
   schema each migration recorded when it began, with the text that it verified,
   and above them each that it found pending, with the text that it executed,
   whatever other processes apply and the operator changes meanwhile. *)
ReadyKnowsSchema ==
  \A p \in Openers :
    step[p] = "ready" =>
      \A v \in DOMAIN files[p] : v <= Len(records) /\ records[v] = files[p][v]

(* "deux installations declarant la meme version de schema doivent avoir exactement
   le meme schema": what a process goes on with when it loads the files again is
   the release that it verified.  The code does not keep it: a file edited between
   the two readings is neither refused nor applied (README, section 3). *)
LoadedAsVerified ==
  [][\A p \in Openers :
       step[p] = "loading" /\ step'[p] \in {"ready", "applying"} =>
         \A v \in 1 .. next[p] - 1 :
           v <= Len(directory) /\ directory[v] = records[v]]_migrationVars

(* "Verifications post-migration ... Non decoratives": nobody works on an index
   that breaks them.  The code does not keep it: the start that finds the
   violation fails, the next one has nothing to apply and does not look (README,
   section 3). *)
ReadyIsUndamaged == \A p \in Openers : step[p] = "ready" => ~ Damaged
=============================================================================
