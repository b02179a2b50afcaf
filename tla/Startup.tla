------------------------------ MODULE Startup ------------------------------
(***************************************************************************)
(* The processes that open one data directory: LcfApp.open(), migrate()    *)
(* and close() of packages/cli/src/app.ts, as the commands call them.      *)
(*                                                                         *)
(* run, daemon and reindex are exclusive: they take the lock before they   *)
(* touch tmp/ and the index.  init, source, plugin, serve, status, verify  *)
(* and resume take no lock and migrate all the same.                       *)
(***************************************************************************)
EXTENDS ProcessLock, Migrations

CONSTANT StartFaults  \* what may go wrong: "io", "kill"

ASSUME SameProcesses == Openers = Pids

VARIABLES
  at,        \* at[p]: where the process with pid p stands
  exclusive  \* the processes whose command takes the lock

startVars == <<at, exclusive>>
allVars == <<lockVars, migrationVars, startVars>>

Places == {"none", "locking", "init", "migrating", "working", "closing", "ending"}

StartupTypeOK ==
  /\ LockTypeOK
  /\ MigrationsTypeOK
  /\ at \in [Pids -> Places]
  /\ exclusive \subseteq Pids
  /\ \A p \in Pids : p \in alive <=> at[p] # "none"

StartupInit ==
  /\ LockInit
  /\ MigrationsInit
  /\ at = [p \in Pids |-> "none"]
  /\ exclusive = {}

-----------------------------------------------------------------------------
Place(p, s) == at' = [at EXCEPT ![p] = s]

(* open() of an exclusive command begins with the lock. *)
LaunchExclusive(p) ==
  /\ at[p] = "none"
  /\ Acquire(p)
  /\ Place(p, "locking")
  /\ exclusive' = exclusive \cup {p}
  /\ UNCHANGED migrationVars

LaunchShared(p) ==
  /\ at[p] = "none"
  /\ PidIsFresh(p)
  /\ alive' = alive \cup {p}
  /\ Place(p, "init")
  /\ UNCHANGED <<lockFile, lockStep, attempt, challenged, exclusive, migrationVars>>

(* acquire() returns or throws. *)
TakeLock(p) ==
  /\ at[p] = "locking"
  /\ AcquireStep(p) \/ ("io" \in StartFaults /\ WriteLockFails(p))
  /\ Place(p, CASE lockStep'[p] = "held" -> "init"
                [] lockStep'[p] = "out" -> "ending"
                [] OTHER -> "locking")
  /\ UNCHANGED <<exclusive, migrationVars>>

(* store.init() empties tmp/, then the command calls migrate(). *)
InitStore(p) ==
  /\ at[p] = "init"
  /\ Place(p, "migrating")
  /\ MigrateGoto(p, "starting")
  /\ UNCHANGED <<lockVars, directory, files, next, database, exclusive>>

InitFails(p) ==
  /\ "io" \in StartFaults
  /\ at[p] = "init"
  /\ Place(p, "closing")
  /\ UNCHANGED <<lockVars, migrationVars, exclusive>>

Migrate(p) ==
  /\ at[p] = "migrating"
  /\ MigrateStep(p)
  /\ Place(p, CASE step'[p] = "ready" -> "working"
                [] step'[p] = "failed" -> "closing"
                [] OTHER -> "migrating")
  /\ UNCHANGED <<lockVars, exclusive>>

(* The command ends, normally or by a signal that it handles. *)
EndWork(p) ==
  /\ at[p] = "working"
  /\ Place(p, "closing")
  /\ UNCHANGED <<lockVars, migrationVars, exclusive>>

(* close(): the index first, then the lock, by the process that holds it. *)
Close(p) ==
  /\ at[p] = "closing"
  /\ Disconnect(p)
  /\ UNCHANGED directory
  /\ IF lockStep[p] = "held"
     THEN ReleaseCheck(p) /\ Place(p, "ending")
     ELSE UNCHANGED lockVars /\ Place(p, "ending")
  /\ UNCHANGED exclusive

ReleaseLock(p) ==
  /\ at[p] = "ending"
  /\ ReleaseStep(p)
  /\ UNCHANGED <<migrationVars, startVars>>

Exit(p) ==
  /\ at[p] = "ending"
  /\ lockStep[p] = "out"
  /\ EndProcess(p)
  /\ Place(p, "none")
  /\ exclusive' = exclusive \ {p}
  /\ UNCHANGED migrationVars

Kill(p) ==
  /\ "kill" \in StartFaults
  /\ EndProcess(p)
  /\ Disconnect(p)
  /\ Place(p, "none")
  /\ exclusive' = exclusive \ {p}
  /\ UNCHANGED directory

StartStep(p) ==
  \/ TakeLock(p)
  \/ InitStore(p)
  \/ Migrate(p)
  \/ Close(p)
  \/ ReleaseLock(p)
  \/ Exit(p)

Operator ==
  /\ InstallRelease \/ EditFile
  /\ UNCHANGED <<lockVars, startVars>>

StartupNext ==
  \/ \E p \in Pids :
       \/ LaunchExclusive(p) \/ LaunchShared(p)
       \/ StartStep(p)
       \/ InitFails(p)
       \/ EndWork(p)
       \/ Kill(p)
  \/ Operator

StartupSpec == StartupInit /\ [][StartupNext]_allVars

StartupFairSpec == StartupSpec /\ \A p \in Pids : WF_allVars(StartStep(p))

-----------------------------------------------------------------------------
Touching(p) == at[p] \in {"init", "migrating", "working", "closing"}

(* Two exclusive commands are never both between the emptying of tmp/ and the
   closing of the index, but for a lock that was challenged. *)
WorkIsExclusive ==
  \A p, q \in exclusive \ challenged : Touching(p) /\ Touching(q) => p = q

(* A start always ends, at work or with an error: neither the lock nor the
   transaction of another process keeps it waiting. *)
StartEnds ==
  \A p \in Pids :
    at[p] \in {"locking", "init", "migrating"} ~> at[p] \in {"working", "none"}

(* "rien ne doit toucher tmp/ avant d'etre sur qu'aucun autre processus n'y
   travaille".  The code does not keep it: the commands that take no lock empty
   tmp/ too (README, section 3). *)
TmpIsPrivate ==
  [][\A p, q \in Pids :
       at[p] = "init" /\ at'[p] = "migrating" /\ q \in exclusive /\ at[q] = "working"
         => p = q]_allVars
=============================================================================
