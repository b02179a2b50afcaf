---------------------------- MODULE ProcessLock ----------------------------
(***************************************************************************)
(* The lock file of a data directory: acquire(), holder() and release() of *)
(* packages/kernel/src/scheduling/process-lock.ts.                         *)
(*                                                                         *)
(* A process is known by its pid on the one host of the data directory.    *)
(* The path and the file are distinct: a process writes through the handle *)
(* it opened, even when the path leads to the file of another process, and *)
(* rm() acts on whatever file the path leads to by then.                   *)
(***************************************************************************)
CONSTANTS
  Pids,       \* pids of the processes that may lock the data directory
  NoLock,     \* the path of the lock does not exist
  PidsReturn  \* a process may have the pid of a dead one that a lock still names

(* The file at the path: who created it, and whether its text is whole. *)
LockFile == [pid : Pids, text : {"empty", "whole"}]

ASSUME NoLockAssumption == NoLock \notin LockFile
ASSUME PidsReturnAssumption == PidsReturn \in BOOLEAN

VARIABLES
  lockFile,   \* the file at the path of the lock, NoLock when there is none
  alive,      \* the pids for which isAlive() answers true
  lockStep,   \* lockStep[p]: where p stands in acquire() or release()
  attempt,    \* attempt[p]: the attempt of acquire(), 0 or 1
  challenged  \* processes whose file was exposed to a removal meant for another

lockVars == <<lockFile, alive, lockStep, attempt, challenged>>

LockSteps == {"out", "opening", "writing", "reading", "removing", "held",
              "checking", "deleting"}

LockTypeOK ==
  /\ lockFile \in LockFile \cup {NoLock}
  /\ alive \subseteq Pids
  /\ lockStep \in [Pids -> LockSteps]
  /\ attempt \in [Pids -> {0, 1}]
  /\ challenged \subseteq Pids

LockInit ==
  /\ lockFile = NoLock
  /\ alive = {}
  /\ lockStep = [p \in Pids |-> "out"]
  /\ attempt = [p \in Pids |-> 0]
  /\ challenged = {}

-----------------------------------------------------------------------------
LockGoto(p, s) == lockStep' = [lockStep EXCEPT ![p] = s]

(* Processes about to remove whatever file the path leads to. *)
Removers == {p \in Pids : lockStep[p] \in {"removing", "deleting"}}

(* The process that created the file at the path. *)
Creator == IF lockFile = NoLock THEN {} ELSE {lockFile.pid}

(* What holder() answers: the pid of a readable lock, nobody otherwise. *)
Holder == IF lockFile # NoLock /\ lockFile.text = "whole" THEN {lockFile.pid} ELSE {}

(* A lock that acquire() removes: unreadable, or left by a dead process. *)
Abandoned == Holder \cap alive = {}

PidIsFresh(p) == PidsReturn \/ p \notin Creator

(* A process with pid p calls acquire(). *)
Acquire(p) ==
  /\ lockStep[p] = "out"
  /\ PidIsFresh(p)
  /\ LockGoto(p, "opening")
  /\ attempt' = [attempt EXCEPT ![p] = 0]
  /\ alive' = alive \cup {p}
  /\ challenged' = challenged \ {p}
  /\ UNCHANGED lockFile

(* open(wx), the path is free: the file is created, and empty. *)
CreateLock(p) ==
  /\ lockStep[p] = "opening"
  /\ lockFile = NoLock
  /\ lockFile' = [pid |-> p, text |-> "empty"]
  /\ LockGoto(p, "writing")
  /\ challenged' = IF Removers = {} THEN challenged ELSE challenged \cup {p}
  /\ UNCHANGED <<alive, attempt>>

(* open(wx), EEXIST. *)
LockExists(p) ==
  /\ lockStep[p] = "opening"
  /\ lockFile # NoLock
  /\ LockGoto(p, "reading")
  /\ UNCHANGED <<lockFile, alive, attempt, challenged>>

(* The text is written into the file that p created, and p holds the lock
   whether or not the path still leads to that file. *)
WriteLock(p) ==
  /\ lockStep[p] = "writing"
  /\ lockFile' = IF Creator = {p} THEN [lockFile EXCEPT !.text = "whole"] ELSE lockFile
  /\ LockGoto(p, "held")
  /\ UNCHANGED <<alive, attempt, challenged>>

(* Mutation of FindAbandoned: the holder is not asked whether it lives. *)
FindAbandonedAlways(p) ==
  /\ lockStep[p] = "reading"
  /\ LockGoto(p, "removing")
  /\ challenged' = challenged \cup (Creator \ Holder)
  /\ UNCHANGED <<lockFile, alive, attempt>>

(* The holder is read and no living process holds the lock: p will remove the
   file.  The empty file of a process that has not written it yet looks the
   same. *)
FindAbandoned(p) ==
  /\ lockStep[p] = "reading"
  /\ Abandoned
  /\ LockGoto(p, "removing")
  /\ challenged' = challenged \cup (Creator \cap alive)
  /\ UNCHANGED <<lockFile, alive, attempt>>

(* "magasin deja utilise". *)
Refuse(p) ==
  /\ lockStep[p] = "reading"
  /\ ~ Abandoned
  /\ LockGoto(p, "out")
  /\ UNCHANGED <<lockFile, alive, attempt, challenged>>

(* Mutation of RemoveLock: the attempts are not counted. *)
RemoveLockAgain(p) ==
  /\ lockStep[p] = "removing"
  /\ lockFile' = NoLock
  /\ LockGoto(p, "opening")
  /\ UNCHANGED <<alive, attempt, challenged>>

(* rm(), then the second attempt, or the error after it. *)
RemoveLock(p) ==
  /\ lockStep[p] = "removing"
  /\ lockFile' = NoLock
  /\ IF attempt[p] = 0
     THEN LockGoto(p, "opening") /\ attempt' = [attempt EXCEPT ![p] = 1]
     ELSE LockGoto(p, "out") /\ UNCHANGED attempt
  /\ UNCHANGED <<alive, challenged>>

(* The text cannot be written: an empty file stays behind. *)
WriteLockFails(p) ==
  /\ lockStep[p] = "writing"
  /\ LockGoto(p, "out")
  /\ UNCHANGED <<lockFile, alive, attempt, challenged>>

(* release(), first await: the lock is given up and the file read. *)
ReleaseCheck(p) ==
  /\ lockStep[p] = "held"
  /\ LockGoto(p, "checking")
  /\ UNCHANGED <<lockFile, alive, attempt, challenged>>

(* Mutation of ReleaseRead: the comparison is the wrong way round. *)
ReleaseReadOthers(p) ==
  /\ lockStep[p] = "checking"
  /\ LockGoto(p, IF Holder = {p} THEN "out" ELSE "deleting")
  /\ UNCHANGED <<lockFile, alive, attempt, challenged>>

(* Only a file that names this process is removed. *)
ReleaseRead(p) ==
  /\ lockStep[p] = "checking"
  /\ LockGoto(p, IF Holder = {p} THEN "deleting" ELSE "out")
  /\ UNCHANGED <<lockFile, alive, attempt, challenged>>

ReleaseRemove(p) ==
  /\ lockStep[p] = "deleting"
  /\ lockFile' = NoLock
  /\ LockGoto(p, "out")
  /\ UNCHANGED <<alive, attempt, challenged>>

(* The process ends, killed at any await or at its normal end: its file stays
   and its pid is free. *)
EndProcess(p) ==
  /\ p \in alive
  /\ alive' = alive \ {p}
  /\ LockGoto(p, "out")
  /\ attempt' = [attempt EXCEPT ![p] = 0]
  /\ challenged' = challenged \ {p}
  /\ UNCHANGED lockFile

-----------------------------------------------------------------------------
(* The steps of p inside acquire() and release(). *)
AcquireStep(p) ==
  \/ CreateLock(p)
  \/ LockExists(p)
  \/ WriteLock(p)
  \/ FindAbandoned(p)
  \/ Refuse(p)
  \/ RemoveLock(p)

ReleaseStep(p) == ReleaseRead(p) \/ ReleaseRemove(p)

LockNext ==
  \E p \in Pids :
    \/ Acquire(p)
    \/ AcquireStep(p)
    \/ WriteLockFails(p)
    \/ ReleaseCheck(p)
    \/ ReleaseStep(p)
    \/ EndProcess(p)

LockSpec == LockInit /\ [][LockNext]_lockVars

-----------------------------------------------------------------------------
(* Exclusion, as far as the file gives it: of two processes that both hold the
   lock, one has had its file exposed to a removal: it created it while another
   process stood before rm(), or it was found empty by another process.  With
   starts that do not overlap, nobody is challenged and the lock is exclusive. *)
OneHolder ==
  \A p, q \in Pids \ challenged :
    lockStep[p] = "held" /\ lockStep[q] = "held" => p = q

(* An unchallenged lock is never lost by its holder: the file names it as long
   as it holds. *)
HolderIsNamed ==
  \A p \in Pids \ challenged : lockStep[p] = "held" => Holder = {p}

(* "Un verrou abandonne par un processus mort est repris": a lock that makes
   acquire() refuse belongs to a process that holds it or is releasing it,
   unless the pid came back (README, section 3). *)
RefusedByHolder ==
  \A p \in Holder \cap alive : lockStep[p] \in {"held", "checking", "deleting"}

(* Why exclusion holds: the path leads to the file of the process that created
   it unchallenged, and nobody else stands before a removal. *)
FileIsSafe ==
  \A p \in Pids \ challenged :
    /\ lockStep[p] \in {"writing", "held", "checking"} =>
         /\ Creator = {p}
         /\ Removers = {}
    /\ lockStep[p] = "writing" => lockFile.text = "empty"
    /\ lockStep[p] \in {"held", "checking"} => lockFile.text = "whole" /\ p \in alive
=============================================================================
