----------------------------- MODULE SourceRuns -----------------------------
(***************************************************************************)
(* The life of a collection run: CollectionRunner.run() of                 *)
(* packages/kernel/src/orchestration/collection-runner.ts, with the lock   *)
(* per source, the cooperative stop, the budget installed on the HTTP      *)
(* client that all runs of a source share, the state of the plugin and the *)
(* rows of the tables runs and sources.                                    *)
(*                                                                         *)
(* A call is one invocation of run() by a caller that holds the loaded     *)
(* plugin.  Calls interleave at their awaits.  What they do to documents   *)
(* is in Collection and Sweep.                                             *)
(***************************************************************************)
CONSTANTS
  Sources,  \* source identifiers
  Calls,    \* bound: the invocations of run() that a behaviour may have
  NoCall,   \* no budget is installed
  Faults    \* "io": a query on the index may fail; "crash": the process may die

ASSUME NoCallAssumption == NoCall \notin Calls
ASSUME FaultsAssumption == Faults \subseteq {"io", "crash"}

VARIABLES
  lock,     \* SourceLock: the sources held
  stopAsked,\* #stopRequested
  plugin,   \* plugin[s]: the state of the LoadedPlugin of s, in memory
  budget,   \* budget[s]: the call whose budget its HTTP client enforces
  state,    \* state[s]: sources.state, on disk
  row,      \* row[c]: runs.status of the run of c, "none" before startRun()
  at,       \* at[c]: the await the call stands at
  source,   \* source[c]: the source it collects
  mode,     \* mode[c]: the mode requested, then the mode applied
  outcome   \* outcome[c]: how its enumeration ended

callVars == <<at, source, mode, outcome>>
memoryVars == <<lock, stopAsked, plugin, budget>>
diskVars == <<state, row>>
vars == <<callVars, memoryVars, diskVars>>

(* From tryAcquire() to the finally clause. *)
LockedPoints == {"resolving", "budgeted", "started", "collecting"}

Points == LockedPoints \cup
  {"unused", "ended", "retrying", "closing", "closed", "quarantining", "done",
   "thrown", "dead"}

(* "interrupted": stop or blackout; "truncated": maxDocuments reached;
   "fatal": an error whose scope is the source; "error": any other one. *)
Outcomes == {"swept", "interrupted", "truncated", "budget", "fatal", "error"}

RunsTypeOK ==
  /\ lock \subseteq Sources
  /\ stopAsked \subseteq Sources
  /\ plugin \in [Sources -> {"ready", "active", "quarantined"}]
  /\ budget \in [Sources -> Calls \cup {NoCall}]
  /\ state \in [Sources -> {"ready", "quarantined"}]
  /\ row \in [Calls -> {"none", "running", "completed", "failed"}]
  /\ at \in [Calls -> Points]
  /\ source \in [Calls -> Sources]
  /\ mode \in [Calls -> {"full", "incremental"}]
  /\ outcome \in [Calls -> Outcomes]

RunsInit ==
  /\ lock = {}
  /\ stopAsked = {}
  /\ plugin = [s \in Sources |-> "ready"]
  /\ budget = [s \in Sources |-> NoCall]
  /\ state = [s \in Sources |-> "ready"]
  /\ row = [c \in Calls |-> "none"]
  /\ at = [c \in Calls |-> "unused"]
  /\ source \in [Calls -> Sources]
  /\ mode \in [Calls -> {"full", "incremental"}]
  /\ outcome = [c \in Calls |-> "swept"]

Goto(c, p) == at' = [at EXCEPT ![c] = p]

Status(c) == IF outcome[c] \in {"fatal", "error"} THEN "failed" ELSE "completed"

-----------------------------------------------------------------------------
(* Mutation of Enter: a call enters whether the lock is held or not. *)
EnterAnyway(c) ==
  /\ at[c] = "unused"
  /\ plugin[source[c]] # "quarantined"
  /\ lock' = lock \cup {source[c]}
  /\ Goto(c, "resolving")
  /\ UNCHANGED <<source, mode, outcome, stopAsked, plugin, budget, diskVars>>

(* The call enters: refused when the plugin is quarantined or the lock held. *)
Enter(c) ==
  /\ at[c] = "unused"
  /\ plugin[source[c]] # "quarantined"
  /\ source[c] \notin lock
  /\ lock' = lock \cup {source[c]}
  /\ Goto(c, "resolving")
  /\ UNCHANGED <<source, mode, outcome, stopAsked, plugin, budget, diskVars>>

(* An incremental run may be promoted to a full sweep; then the checkpoint is
   restored and the budget is put on the shared client. *)
Resolve(c) ==
  /\ at[c] = "resolving"
  /\ \E m \in {mode[c], "full"} : mode' = [mode EXCEPT ![c] = m]
  /\ budget' = [budget EXCEPT ![source[c]] = c]
  /\ Goto(c, "budgeted")
  /\ UNCHANGED <<source, outcome, lock, stopAsked, plugin, diskVars>>

StartRun(c) ==
  /\ at[c] = "budgeted"
  /\ row' = [row EXCEPT ![c] = "running"]
  /\ Goto(c, "started")
  /\ UNCHANGED <<source, mode, outcome, memoryVars, state>>

MarkActive(c) ==
  /\ at[c] = "started"
  /\ plugin' = [plugin EXCEPT ![source[c]] = IF @ = "ready" THEN "active" ELSE @]
  /\ Goto(c, "collecting")
  /\ UNCHANGED <<source, mode, outcome, lock, stopAsked, budget, diskVars>>

(* Mutation of EndEnumeration: markIdle() does not look at the state. *)
EndEnumerationReactivating(c, o) ==
  /\ at[c] = "collecting"
  /\ outcome' = [outcome EXCEPT ![c] = o]
  /\ budget' = [budget EXCEPT ![source[c]] = NoCall]
  /\ stopAsked' = stopAsked \ {source[c]}
  /\ plugin' = [plugin EXCEPT ![source[c]] = "ready"]
  /\ lock' = lock \ {source[c]}
  /\ Goto(c, "ended")
  /\ UNCHANGED <<source, mode, diskVars>>

(* Mutation of EndEnumeration: an error leaves the lock behind. *)
EndEnumerationKeepingLock(c, o) ==
  /\ at[c] = "collecting"
  /\ outcome' = [outcome EXCEPT ![c] = o]
  /\ budget' = [budget EXCEPT ![source[c]] = NoCall]
  /\ stopAsked' = stopAsked \ {source[c]}
  /\ plugin' = [plugin EXCEPT ![source[c]] = IF @ = "active" THEN "ready" ELSE @]
  /\ lock' = IF o \in {"fatal", "error"} THEN lock ELSE lock \ {source[c]}
  /\ Goto(c, "ended")
  /\ UNCHANGED <<source, mode, diskVars>>

(* The enumeration ends, or a stop, a limit or an error breaks it between two
   documents; the finally clause runs in the same step. *)
EndEnumeration(c, o) ==
  /\ at[c] = "collecting"
  /\ outcome' = [outcome EXCEPT ![c] = o]
  /\ budget' = [budget EXCEPT ![source[c]] = NoCall]
  /\ stopAsked' = stopAsked \ {source[c]}
  /\ plugin' = [plugin EXCEPT ![source[c]] = IF @ = "active" THEN "ready" ELSE @]
  /\ lock' = lock \ {source[c]}
  /\ Goto(c, "ended")
  /\ UNCHANGED <<source, mode, diskVars>>

(* Failed documents are tried again, except after a full sweep or a stop. *)
Retries(c) ==
  Status(c) = "completed" /\ outcome[c] # "interrupted" /\ mode[c] # "full"

BeginRetry(c) ==
  /\ at[c] = "ended"
  /\ Goto(c, IF Retries(c) THEN "retrying" ELSE "closing")
  /\ UNCHANGED <<source, mode, outcome, memoryVars, diskVars>>

(* Mutation of EndRetry: the budget is removed after the retries. *)
EndRetryUnbudgeting(c) ==
  /\ at[c] = "retrying"
  /\ budget' = [budget EXCEPT ![source[c]] = NoCall]
  /\ Goto(c, "closing")
  /\ UNCHANGED <<source, mode, outcome, lock, stopAsked, plugin, diskVars>>

EndRetry(c) ==
  /\ at[c] = "retrying"
  /\ Goto(c, "closing")
  /\ UNCHANGED <<source, mode, outcome, memoryVars, diskVars>>

CloseRun(c) ==
  /\ at[c] = "closing"
  /\ row' = [row EXCEPT ![c] = Status(c)]
  /\ Goto(c, "closed")
  /\ UNCHANGED <<source, mode, outcome, memoryVars, state>>

(* A fatal error, or too many empty full sweeps in a row. *)
MayQuarantine(c) ==
  outcome[c] = "fatal" \/ (Status(c) = "completed" /\ mode[c] = "full")

(* plugins.quarantine(): in memory first. *)
Quarantine(c) ==
  /\ at[c] = "closed"
  /\ MayQuarantine(c)
  /\ plugin' = [plugin EXCEPT ![source[c]] = "quarantined"]
  /\ Goto(c, "quarantining")
  /\ UNCHANGED <<source, mode, outcome, lock, stopAsked, budget, diskVars>>

(* setSourceState(): on disk next. *)
PersistQuarantine(c) ==
  /\ at[c] = "quarantining"
  /\ state' = [state EXCEPT ![source[c]] = "quarantined"]
  /\ Goto(c, "done")
  /\ UNCHANGED <<source, mode, outcome, memoryVars, row>>

Return(c) ==
  /\ at[c] = "closed"
  /\ outcome[c] # "fatal"
  /\ Goto(c, "done")
  /\ UNCHANGED <<source, mode, outcome, memoryVars, diskVars>>

(* A query fails outside of the try block: run() throws, and nothing of what it
   took is given back. *)
Throw(c) ==
  /\ "io" \in Faults
  /\ at[c] \in {"resolving", "budgeted", "started", "retrying", "closing", "closed",
                "quarantining"}
  /\ Goto(c, "thrown")
  /\ UNCHANGED <<source, mode, outcome, memoryVars, diskVars>>

-----------------------------------------------------------------------------
(* Mutation of RequestStopAll: it stops the sources at rest as well. *)
RequestStopEverySource ==
  /\ stopAsked' = Sources
  /\ UNCHANGED <<callVars, lock, plugin, budget, diskVars>>

(* requestStopAll(): only the sources whose lock is held. *)
RequestStopAll ==
  /\ stopAsked' = stopAsked \cup lock
  /\ UNCHANGED <<callVars, lock, plugin, budget, diskVars>>

(* lcf source resume, from a process of its own: the disk only. *)
Resume(s) ==
  /\ state[s] = "quarantined"
  /\ state' = [state EXCEPT ![s] = "ready"]
  /\ UNCHANGED <<callVars, memoryVars, row>>

(* The process dies; the next one loads its sources again, and one that is
   quarantined on disk is quarantined in memory. *)
Restart ==
  /\ "crash" \in Faults
  /\ at' = [c \in Calls |-> IF at[c] \in {"unused", "done", "thrown"} THEN at[c] ELSE "dead"]
  /\ lock' = {}
  /\ stopAsked' = {}
  /\ plugin' = [s \in Sources |-> IF state[s] = "quarantined" THEN "quarantined" ELSE "ready"]
  /\ budget' = [s \in Sources |-> NoCall]
  /\ UNCHANGED <<source, mode, outcome, diskVars>>

(* failStaleRuns(), at the start of every command: rows that have been running
   for more than 24 hours, which no live call reaches. *)
FailStaleRuns ==
  LET stale == {c \in Calls : row[c] = "running" /\ at[c] \in {"thrown", "dead"}}
  IN  /\ stale # {}
      /\ row' = [c \in Calls |-> IF c \in stale THEN "failed" ELSE row[c]]
      /\ UNCHANGED <<callVars, memoryVars, state>>

(* What a call does by itself once it has been entered. *)
CallStep(c) ==
  \/ Resolve(c)
  \/ StartRun(c)
  \/ MarkActive(c)
  \/ \E o \in Outcomes : EndEnumeration(c, o)
  \/ BeginRetry(c)
  \/ EndRetry(c)
  \/ CloseRun(c)
  \/ Quarantine(c)
  \/ PersistQuarantine(c)
  \/ Return(c)

RunsNext ==
  \/ \E c \in Calls : Enter(c) \/ CallStep(c) \/ Throw(c)
  \/ RequestStopAll
  \/ \E s \in Sources : Resume(s)
  \/ Restart
  \/ FailStaleRuns

RunsSpec == RunsInit /\ [][RunsNext]_vars

(* A call goes on as long as its process lives: its queries are answered, its
   enumeration is bounded by the duration of its budget, and every command
   begins by closing the stale rows. *)
RunsFairSpec ==
  RunsSpec /\ (\A c \in Calls : WF_vars(CallStep(c))) /\ WF_vars(FailStaleRuns)

-----------------------------------------------------------------------------
(* Properties *)

(* Two calls on one source never stand between tryAcquire() and the finally
   clause together, and the lock is held there. *)
OneCollectorPerSource ==
  \A c, d \in Calls :
    at[c] \in LockedPoints =>
      /\ source[c] \in lock
      /\ at[d] \in LockedPoints /\ source[d] = source[c] => c = d

(* The client that the runs of a source share enforces, while one enumerates,
   the budget of that one: neither an earlier run that is still retrying nor a
   later one replaces or removes it. *)
EnumerationIsBudgeted ==
  \A c \in Calls : at[c] = "collecting" => budget[source[c]] = c

(* A stop and the state "active" belong to the run that holds the lock: a stop
   asked during one run never interrupts the next. *)
StopNeverOutlivesRun ==
  /\ stopAsked \subseteq lock
  /\ \A s \in Sources :
       plugin[s] = "active" => \E c \in Calls : source[c] = s /\ at[c] = "collecting"

(* "la reactivation n'est jamais automatique": no run, not even one that was
   under way when another run of the source quarantined it, brings the plugin
   back; only a restart that finds the source ready on disk does. *)
NoAutomaticReactivation ==
  [][\A s \in Sources :
       plugin[s] = "quarantined" =>
         plugin'[s] = "quarantined" \/ (Restart /\ state[s] = "ready")]_vars

(* "Une execution laissee running par un processus tue resterait ouverte pour
   toujours": every row is closed in the end, by its run or as a stale one. *)
RowsAreClosed == \A c \in Calls : row[c] = "running" ~> row[c] # "running"

(* The lock of a source comes back by the finally clause, unless a query failed
   between tryAcquire() and the try block: nothing but a restart releases the
   lock of such a call. *)
LockIsReleased ==
  \A s \in Sources :
    s \in lock ~> s \notin lock \/ \E c \in Calls : source[c] = s /\ at[c] = "thrown"

(* Nothing that a run opens stays open: neither its row nor its lock. *)
RunsAreWoundUp == RowsAreClosed /\ LockIsReleased

-----------------------------------------------------------------------------
(* Statements of the comments and documents that the code does not keep: TLC
   finds a counterexample of each (README, section 3). *)

Running(c) == row[c] = "running" /\ at[c] \notin {"thrown", "dead"}

(* "Deux executions simultanees sur la meme source sont interdites" (comment of
   SourceLock): two runs of one source are never open together. *)
NoConcurrentRuns ==
  \A c, d \in Calls :
    c # d /\ source[c] = source[d] => ~ (Running(c) /\ Running(d))

(* "Le budget est installe sur le client du plugin pour la duree de la
   collecte": no run sends requests without its budget. *)
RequestsAreBudgeted ==
  \A c \in Calls : at[c] \in {"collecting", "retrying"} => budget[source[c]] = c

(* "une quarantaine ne se leve pas en redemarrant": a quarantine that a run
   decided reaches the disk. *)
QuarantineIsPersisted ==
  \A c \in Calls : at[c] = "quarantining" ~> state[source[c]] = "quarantined"

-----------------------------------------------------------------------------
(* Why the safety properties hold: the invariant that every step preserves. *)

(* From the moment its budget is put on the shared client until the finally
   clause, a call has it there. *)
HolderIsBudgeted ==
  \A c \in Calls :
    at[c] \in {"budgeted", "started", "collecting"} => budget[source[c]] = c

RunsInvariant ==
  /\ RunsTypeOK
  /\ OneCollectorPerSource
  /\ HolderIsBudgeted
  /\ StopNeverOutlivesRun
=============================================================================
