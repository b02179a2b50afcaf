----------------------------- MODULE RunsProofs -----------------------------
(***************************************************************************)
(* Proofs about SourceRuns: for any number of sources and calls, and with  *)
(* failing queries and restarts, a source has one collector, which has its *)
(* budget and its stop flag to itself, and a quarantine is not lifted by a *)
(* run.                                                                    *)
(***************************************************************************)
EXTENDS SourceRuns, TLAPS

(* A call that stands outside of the lock and stays there, while the lock, the
   flags, the plugins and the budgets stay as they are, changes nothing that the
   others rely on. *)
LEMMA OutsideKeepsInvariant ==
  ASSUME RunsInvariant, NEW c \in Calls, NEW p \in Points \ LockedPoints,
         at[c] # "collecting", Goto(c, p),
         UNCHANGED <<source, mode, outcome, lock, stopAsked, plugin, budget>>,
         state' \in [Sources -> {"ready", "quarantined"}],
         row' \in [Calls -> {"none", "running", "completed", "failed"}]
  PROVE  RunsInvariant'
<1> USE DEF RunsInvariant
<1>1. RunsTypeOK'
  BY DEF RunsTypeOK, Goto, Points
<1>2. /\ at' \in [Calls -> Points]
      /\ \A d \in Calls : d # c => at'[d] = at[d]
      /\ at'[c] = p
  BY DEF RunsTypeOK, Goto, Points
<1>3. OneCollectorPerSource'
  BY <1>2 DEF OneCollectorPerSource
<1>4. HolderIsBudgeted'
  BY <1>2 DEF HolderIsBudgeted, LockedPoints
<1>5. StopNeverOutlivesRun'
  BY <1>2 DEF StopNeverOutlivesRun
<1> QED
  BY <1>1, <1>3, <1>4, <1>5

(* A call that takes the lock finds nobody in the points it guards. *)
LEMMA EnterKeepsInvariant ==
  ASSUME RunsInvariant, NEW c \in Calls, Enter(c)
  PROVE  RunsInvariant'
<1> USE DEF RunsInvariant
<1>1. RunsTypeOK'
  BY DEF RunsTypeOK, Enter, Goto, Points, LockedPoints, diskVars
<1>2. /\ \A d \in Calls : d # c => at'[d] = at[d]
      /\ at'[c] = "resolving" /\ at[c] = "unused"
      /\ source[c] \notin lock /\ lock' = lock \cup {source[c]}
      /\ UNCHANGED <<source, stopAsked, plugin, budget>>
  BY DEF RunsTypeOK, Enter, Goto
<1>3. OneCollectorPerSource'
  BY <1>2 DEF OneCollectorPerSource
<1>4. HolderIsBudgeted'
  BY <1>2 DEF HolderIsBudgeted
<1>5. StopNeverOutlivesRun'
  BY <1>2 DEF StopNeverOutlivesRun
<1> QED
  BY <1>1, <1>3, <1>4, <1>5

(* The steps between tryAcquire() and the enumeration: the budget that they put
   on the client is that of the only call there. *)
LEMMA PrepareKeepsInvariant ==
  ASSUME RunsInvariant, NEW c \in Calls, Resolve(c) \/ StartRun(c) \/ MarkActive(c)
  PROVE  RunsInvariant'
<1> USE DEF RunsInvariant
<1> USE DEF LockedPoints
<1>1. RunsTypeOK'
  BY DEF RunsTypeOK, Resolve, StartRun, MarkActive, Goto, Points, memoryVars, diskVars
<1>2. /\ \A d \in Calls : d # c => at'[d] = at[d]
      /\ at[c] \in {"resolving", "budgeted", "started"}
      /\ at'[c] \in {"budgeted", "started", "collecting"}
      /\ UNCHANGED <<source, lock, stopAsked>>
  BY DEF RunsTypeOK, Resolve, StartRun, MarkActive, Goto, memoryVars
<1>3. OneCollectorPerSource'
  BY <1>2 DEF OneCollectorPerSource
<1>4. HolderIsBudgeted'
  <2>1. \A d \in Calls : d # c /\ at[d] \in LockedPoints => source[d] # source[c]
    BY <1>2 DEF OneCollectorPerSource
  <2>2. CASE Resolve(c)
    BY <1>2, <2>1, <2>2 DEF HolderIsBudgeted, Resolve, RunsTypeOK
  <2>3. CASE StartRun(c) \/ MarkActive(c)
    BY <1>2, <2>3 DEF HolderIsBudgeted, StartRun, MarkActive, memoryVars
  <2> QED
    BY <2>2, <2>3
<1>5. StopNeverOutlivesRun'
  <2>1. CASE Resolve(c) \/ StartRun(c)
    BY <1>2, <2>1 DEF StopNeverOutlivesRun, Resolve, StartRun, memoryVars
  <2>2. CASE MarkActive(c)
    BY <1>2, <2>2 DEF StopNeverOutlivesRun, MarkActive, RunsTypeOK, Goto
  <2> QED
    BY <2>1, <2>2
<1> QED
  BY <1>1, <1>3, <1>4, <1>5

(* The finally clause gives the lock, the budget, the flag and the plugin back:
   they are those of this call and of no other. *)
LEMMA EndKeepsInvariant ==
  ASSUME RunsInvariant, NEW c \in Calls, NEW o \in Outcomes, EndEnumeration(c, o)
  PROVE  RunsInvariant'
<1> USE DEF RunsInvariant, LockedPoints
<1>1. RunsTypeOK'
  BY DEF RunsTypeOK, EndEnumeration, Goto, Points, diskVars
<1>2. /\ \A d \in Calls : d # c => at'[d] = at[d]
      /\ at[c] = "collecting" /\ at'[c] = "ended"
      /\ UNCHANGED source
      /\ lock' = lock \ {source[c]}
      /\ stopAsked' = stopAsked \ {source[c]}
  BY DEF RunsTypeOK, EndEnumeration, Goto
<1>3. \A d \in Calls : d # c /\ at[d] \in LockedPoints => source[d] # source[c]
  BY <1>2 DEF OneCollectorPerSource
<1>4. \A s \in Sources : s # source[c] => budget'[s] = budget[s] /\ plugin'[s] = plugin[s]
  BY DEF EndEnumeration, RunsTypeOK
<1>5. plugin'[source[c]] # "active"
  BY DEF EndEnumeration, RunsTypeOK
<1>6. OneCollectorPerSource'
  BY <1>2, <1>3 DEF OneCollectorPerSource
<1>7. HolderIsBudgeted'
  BY <1>2, <1>3, <1>4 DEF HolderIsBudgeted, RunsTypeOK
<1>8. StopNeverOutlivesRun'
  BY <1>2, <1>4, <1>5 DEF StopNeverOutlivesRun, RunsTypeOK
<1> QED
  BY <1>1, <1>6, <1>7, <1>8

(* A quarantine decided by a run that has released the lock: the collection of
   another run goes on. *)
LEMMA QuarantineKeepsInvariant ==
  ASSUME RunsInvariant, NEW c \in Calls, Quarantine(c)
  PROVE  RunsInvariant'
<1> USE DEF RunsInvariant
<1>1. RunsTypeOK'
  BY DEF RunsTypeOK, Quarantine, Goto, Points, diskVars
<1>2. /\ \A d \in Calls : d # c => at'[d] = at[d]
      /\ at[c] = "closed" /\ at'[c] = "quarantining"
      /\ UNCHANGED <<source, lock, stopAsked, budget>>
      /\ \A s \in Sources : plugin'[s] = "active" => plugin[s] = "active"
  BY DEF RunsTypeOK, Quarantine, Goto
<1> QED
  BY <1>1, <1>2 DEF OneCollectorPerSource, HolderIsBudgeted, StopNeverOutlivesRun, LockedPoints

(* A new process holds nothing. *)
LEMMA RestartKeepsInvariant ==
  ASSUME RunsInvariant, Restart
  PROVE  RunsInvariant'
<1> USE DEF RunsInvariant
<1>1. RunsTypeOK'
  BY DEF RunsTypeOK, Restart, Points, diskVars
<1>2. /\ \A c \in Calls : at'[c] \in {"unused", "done", "thrown", "dead"}
      /\ stopAsked' = {}
      /\ \A s \in Sources : plugin'[s] # "active"
  BY DEF Restart
<1> QED
  BY <1>1, <1>2 DEF OneCollectorPerSource, HolderIsBudgeted, StopNeverOutlivesRun, LockedPoints
(* The other steps of a run are taken outside of the lock, by a call that does
   not go back behind it. *)
LEMMA RunStepKeepsInvariant ==
  ASSUME RunsInvariant, NEW c \in Calls, Enter(c) \/ CallStep(c) \/ Throw(c)
  PROVE  RunsInvariant'
<1>1. CASE \/ BeginRetry(c) \/ EndRetry(c) \/ CloseRun(c) \/ PersistQuarantine(c)
           \/ Return(c) \/ Throw(c)
  <2>1. \E p \in Points \ LockedPoints : Goto(c, p)
    BY <1>1 DEF BeginRetry, EndRetry, CloseRun, PersistQuarantine, Return, Throw, Points,
                LockedPoints
  <2>2. /\ at[c] # "collecting"
        /\ UNCHANGED <<source, mode, outcome, lock, stopAsked, plugin, budget>>
    BY <1>1 DEF BeginRetry, EndRetry, CloseRun, PersistQuarantine, Return, Throw, memoryVars
  <2>3. /\ state' \in [Sources -> {"ready", "quarantined"}]
        /\ row' \in [Calls -> {"none", "running", "completed", "failed"}]
    BY <1>1 DEF BeginRetry, EndRetry, CloseRun, PersistQuarantine, Return, Throw, diskVars,
                RunsInvariant, RunsTypeOK, Status
  <2> QED
    BY <2>1, <2>2, <2>3, OutsideKeepsInvariant
<1>2. CASE Resolve(c) \/ StartRun(c) \/ MarkActive(c)
  BY <1>2, PrepareKeepsInvariant
<1>3. CASE \E o \in Outcomes : EndEnumeration(c, o)
  BY <1>3, EndKeepsInvariant
<1> QED
  BY <1>1, <1>2, <1>3, EnterKeepsInvariant, QuarantineKeepsInvariant DEF CallStep

LEMMA RunsNextKeepsInvariant ==
  ASSUME RunsInvariant, [RunsNext]_vars
  PROVE  RunsInvariant'
<1>1. CASE RequestStopAll \/ (\E s \in Sources : Resume(s)) \/ FailStaleRuns \/ UNCHANGED vars
  <2>1. /\ UNCHANGED <<callVars, lock, plugin, budget>>
        /\ stopAsked' \subseteq stopAsked \cup lock
        /\ state' \in [Sources -> {"ready", "quarantined"}]
        /\ row' \in [Calls -> {"none", "running", "completed", "failed"}]
    BY <1>1 DEF RequestStopAll, Resume, FailStaleRuns, vars, memoryVars, diskVars, RunsInvariant,
                RunsTypeOK
  <2> QED
    BY <2>1 DEF RunsInvariant, RunsTypeOK, OneCollectorPerSource, HolderIsBudgeted,
                StopNeverOutlivesRun, callVars
<1> QED
  BY <1>1, RunStepKeepsInvariant, RestartKeepsInvariant DEF RunsNext

LEMMA InitialRunsInvariant == RunsInit => RunsInvariant
BY DEF RunsInit, RunsInvariant, RunsTypeOK, OneCollectorPerSource, HolderIsBudgeted,
       StopNeverOutlivesRun, Points, LockedPoints, Outcomes

(* The invariant of the run life cycle. *)
THEOREM RunsAreInvariant == RunsSpec => []RunsInvariant
<1>1. RunsInvariant /\ [RunsNext]_vars => RunsInvariant'
  BY RunsNextKeepsInvariant
<1> QED
  BY InitialRunsInvariant, <1>1, PTL DEF RunsSpec

(* Type correctness of the run life cycle. *)
THEOREM RunsTypes == RunsSpec => []RunsTypeOK
BY RunsAreInvariant, PTL DEF RunsInvariant

(* SourceLock: at most one call collects a source at a time. *)
THEOREM OneCollector == RunsSpec => []OneCollectorPerSource
BY RunsAreInvariant, PTL DEF RunsInvariant

(* Whoever enumerates does so under its own budget. *)
THEOREM EnumerationAlwaysBudgeted == RunsSpec => []EnumerationIsBudgeted
<1>1. RunsInvariant => EnumerationIsBudgeted
  BY DEF RunsInvariant, HolderIsBudgeted, EnumerationIsBudgeted
<1> QED
  BY RunsAreInvariant, <1>1, PTL

(* A stop and the state "active" do not outlive the run that they belong to. *)
THEOREM StopsAreContained == RunsSpec => []StopNeverOutlivesRun
BY RunsAreInvariant, PTL DEF RunsInvariant

(* A step of a run leaves a quarantined plugin in quarantine. *)
LEMMA RunStepKeepsQuarantine ==
  ASSUME RunsTypeOK, NEW c \in Calls, Enter(c) \/ CallStep(c) \/ Throw(c),
         NEW s \in Sources, plugin[s] = "quarantined"
  PROVE  plugin'[s] = "quarantined"
BY DEF RunsTypeOK, Enter, CallStep, Throw, Resolve, StartRun, MarkActive, EndEnumeration,
       BeginRetry, EndRetry, CloseRun, Quarantine, PersistQuarantine, Return, memoryVars

(* "la reactivation n'est jamais automatique". *)
THEOREM QuarantineStays == RunsSpec => NoAutomaticReactivation
<1>1. RunsTypeOK /\ [RunsNext]_vars =>
        [\A s \in Sources :
           plugin[s] = "quarantined" =>
             plugin'[s] = "quarantined" \/ (Restart /\ state[s] = "ready")]_vars
  <2> SUFFICES ASSUME RunsTypeOK, RunsNext, NEW s \in Sources, plugin[s] = "quarantined"
               PROVE  plugin'[s] = "quarantined" \/ (Restart /\ state[s] = "ready")
    OBVIOUS
  <2>1. CASE Restart
    BY <2>1 DEF Restart, RunsTypeOK
  <2>2. CASE RequestStopAll \/ (\E t \in Sources : Resume(t)) \/ FailStaleRuns
    BY <2>2 DEF RequestStopAll, Resume, FailStaleRuns, memoryVars
  <2> QED
    BY <2>1, <2>2, RunStepKeepsQuarantine DEF RunsNext
<1> QED
  BY RunsTypes, <1>1, PTL DEF RunsSpec, NoAutomaticReactivation
=============================================================================
