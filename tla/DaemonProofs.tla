---------------------------- MODULE DaemonProofs ----------------------------
(***************************************************************************)
(* Proofs about Daemon: for any configuration, calendar, exclusion window  *)
(* and delay, and whatever fails, is signalled or is killed, no plugin is  *)
(* left undisposed of, no source that fails hides the others, and no       *)
(* quarantine is lifted by a restart.                                      *)
(***************************************************************************)
EXTENDS Daemon, FiniteSetTheorems, WellFoundedInduction, TLAPS

(* The configuration is a sequence of sources. *)
LEMMA OrderIsSequence ==
  /\ Len(Order) \in Nat
  /\ DOMAIN Order = 1 .. Len(Order)
  /\ \A i \in DOMAIN Order : Order[i] \in Sources
BY OrderAssumption DEF Sources

(* The numbers that the constants stand for. *)
LEMMA DaemonNumbers ==
  /\ Cycle \in Nat /\ Cycle >= 2
  /\ SilenceEvery \in Nat /\ SilentAfter \in Nat /\ MaxFaults \in Nat
  /\ OldestCheck = SilenceEvery + Cycle
  /\ OldestSuccess = SilentAfter + Cycle
  /\ Minutes = 0 .. Cycle - 1
  /\ Never = Cycle
BY TimesAssumption DEF OldestCheck, OldestSuccess, Minutes, Never

-----------------------------------------------------------------------------
(* The clock. *)

(* The remainder of a number that is less than two cycles. *)
LEMMA Remainder ==
  ASSUME NEW n \in Nat, n < 2 * Cycle
  PROVE  n % Cycle = IF n < Cycle THEN n ELSE n - Cycle
<1>1. CASE n < Cycle
  BY <1>1, DaemonNumbers
<1>2. CASE n >= Cycle
  BY <1>2, DaemonNumbers
<1> QED
  BY <1>1, <1>2, DaemonNumbers

(* The minute that follows, and the instant at which a tick began. *)
LEMMA NextMinute ==
  ASSUME NEW m \in Minutes
  PROVE  /\ (m + 1) % Cycle = IF m = Cycle - 1 THEN 0 ELSE m + 1
         /\ (m + 1) % Cycle \in Minutes
<1> DEFINE n == m + 1
<1>1. n \in Nat /\ n < 2 * Cycle
  BY DaemonNumbers
<1>2. n % Cycle = IF n < Cycle THEN n ELSE n - Cycle
  <2> HIDE DEF n
  <2> QED
    BY <1>1, Remainder
<1> QED
  BY <1>2, DaemonNumbers

LEMMA Began ==
  ASSUME NEW m \in Minutes, NEW e \in Minutes
  PROVE  /\ (m + Cycle - e) % Cycle = IF m >= e THEN m - e ELSE m + Cycle - e
         /\ (m + Cycle - e) % Cycle \in Minutes
<1> DEFINE n == m + Cycle - e
<1>1. n \in Nat /\ n < 2 * Cycle
  BY DaemonNumbers
<1>2. n % Cycle = IF n < Cycle THEN n ELSE n - Cycle
  <2> HIDE DEF n
  <2> QED
    BY <1>1, Remainder
<1> QED
  BY <1>2, DaemonNumbers
-----------------------------------------------------------------------------
(* What the steps of an entry are about. *)

(* The entry in progress is a source of the configuration. *)
LEMMA CurrentIsSource ==
  ASSUME DaemonInvariant, at \in EntryPoints
  PROVE  Current \in Sources /\ position \in DOMAIN Order
BY OrderIsSequence DEF DaemonInvariant, DaemonTypeOK, EntryInProgress, Current

(* Numbers are ordered as the intervals below them. *)
LEMMA LeastOf ==
  ASSUME NEW T, T \subseteq Nat, T # {}
  PROVE  \E n \in T : \A m \in T : n <= m
<1> DEFINE Below == {0 .. n : n \in T}
<1>1. Below \subseteq FiniteSubsetsOf(Nat) /\ Below # {}
  <2>1. \A n \in T : IsFiniteSet(0 .. n) /\ 0 .. n \subseteq Nat
    BY FS_Interval
  <2> QED
    BY <2>1 DEF FiniteSubsetsOf
<1>2. \E x \in Below : \A y \in Below : ~ (<<y, x>> \in StrictSubsetOrdering(Nat))
  BY <1>1, FS_StrictSubsetOrderingWellFounded, WFMin
<1>3. PICK n \in T : \A y \in Below : ~ (<<y, 0 .. n>> \in StrictSubsetOrdering(Nat))
  BY <1>2
<1>4. ASSUME NEW m \in T, m < n
      PROVE  FALSE
  <2>1. 0 .. m \subseteq 0 .. n /\ 0 .. m \in SUBSET Nat /\ 0 .. n \in SUBSET Nat
    BY <1>4
  <2>2. n \in 0 .. n /\ n \notin 0 .. m
    BY <1>4
  <2>3. 0 .. m \in Below
    OBVIOUS
  <2> QED
    BY <1>3, <2>1, <2>2, <2>3 DEF StrictSubsetOrdering
<1> QED
  BY <1>4

(* Trigger takes the first entry that falls due. *)
LEMMA FirstCandidate ==
  ASSUME DaemonInvariant, Candidates # {}
  PROVE  /\ Min(Candidates) \in Candidates
         /\ \A i \in Candidates : Min(Candidates) <= i
<1>1. Candidates \subseteq Nat
  BY OrderIsSequence DEF Candidates
<1>2. \E i \in Candidates : \A j \in Candidates : i <= j
  BY <1>1, LeastOf
<1> QED
  BY <1>2 DEF Min
-----------------------------------------------------------------------------
(* The steps that keep the invariant. *)

(* As long as the entry reached, the plugins and the instant of the tick are what
   they were, what is said of them holds. *)
LEMMA PassKeepsInvariant ==
  ASSUME DaemonInvariant, Pass
  PROVE  DaemonInvariant'
<1> DEFINE next == (minute + 1) % Cycle
<1>1. /\ minute \in Minutes /\ elapsed \in Minutes
      /\ age \in [Sources -> 0 .. OldestSuccess] /\ checkAge \in 0 .. OldestCheck
      /\ triggered \in [Sources -> Minutes \cup {Never}]
      /\ position \in {0} \cup DOMAIN Order
  BY DEF DaemonInvariant, DaemonTypeOK
<1>2. next \in Minutes /\ next = IF minute = Cycle - 1 THEN 0 ELSE minute + 1
  BY <1>1, NextMinute
<1>3. minute' \in Minutes /\ elapsed' \in Minutes
  <2>1. minute' = next
    BY DEF Pass
  <2>2. elapsed' = 0 \/ (elapsed < Cycle - 1 /\ elapsed' = elapsed + 1)
    BY <1>1, DaemonNumbers DEF Pass
  <2> HIDE DEF next
  <2> QED
    BY <1>1, <1>2, <2>1, <2>2, DaemonNumbers
<1>4. /\ triggered' \in [Sources -> Minutes \cup {Never}]
      /\ age' \in [Sources -> 0 .. OldestSuccess]
      /\ checkAge' \in 0 .. OldestCheck
  <2>1. triggered' \in [Sources -> Minutes \cup {Never}]
    BY <1>1 DEF Pass
  <2>2. age' \in [Sources -> 0 .. OldestSuccess]
    BY <1>1, DaemonNumbers DEF Pass
  <2>3. checkAge' \in 0 .. OldestCheck
    BY <1>1, DaemonNumbers DEF Pass
  <2> QED
    BY <2>1, <2>2, <2>3
<1>5. DaemonTypeOK'
  BY <1>3, <1>4 DEF Pass, pluginVars, DaemonInvariant, DaemonTypeOK
<1>6. PluginsAreDisposed' /\ EntryInProgress'
  BY DEF Pass, pluginVars, DaemonInvariant, PluginsAreDisposed, EntryInProgress, Current
<1>7. ASSUME at \in TickPoints
      PROVE  TickMinute' = TickMinute /\ TickMinute # next
  <2>1. elapsed < Cycle - 1 /\ elapsed' = elapsed + 1 /\ minute' = next
    BY <1>7 DEF Pass
  <2>2. TickMinute = IF minute >= elapsed THEN minute - elapsed ELSE minute + Cycle - elapsed
    BY <1>1, Began DEF TickMinute
  <2>3. TickMinute'
          = IF minute' >= elapsed' THEN minute' - elapsed' ELSE minute' + Cycle - elapsed'
    BY <1>3, Began DEF TickMinute
  <2> HIDE DEF next
  <2> QED
    BY <1>1, <1>2, <2>1, <2>2, <2>3, DaemonNumbers
<1>8. PassedAreTriggered'
  <2> SUFFICES ASSUME at' \in TickPoints, NEW i \in 1 .. position',
                      TickMinute' \in Due[Order[i]]
               PROVE  triggered'[Order[i]] = TickMinute'
    BY DEF PassedAreTriggered
  <2>1. at \in TickPoints /\ position' = position /\ Order[i] \in Sources
    BY <1>1, OrderIsSequence DEF Pass
  <2>2. triggered[Order[i]] = TickMinute
    BY <1>7, <2>1 DEF DaemonInvariant, PassedAreTriggered
  <2> QED
    BY <1>7, <2>1, <2>2 DEF Pass
<1> QED
  BY <1>5, <1>6, <1>8 DEF DaemonInvariant

(* The process: what is dead has neither an entry in progress nor a tick. *)
LEMMA ProcessKeepsInvariant ==
  ASSUME DaemonInvariant,
         Boot \/ Signal \/ ForcedStop \/ Kill \/ Close \/ \E s \in Sources : Resume(s)
  PROVE  DaemonInvariant'
<1> USE DEF DaemonInvariant, DaemonTypeOK, PluginsAreDisposed, EntryInProgress,
            PassedAreTriggered
<1>1. CASE Boot
  BY <1>1 DEF Boot, Goto, clockVars, Dead, TickPoints, EntryPoints
<1>2. CASE Signal
  BY <1>2 DEF Signal, clockVars, pluginVars, Current, TickMinute
<1>3. ASSUME Forget,
             \/ at' = "down" /\ instances' = [s \in Sources |-> 0]
             \/ /\ at = "closing" /\ at' = "ended"
                /\ instances' = [s \in Sources |-> IF s \in loaded THEN 0 ELSE instances[s]],
             faults' \in 0 .. MaxFaults
      PROVE  DaemonInvariant'
  <2>1. \A s \in Sources : instances'[s] = 0
    BY <1>3
  <2>2. instances' \in [Sources -> {0, 1}]
    BY <1>3
  <2>3. 0 \in Minutes /\ OldestCheck \in 0 .. OldestCheck
    BY DaemonNumbers
  <2>4. triggered' \in [Sources -> Minutes \cup {Never}]
    BY <1>3 DEF Forget
  <2>5. DaemonTypeOK'
    BY <1>3, <2>2, <2>3, <2>4 DEF Forget, Dead
  <2>6. PluginsAreDisposed' /\ EntryInProgress' /\ PassedAreTriggered'
    BY <1>3, <2>1 DEF TickPoints, EntryPoints
  <2> QED
    BY <2>5, <2>6
<1>4. CASE ForcedStop
  BY <1>3, <1>4 DEF ForcedStop, Die, Goto
<1>5. CASE Kill
  <2>1. faults' \in 0 .. MaxFaults
    BY <1>5, DaemonNumbers DEF Kill
  <2> QED
    BY <1>3, <1>5, <2>1 DEF Kill, Die, Goto
<1>6. CASE Close
  BY <1>3, <1>6 DEF Close, Goto
<1>7. CASE \E s \in Sources : Resume(s)
  BY <1>7 DEF Resume, clockVars, pluginVars, Current, TickMinute
<1> QED
  BY <1>1, <1>2, <1>4, <1>5, <1>6, <1>7

(* The loop: a tick that begins has passed nothing, and no step but Trigger goes
   past an entry. *)
LEMMA LoopKeepsInvariant ==
  ASSUME DaemonInvariant,
         \/ StartLoop \/ LeaveLoop \/ BeginTick \/ Trigger \/ EndEntries
         \/ CheckSilence \/ CheckFails \/ WakeUp \/ WakeUpEarly
  PROVE  DaemonInvariant'
<1> USE DEF DaemonInvariant, DaemonTypeOK, PluginsAreDisposed, EntryInProgress,
            PassedAreTriggered
<1>1. CASE StartLoop \/ LeaveLoop \/ WakeUp \/ WakeUpEarly
  BY <1>1 DEF StartLoop, LeaveLoop, WakeUp, WakeUpEarly, Goto, clockVars, pluginVars,
              TickPoints, EntryPoints
<1>2. CASE BeginTick
  <2>1. 0 \in Minutes
    BY DaemonNumbers
  <2> QED
    BY <1>2, <2>1 DEF BeginTick, Goto, pluginVars, TickPoints, EntryPoints
<1>3. CASE Trigger
  <2>1. position' \in Candidates /\ \A i \in Candidates : position' <= i
    BY <1>3, FirstCandidate DEF Trigger
  <2>2. position' \in DOMAIN Order /\ Order[position'] \in Sources /\ position' # 0
    BY <2>1, OrderIsSequence DEF Candidates
  <2>3. TickMinute \in Minutes /\ TickMinute' = TickMinute
    BY <1>3, Began DEF Trigger, TickMinute, clockVars
  <2>4. triggered' \in [Sources -> Minutes \cup {Never}]
    BY <1>3, <2>2, <2>3 DEF Trigger
  <2>5. PassedAreTriggered'
    <3> SUFFICES ASSUME NEW i \in 1 .. position', TickMinute \in Due[Order[i]]
                 PROVE  triggered'[Order[i]] = TickMinute
      BY <2>3
    <3>1. i \in DOMAIN Order /\ Order[i] \in Sources
      BY <2>2, OrderIsSequence
    <3>2. CASE Order[i] = Order[position']
      BY <1>3, <2>2, <3>2 DEF Trigger
    <3>3. CASE Order[i] # Order[position']
      <4>1. triggered'[Order[i]] = triggered[Order[i]]
        BY <1>3, <3>1, <3>3 DEF Trigger
      <4>2. i # position'
        BY <3>3
      <4>3. i \notin Candidates
        BY <2>1, <2>2, <3>1, <4>2, OrderIsSequence
      <4>4. i <= position \/ triggered[Order[i]] = TickMinute
        BY <3>1, <4>3, OrderIsSequence DEF Candidates
      <4>5. i <= position => i \in 1 .. position
        BY <3>1, OrderIsSequence
      <4> QED
        BY <1>3, <4>1, <4>4, <4>5 DEF Trigger, TickPoints
    <3> QED
      BY <3>2, <3>3
  <2>6. PluginsAreDisposed' /\ EntryInProgress'
    BY <1>3, <2>2 DEF Trigger, Goto, pluginVars, TickPoints, EntryPoints
  <2>7. DaemonTypeOK'
    BY <1>3, <2>2, <2>4 DEF Trigger, Goto, clockVars, pluginVars, TickPoints, EntryPoints
  <2> QED
    BY <2>5, <2>6, <2>7
<1>4. ASSUME EndTick, at \in {"choosing", "checking"}, faults' \in 0 .. MaxFaults,
             checkAge' \in 0 .. OldestCheck, reported' \subseteq Sources,
             UNCHANGED <<minute, age, signalled, stopping, position, triggered, pluginVars,
                         suspended, registered>>
      PROVE  DaemonInvariant'
  <2>1. 0 \in Minutes
    BY DaemonNumbers
  <2> QED
    BY <1>4, <2>1 DEF EndTick, Goto, pluginVars, TickPoints, EntryPoints
<1>5. CASE EndEntries
  <2>1. elapsed \in 0 .. OldestCheck
    BY DaemonNumbers
  <2>2. CASE EndTick /\ UNCHANGED checkAge
    BY <1>4, <1>5, <2>2 DEF EndEntries
  <2>3. CASE checkAge' = elapsed /\ Goto("checking") /\ UNCHANGED elapsed
    BY <1>5, <2>1, <2>3 DEF EndEntries, Goto, pluginVars, TickPoints, EntryPoints, TickMinute
  <2> QED
    BY <1>5, <2>2, <2>3 DEF EndEntries
<1>6. CASE CheckSilence
  BY <1>4, <1>6 DEF CheckSilence
<1>7. CASE CheckFails
  <2>1. faults' \in 0 .. MaxFaults
    BY <1>7, DaemonNumbers DEF CheckFails
  <2> QED
    BY <1>4, <1>7, <2>1 DEF CheckFails
<1> QED
  BY <1>1, <1>2, <1>3, <1>5, <1>6, <1>7

(* The entry in progress: its plugin is disposed of or loaded, whatever fails. *)
LEMMA EntryKeepsInvariant ==
  ASSUME DaemonInvariant, EntryStep \/ RegisterFails
  PROVE  DaemonInvariant'
<1> USE DEF DaemonInvariant, DaemonTypeOK, PluginsAreDisposed, EntryInProgress,
            PassedAreTriggered
<1>1. /\ at \in EntryPoints
      /\ at' \in TickPoints
      /\ UNCHANGED <<minute, elapsed, checkAge, position, triggered, signalled, stopping,
                     reported>>
  BY DEF EntryStep, LoadRefused, LoadFails, Instantiate, InitFails, InitEnds, Register,
         RegisterFails, RunCompletes, RunFails, EndRun, Goto, entryVars, clockVars, EntryPoints,
         TickPoints
<1>2. Current \in Sources /\ Current' = Current /\ TickMinute' = TickMinute
  BY <1>1, CurrentIsSource DEF Current, TickMinute
<1>3. PassedAreTriggered'
  BY <1>1, <1>2 DEF TickPoints
<1>4. CASE LoadRefused \/ LoadFails
  BY <1>1, <1>3, <1>4 DEF LoadRefused, LoadFails, Goto, entryVars, clockVars, pluginVars,
                          EntryPoints
<1>5. CASE Instantiate
  <2>1. at = "loading" /\ Current \notin loaded /\ at' = "initialising"
    BY <1>5 DEF Instantiate, Goto
  <2>2. instances[Current] = 0
    BY <1>2, <2>1
  <2>3. instances' = [instances EXCEPT ![Current] = 1]
    BY <1>2, <1>5, <2>2 DEF Instantiate
  <2> QED
    BY <1>1, <1>2, <1>3, <1>5, <2>1, <2>3 DEF Instantiate, entryVars, clockVars, EntryPoints
<1>6. CASE InitFails
  <2>1. at = "initialising" /\ at' = "choosing"
    BY <1>6 DEF InitFails, Goto
  <2>2. instances' = [instances EXCEPT ![Current] = 0]
    BY <1>2, <1>6, <2>1 DEF InitFails
  <2> QED
    BY <1>1, <1>2, <1>3, <1>6, <2>1, <2>2 DEF InitFails, entryVars, clockVars, EntryPoints
<1>7. CASE InitEnds
  BY <1>1, <1>2, <1>3, <1>7 DEF InitEnds, Goto, entryVars, clockVars, EntryPoints
<1>8. CASE Register
  BY <1>1, <1>2, <1>3, <1>8 DEF Register, Goto, entryVars, clockVars, EntryPoints
<1>9. CASE RegisterFails
  <2>1. faults' \in 0 .. MaxFaults
    BY <1>9, DaemonNumbers DEF RegisterFails
  <2> QED
    BY <1>1, <1>2, <1>3, <1>9, <2>1 DEF RegisterFails, Goto, entryVars, clockVars, pluginVars,
                                        EntryPoints
<1>10. ASSUME NEW q \in BOOLEAN, RunCompletes(q)
       PROVE  DaemonInvariant'
  <2>1. age' \in [Sources -> 0 .. OldestSuccess]
    BY <1>2, <1>10, DaemonNumbers DEF RunCompletes
  <2>2. loaded' = loaded /\ instances' = instances
    BY <1>10 DEF RunCompletes
  <2> QED
    BY <1>1, <1>2, <1>3, <1>10, <2>1, <2>2 DEF RunCompletes, EndRun, Goto, EntryPoints
<1>11. ASSUME NEW q \in BOOLEAN, RunFails(q)
       PROVE  DaemonInvariant'
  BY <1>1, <1>2, <1>3, <1>11 DEF RunFails, EndRun, Goto, entryVars, clockVars, EntryPoints
<1> QED
  BY <1>4, <1>5, <1>6, <1>7, <1>8, <1>9, <1>10, <1>11 DEF EntryStep

-----------------------------------------------------------------------------
(* Theorems *)

LEMMA InitMakesDaemonInvariant ==
  ASSUME DaemonInit
  PROVE  DaemonInvariant
<1>1. /\ 0 \in Minutes
      /\ OldestSuccess \in 0 .. OldestSuccess /\ OldestCheck \in 0 .. OldestCheck
      /\ 0 \in 0 .. MaxFaults
  BY DaemonNumbers
<1>2. DaemonTypeOK
  BY <1>1 DEF DaemonInit, DaemonTypeOK, Dead
<1>3. PluginsAreDisposed /\ EntryInProgress /\ PassedAreTriggered
  BY DEF DaemonInit, PluginsAreDisposed, EntryInProgress, PassedAreTriggered, TickPoints,
         EntryPoints
<1> QED
  BY <1>2, <1>3 DEF DaemonInvariant

(* Each group of steps is covered by one of the lemmas above. *)
LEMMA DaemonStepKeepsInvariant ==
  ASSUME DaemonInvariant, [DaemonNext]_vars
  PROVE  DaemonInvariant'
<1>1. CASE DaemonNext
  BY <1>1, PassKeepsInvariant, ProcessKeepsInvariant, LoopKeepsInvariant, EntryKeepsInvariant
     DEF DaemonNext, LoopStep, Fault
<1>2. CASE UNCHANGED vars
  BY <1>2 DEF vars, clockVars, pluginVars, DaemonInvariant, DaemonTypeOK,
              PluginsAreDisposed, EntryInProgress, PassedAreTriggered, Current, TickMinute
<1> QED
  BY <1>1, <1>2

(* The inductive invariant of the daemon: the clock, the loop, the entry in
   progress and the plugins of the process, whatever the calendar and the faults. *)
THEOREM DaemonIsInvariant == DaemonSpec => []DaemonInvariant
BY InitMakesDaemonInvariant, DaemonStepKeepsInvariant, PTL DEF DaemonSpec

(* Type correctness: every age and minute stays within its bounds. *)
THEOREM DaemonTypes == DaemonSpec => []DaemonTypeOK
<1>1. DaemonInvariant => DaemonTypeOK
  BY DEF DaemonInvariant
<1> QED
  BY DaemonIsInvariant, <1>1, PTL

(* "dispose() est toujours appele, meme apres panne": no plugin outlives its
   entry unless it is loaded, and none outlives the process. *)
THEOREM PluginsAlwaysDisposed == DaemonSpec => []PluginsAreDisposed
<1>1. DaemonInvariant => PluginsAreDisposed
  BY DEF DaemonInvariant
<1> QED
  BY DaemonIsInvariant, <1>1, PTL

(* A tick that nobody stopped ends once no entry is left that falls due. *)
LEMMA TickEndsPastAll ==
  ASSUME DaemonInvariant, [DaemonNext]_vars,
         ~ stopping, at \in TickPoints \ {"checking"}, at' \in {"checking", "sleeping"},
         NEW s \in Sources, TickMinute \in Due[s]
  PROVE  triggered[s] = TickMinute
<1>1. EndEntries
  BY DEF DaemonNext, vars, Pass, Boot, Signal, ForcedStop, Kill, Die, Resume, LoopStep,
         StartLoop, LeaveLoop, BeginTick, Trigger, CheckSilence, WakeUp, Close, WakeUpEarly,
         EntryStep, LoadRefused, LoadFails, Instantiate, InitFails, InitEnds, Register,
         RunCompletes, RunFails, EndRun, Fault, CheckFails, RegisterFails, Goto, TickPoints,
         EntryPoints, Dead
<1>2. Candidates = {} /\ at = "choosing"
  BY <1>1 DEF EndEntries
<1>3. PICK i \in DOMAIN Order : s = Order[i]
  BY DEF Sources
<1>4. CASE i > position
  BY <1>2, <1>3, <1>4 DEF Candidates
<1>5. CASE i <= position
  BY <1>2, <1>3, <1>5, OrderIsSequence
     DEF DaemonInvariant, DaemonTypeOK, PassedAreTriggered, TickPoints
<1> QED
  BY <1>3, <1>4, <1>5, OrderIsSequence DEF DaemonInvariant, DaemonTypeOK

(* "Une source qui echoue ne doit jamais emporter les autres ni le demon": each
   source due at the minute of the tick was triggered for it, however the ones
   before it ended. *)
THEOREM FailuresAlwaysIsolated == DaemonSpec => FailuresAreIsolated
<1>1. DaemonInvariant /\ [DaemonNext]_vars =>
        [~ stopping /\ at \in TickPoints \ {"checking"} /\ at' \in {"checking", "sleeping"} =>
           \A s \in Sources : TickMinute \in Due[s] => triggered[s] = TickMinute]_vars
  BY TickEndsPastAll
<1> QED
  BY DaemonIsInvariant, <1>1, PTL DEF DaemonSpec, FailuresAreIsolated

(* "une quarantaine ne se leve pas en redemarrant": a collection begins by the
   registration of its source, which reads the quarantine on disk. *)
THEOREM QuarantineSurvivesRestarts == DaemonSpec => QuarantineOutlivesProcess
<1>1. ASSUME [DaemonNext]_vars
      PROVE  [at # "collecting" /\ at' = "collecting" => Current \notin suspended]_vars
  <2> SUFFICES ASSUME at # "collecting", at' = "collecting"
               PROVE  Current \notin suspended
    OBVIOUS
  <2>1. Register
    BY <1>1 DEF DaemonNext, vars, Pass, Boot, Signal, ForcedStop, Kill, Die, Resume, LoopStep,
         StartLoop, LeaveLoop, BeginTick, Trigger, EndEntries, EndTick, CheckSilence, WakeUp,
         Close, WakeUpEarly, EntryStep, LoadRefused, LoadFails, Instantiate, InitFails,
         InitEnds, RunCompletes, RunFails, EndRun, Fault, CheckFails, RegisterFails, Goto
  <2> QED
    BY <2>1 DEF Register, Goto
<1> QED
  BY <1>1, PTL DEF DaemonSpec, QuarantineOutlivesProcess
=============================================================================
