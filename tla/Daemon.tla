------------------------------- MODULE Daemon -------------------------------
(***************************************************************************)
(* lcf daemon: the loop of scheduling/scheduler.ts, the process around it  *)
(* (packages/cli/src/daemon.ts) and what it does with plugins: App.        *)
(* loadSource() and PluginManager.load(), dispose().                       *)
(*                                                                         *)
(* One process runs the sources one after the other.  Time is counted in   *)
(* minutes and goes on while it awaits; a signal may come at each await.   *)
(* What a collection does is in SourceRuns: here it is one step.           *)
(***************************************************************************)
EXTENDS Integers, Sequences, FiniteSetsExt

CONSTANTS
  Order,       \* the enabled sources, in the order of the configuration
  Cycle,       \* bound: the cron expressions repeat after so many minutes, two at least
  Due,         \* Due[s]: the minutes of the cycle that the cron of s matches
  Blackout,    \* the minutes of the cycle that an exclusion window covers
  SilenceEvery,\* minutes between two checks of the silent sources
  SilentAfter, \* minutes without success after which a source is silent
  MaxFaults    \* bound: kills and failing queries in a behaviour

Sources == {Order[i] : i \in DOMAIN Order}
Minutes == 0 .. Cycle - 1
Never == Cycle

ASSUME OrderAssumption == Order \in Seq(Sources)
ASSUME TimesAssumption ==
  /\ Cycle \in Nat \ {0, 1}
  /\ SilenceEvery \in Nat
  /\ SilentAfter \in Nat
  /\ MaxFaults \in Nat
ASSUME DueAssumption == Due \in [Sources -> SUBSET Minutes]
ASSUME BlackoutAssumption == Blackout \subseteq Minutes

VARIABLES
  minute,     \* the clock
  elapsed,    \* minutes since the tick, or the sleep, under way began
  at,         \* the await the process stands at
  signalled,  \* a signal was received: the next one kills
  stopping,   \* #stopping
  position,   \* the entry of Order that the tick has reached
  triggered,  \* triggered[s]: lastTriggeredMinute
  loaded,     \* #loaded
  quarantined,\* loaded sources in the state "quarantined", in memory
  instances,  \* instances[s]: plugins of s initialised and not disposed of
  suspended,  \* sources in quarantine on disk
  registered, \* sources that have a row in the index, on disk
  age,        \* age[s]: minutes since lastSuccessAt, on disk
  checkAge,   \* minutes since #lastSilenceCheckAt
  reported,   \* sources that the last check found silent
  faults      \* kills and failing queries so far

clockVars == <<minute, elapsed, age, checkAge>>
pluginVars == <<loaded, quarantined, instances>>
vars == <<clockVars, at, signalled, stopping, position, triggered, pluginVars,
          suspended, registered, reported, faults>>

(* The awaits between the choice of an entry and the end of its collection. *)
EntryPoints == {"loading", "initialising", "registering", "collecting"}
TickPoints == EntryPoints \cup {"choosing", "checking"}
Dead == {"down", "ended"}

(* Beyond these ages a tick, which lasts less than a cycle, decides the same. *)
OldestSuccess == SilentAfter + Cycle
OldestCheck == SilenceEvery + Cycle

DaemonTypeOK ==
  /\ minute \in Minutes
  /\ elapsed \in Minutes
  /\ at \in TickPoints \cup {"starting", "looping", "sleeping", "closing"} \cup Dead
  /\ signalled \in BOOLEAN
  /\ stopping \in BOOLEAN
  /\ position \in {0} \cup DOMAIN Order
  /\ triggered \in [Sources -> Minutes \cup {Never}]
  /\ loaded \subseteq Sources
  /\ quarantined \subseteq loaded
  /\ instances \in [Sources -> {0, 1}]
  /\ suspended \subseteq Sources
  /\ registered \subseteq Sources
  /\ age \in [Sources -> 0 .. OldestSuccess]
  /\ checkAge \in 0 .. OldestCheck
  /\ reported \subseteq Sources
  /\ faults \in 0 .. MaxFaults

DaemonInit ==
  /\ minute \in Minutes
  /\ elapsed = 0
  /\ at = "down"
  /\ signalled = FALSE
  /\ stopping = FALSE
  /\ position = 0
  /\ triggered = [s \in Sources |-> Never]
  /\ loaded = {}
  /\ quarantined = {}
  /\ instances = [s \in Sources |-> 0]
  /\ suspended = {}
  /\ registered = {}
  /\ age = [s \in Sources |-> OldestSuccess]
  /\ checkAge = OldestCheck
  /\ reported = {}
  /\ faults = 0

Goto(p) == at' = p

Current == Order[position]

(* The instant that the tick took from the clock when it began. *)
TickMinute == (minute + Cycle - elapsed) % Cycle

-----------------------------------------------------------------------------
(* Time.  A tick lasts less than a cycle and a sleep ends with the minute; a
   minute that comes round again is another minute.  Nothing is awaited between
   the end of a sleep and the next tick. *)
Pass ==
  LET next == (minute + 1) % Cycle
  IN  /\ at # "looping"
      /\ at \in TickPoints => elapsed < Cycle - 1
      /\ at = "sleeping" => elapsed < 1
      /\ minute' = next
      /\ elapsed' = IF at \in TickPoints \cup {"sleeping"} THEN elapsed + 1 ELSE 0
      /\ triggered' = [s \in Sources |-> IF triggered[s] = next THEN Never ELSE triggered[s]]
      /\ age' = [s \in Sources |-> IF age[s] < OldestSuccess THEN age[s] + 1 ELSE age[s]]
      /\ checkAge' = IF checkAge < OldestCheck THEN checkAge + 1 ELSE checkAge
      /\ UNCHANGED <<at, signalled, stopping, position, pluginVars, suspended, registered,
                     reported, faults>>

-----------------------------------------------------------------------------
(* The process *)

(* What the process holds in memory is gone, its plugins excepted. *)
Forget ==
  /\ elapsed' = 0
  /\ signalled' = FALSE
  /\ stopping' = FALSE
  /\ position' = 0
  /\ triggered' = [s \in Sources |-> Never]
  /\ loaded' = {}
  /\ quarantined' = {}
  /\ checkAge' = OldestCheck
  /\ UNCHANGED <<minute, age, suspended, registered, reported>>

(* runDaemon() up to the heartbeat: migrations, registration of the sources,
   signal handlers. *)
Boot ==
  /\ at \in Dead
  /\ Goto("starting")
  /\ instances' = [s \in Sources |-> 0]
  /\ UNCHANGED <<clockVars, signalled, stopping, position, triggered, loaded, quarantined,
                 suspended, registered, reported, faults>>

Signal ==
  /\ at \notin Dead
  /\ ~ signalled
  /\ signalled' = TRUE
  /\ stopping' = TRUE
  /\ UNCHANGED <<clockVars, at, position, triggered, pluginVars, suspended, registered,
                 reported, faults>>

Die ==
  /\ at \notin Dead
  /\ Goto("down")
  /\ instances' = [s \in Sources |-> 0]
  /\ Forget

(* The second signal: process.exit(130). *)
ForcedStop ==
  /\ signalled
  /\ Die
  /\ UNCHANGED faults

Kill ==
  /\ faults < MaxFaults
  /\ faults' = faults + 1
  /\ Die

(* app.close(): every loaded plugin is disposed of. *)
Close ==
  /\ at = "closing"
  /\ Goto("ended")
  /\ instances' = [s \in Sources |-> IF s \in loaded THEN 0 ELSE instances[s]]
  /\ Forget
  /\ UNCHANGED faults

(* lcf resume, another process, lifts the quarantine on disk. *)
Resume(s) ==
  /\ s \in suspended
  /\ suspended' = suspended \ {s}
  /\ UNCHANGED <<clockVars, at, signalled, stopping, position, triggered, pluginVars, registered,
                 reported, faults>>

-----------------------------------------------------------------------------
(* The loop of Scheduler.start() *)

(* start() forgets a stop that was asked before it. *)
StartLoop ==
  /\ at = "starting"
  /\ stopping' = FALSE
  /\ Goto("looping")
  /\ UNCHANGED <<clockVars, signalled, position, triggered, pluginVars, suspended, registered,
                 reported, faults>>

LeaveLoop ==
  /\ at = "looping"
  /\ stopping
  /\ Goto("closing")
  /\ UNCHANGED <<clockVars, signalled, stopping, position, triggered, pluginVars, suspended,
                 registered, reported, faults>>

(* Mutation of BeginTick: #stopping is reset at each tick, not once. *)
BeginTickForgetting ==
  /\ at = "looping"
  /\ elapsed' = 0
  /\ position' = 0
  /\ stopping' = FALSE
  /\ Goto(IF minute \in Blackout THEN "sleeping" ELSE "choosing")
  /\ UNCHANGED <<minute, age, checkAge, signalled, triggered, pluginVars, suspended, registered,
                 reported, faults>>

(* In an exclusion window the tick is over before it begins. *)
BeginTick ==
  /\ at = "looping"
  /\ ~ stopping
  /\ elapsed' = 0
  /\ position' = 0
  /\ Goto(IF minute \in Blackout THEN "sleeping" ELSE "choosing")
  /\ UNCHANGED <<minute, age, checkAge, signalled, stopping, triggered, pluginVars, suspended,
                 registered, reported, faults>>

(* The entries after the one reached that fall due and were not triggered yet. *)
Candidates ==
  {i \in DOMAIN Order :
     /\ i > position
     /\ triggered[Order[i]] # TickMinute
     /\ TickMinute \in Due[Order[i]]}

Trigger ==
  /\ at = "choosing"
  /\ ~ stopping
  /\ Candidates # {}
  /\ position' = Min(Candidates)
  /\ triggered' = [triggered EXCEPT ![Order[position']] = TickMinute]
  /\ Goto("loading")
  /\ UNCHANGED <<clockVars, signalled, stopping, pluginVars, suspended, registered, reported,
                 faults>>

(* The end of tick(): the loop sleeps until the next minute, or stops. *)
EndTick ==
  /\ Goto(IF stopping THEN "closing" ELSE "sleeping")
  /\ elapsed' = 0

(* Mutation of EndEntries: the time of the check is set whether it is due or not. *)
EndEntriesResetting ==
  /\ at = "choosing"
  /\ stopping \/ Candidates = {}
  /\ checkAge' = elapsed
  /\ IF checkAge - elapsed >= SilenceEvery
     THEN Goto("checking") /\ UNCHANGED elapsed
     ELSE EndTick
  /\ UNCHANGED <<minute, age, signalled, stopping, position, triggered, pluginVars, suspended,
                 registered, reported, faults>>

(* backgroundWork() goes by the instant at which the tick began. *)
EndEntries ==
  /\ at = "choosing"
  /\ stopping \/ Candidates = {}
  /\ IF checkAge - elapsed >= SilenceEvery
     THEN checkAge' = elapsed /\ Goto("checking") /\ UNCHANGED elapsed
     ELSE EndTick /\ UNCHANGED checkAge
  /\ UNCHANGED <<minute, age, signalled, stopping, position, triggered, pluginVars, suspended,
                 registered, reported, faults>>

(* A source that has no row yet is passed over, and so would be one in the state
   "disabled", which no code gives it. *)
CheckSilence ==
  /\ at = "checking"
  /\ reported' = {s \in registered : age[s] - elapsed > SilentAfter}
  /\ EndTick
  /\ UNCHANGED <<minute, age, checkAge, signalled, stopping, position, triggered, pluginVars,
                 suspended, registered, faults>>

(* A query throws out of tick(): the loop catches it and goes on. *)
CheckFails ==
  /\ at = "checking"
  /\ faults < MaxFaults
  /\ faults' = faults + 1
  /\ EndTick
  /\ UNCHANGED <<minute, age, checkAge, signalled, stopping, position, triggered, pluginVars,
                 suspended, registered, reported>>

WakeUp ==
  /\ at = "sleeping"
  /\ elapsed > 0
  /\ Goto("looping")
  /\ UNCHANGED <<clockVars, signalled, stopping, position, triggered, pluginVars, suspended,
                 registered, reported, faults>>

(* A timer may fire before the minute is over: the tick is then repeated in it. *)
WakeUpEarly ==
  /\ at = "sleeping"
  /\ elapsed = 0
  /\ Goto("looping")
  /\ UNCHANGED <<clockVars, signalled, stopping, position, triggered, pluginVars, suspended,
                 registered, reported, faults>>

-----------------------------------------------------------------------------
(* One entry: Scheduler.#collect(), which catches whatever fails in it *)

entryVars == <<clockVars, signalled, stopping, position, triggered>>

(* "source deja chargee" *)
LoadRefused ==
  /\ at = "loading"
  /\ Current \in loaded
  /\ Goto("choosing")
  /\ UNCHANGED <<entryVars, pluginVars, suspended, registered, reported, faults>>

(* Mutation of LoadFails: the error ends the tick. *)
LoadFailsTick ==
  /\ at = "loading"
  /\ Current \notin loaded
  /\ EndTick
  /\ UNCHANGED <<minute, age, checkAge, signalled, stopping, position, triggered, pluginVars,
                 suspended, registered, reported, faults>>

(* An invalid configuration, a missing secret, an unreadable module. *)
LoadFails ==
  /\ at = "loading"
  /\ Current \notin loaded
  /\ Goto("choosing")
  /\ UNCHANGED <<entryVars, pluginVars, suspended, registered, reported, faults>>

Instantiate ==
  /\ at = "loading"
  /\ Current \notin loaded
  /\ instances' = [instances EXCEPT ![Current] = @ + 1]
  /\ Goto("initialising")
  /\ UNCHANGED <<entryVars, loaded, quarantined, suspended, registered, reported, faults>>

(* Mutation of InitFails: a plugin whose init() failed is left as it is. *)
InitFailsUndisposed ==
  /\ at = "initialising"
  /\ Goto("choosing")
  /\ UNCHANGED <<entryVars, pluginVars, suspended, registered, reported, faults>>

InitFails ==
  /\ at = "initialising"
  /\ instances' = [instances EXCEPT ![Current] = @ - 1]
  /\ Goto("choosing")
  /\ UNCHANGED <<entryVars, loaded, quarantined, suspended, registered, reported, faults>>

InitEnds ==
  /\ at = "initialising"
  /\ loaded' = loaded \cup {Current}
  /\ Goto("registering")
  /\ UNCHANGED <<entryVars, quarantined, instances, suspended, registered, reported, faults>>

(* Mutation of Register: the state on disk is not read. *)
RegisterForgetful ==
  /\ at = "registering"
  /\ registered' = registered \cup {Current}
  /\ Goto("collecting")
  /\ UNCHANGED <<entryVars, pluginVars, suspended, reported, faults>>

(* loadSource() gives the source its row in the index and takes over a quarantine
   kept on disk. *)
Register ==
  /\ at = "registering"
  /\ registered' = registered \cup {Current}
  /\ IF Current \in suspended
     THEN quarantined' = quarantined \cup {Current} /\ Goto("choosing")
     ELSE UNCHANGED quarantined /\ Goto("collecting")
  /\ UNCHANGED <<entryVars, loaded, instances, suspended, reported, faults>>

(* The query that fails comes before the row is written or after. *)
RegisterFails ==
  /\ at = "registering"
  /\ faults < MaxFaults
  /\ faults' = faults + 1
  /\ registered' \in {registered, registered \cup {Current}}
  /\ Goto("choosing")
  /\ UNCHANGED <<entryVars, pluginVars, suspended, reported>>

(* A run may put its source in quarantine when it ends: in memory, then on disk. *)
EndRun(quarantine) ==
  /\ at = "collecting"
  /\ quarantined' = IF quarantine THEN quarantined \cup {Current} ELSE quarantined
  /\ suspended' = IF quarantine THEN suspended \cup {Current} ELSE suspended
  /\ Goto("choosing")

(* The scheduler asks for incremental runs.  One that was promoted to a full run may
   find that its source has listed nothing for several of them. *)
RunCompletes(quarantine) ==
  /\ EndRun(quarantine)
  /\ age' = [age EXCEPT ![Current] = 0]
  /\ UNCHANGED <<minute, elapsed, checkAge, signalled, stopping, position, triggered,
                 loaded, instances, registered, reported, faults>>

(* The run failed or threw. *)
RunFails(quarantine) ==
  /\ EndRun(quarantine)
  /\ UNCHANGED <<entryVars, loaded, instances, registered, reported, faults>>

-----------------------------------------------------------------------------
EntryStep ==
  \/ LoadRefused \/ LoadFails
  \/ Instantiate \/ InitFails \/ InitEnds
  \/ Register
  \/ \E q \in BOOLEAN : RunCompletes(q) \/ RunFails(q)

LoopStep ==
  \/ StartLoop \/ LeaveLoop \/ BeginTick \/ Trigger \/ EndEntries \/ CheckSilence
  \/ WakeUp \/ Close

Fault == Kill \/ CheckFails \/ RegisterFails

DaemonNext ==
  \/ Pass
  \/ Boot \/ Signal \/ ForcedStop
  \/ \E s \in Sources : Resume(s)
  \/ LoopStep \/ WakeUpEarly
  \/ EntryStep
  \/ Fault

DaemonSpec == DaemonInit /\ [][DaemonNext]_vars

(* Time passes whatever the process does; awaits come back, an init() and a run
   having a time limit. *)
DaemonFairSpec == DaemonSpec /\ SF_vars(Pass) /\ WF_vars(LoopStep) /\ WF_vars(EntryStep)

-----------------------------------------------------------------------------
(* Properties *)

(* "Une source qui echoue ne doit jamais emporter les autres ni le demon": a tick
   that nobody stops is not over before each source due at its minute has been
   triggered for that minute, however the ones before it ended. *)
FailuresAreIsolated ==
  [][~ stopping /\ at \in TickPoints \ {"checking"} /\ at' \in {"checking", "sleeping"} =>
       \A s \in Sources : TickMinute \in Due[s] => triggered[s] = TickMinute]_vars

(* "une quarantaine ne se leve pas en redemarrant": whatever was killed and
   started again, no collection of a source begins while the disk says that it is
   in quarantine. *)
QuarantineOutlivesProcess ==
  [][at # "collecting" /\ at' = "collecting" => Current \notin suspended]_vars

(* "dispose() est toujours appele, meme apres panne": the plugins initialised are
   those that are loaded, and the one being loaded; none is left when the
   daemon ends. *)
PluginsAreDisposed ==
  \A s \in Sources :
    instances[s] > 0 => s \in loaded \/ (at = "initialising" /\ s = Current)

(* "Le tour en cours va a son terme", and then the loop ends: a stop that start()
   has not forgotten is obeyed, at whatever await it came. *)
StopIsObeyed ==
  stopping /\ at # "starting" ~> at \in Dead

(* "Une source qui ne renvoie plus rien ne declenche aucune alarme naturelle": if
   the daemon stays up and a source that was loaded once no longer succeeds, the
   check ends by reporting it, at each check. *)
SilenceIsReported ==
  \A s \in Sources :
    <>[](at \notin Dead /\ s \in registered /\ age[s] > SilentAfter) => <>[](s \in reported)

-----------------------------------------------------------------------------
(* Statements of the comments and documents that the code does not keep: TLC
   finds a counterexample of each (README, section 3). *)

(* "collecte quotidienne automatique": a source that falls due again can be
   loaded again. *)
SourcesAreCollectedAgain == at = "loading" => Current \notin loaded

(* The same of any source: one that never loads has no row, and is silent without
   being reported. *)
EverySilenceIsReported ==
  \A s \in Sources :
    <>[](at \notin Dead /\ age[s] > SilentAfter) => <>[](s \in reported)

(* "arret apres le tour en cours": the daemon ends after a signal. *)
SignalIsObeyed == signalled ~> at \in Dead

(* "aucune collecte ne doit solliciter la source": none begins in a window. *)
BlackoutIsRespected ==
  [][at # "collecting" /\ at' = "collecting" => minute \notin Blackout]_vars

-----------------------------------------------------------------------------
(* Why the properties hold: the invariant that every step preserves. *)

(* An entry in progress is one of the configuration; its plugin is the one that
   init() has not answered for, then it is loaded. *)
EntryInProgress ==
  /\ at \in EntryPoints => position # 0
  /\ at = "initialising" => instances[Current] = 1
  /\ at \in {"registering", "collecting"} => Current \in loaded

(* What the tick has gone past was triggered, if it was due. *)
PassedAreTriggered ==
  at \in TickPoints =>
    \A i \in 1 .. position :
      TickMinute \in Due[Order[i]] => triggered[Order[i]] = TickMinute

DaemonInvariant ==
  /\ DaemonTypeOK
  /\ PluginsAreDisposed
  /\ EntryInProgress
  /\ PassedAreTriggered
=============================================================================
