------------------------------- MODULE Sweep -------------------------------
(***************************************************************************)
(* What the runs of one source conclude about its documents: the status    *)
(* column of documents, the detection of withdrawn documents and of silent *)
(* sources (db/sql-repository.ts, collection-runner.ts), over a paginated  *)
(* index that resumes where an interrupted sweep stopped                   *)
(* (plugin-toolkit/src/paginated-index.ts).                                *)
(*                                                                         *)
(* The source may stop or resume listing the documents of Leaving at any   *)
(* time; the others stay on their page for ever.  Times are abstracted:    *)
(* missed[d] is what withdrawUnseen() counts, the complete full sweeps     *)
(* that started after last_seen_at.  Runs of the source follow one another *)
(* (their overlap is in SourceRuns).                                       *)
(***************************************************************************)
EXTENDS Naturals, FiniteSets

CONSTANTS
  Docs,          \* documents of the source
  Leaving,       \* those it may stop listing
  PageOf,        \* PageOf[d]: the page of the index that lists d
  LastPage,      \* number of pages of the index
  PageLimits,    \* the values that maxPages may be configured to
  MissedSweeps,  \* withdrawalSweeps
  SilentSweeps,  \* EMPTY_RUN_STREAK
  NoDoc,         \* no document is being collected
  Faults         \* "error": a page may be unreadable; "crash": the process may die

ASSUME LeavingAssumption == Leaving \subseteq Docs
ASSUME PagesAssumption ==
  /\ LastPage \in Nat \ {0}
  /\ PageLimits \subseteq Nat \ {0}
  /\ PageOf \in [Docs -> 1 .. LastPage]
ASSUME SweepsAssumption == MissedSweeps \in Nat \ {0} /\ SilentSweeps \in Nat \ {0}
ASSUME NoDocAssumption == NoDoc \notin Docs

VARIABLES
  listed,      \* documents that the source lists now
  maxPages,    \* the pages one enumeration may read
  status,      \* status[d]: documents.status, "none" without a row
  versioned,   \* documents with a current version
  missed,      \* missed[d]: complete full sweeps since the document was seen
  streak,      \* emptyFullRunStreak(), up to SilentSweeps
  quarantine,  \* "no", or why the source is suspended
  swept,       \* lastFullSweepAt() finds a sweep
  saved,       \* cursor of lastCheckpoint(), NoCheckpoint before the first one
  cursor,      \* the plugin's cursor in memory, 0 when no sweep is in progress
  phase,       \* where run() stands
  mode,        \* the mode applied
  page,        \* the page being enumerated
  todo,        \* its references not yet taken
  doc,         \* the document in #collectOne
  seen,        \* documents seen by this run
  summary      \* errorSummary is set

indexVars == <<status, versioned, missed, streak, quarantine, swept, saved>>
runVars == <<cursor, phase, mode, page, todo, doc, seen, summary>>
sourceVars == <<listed, maxPages>>
vars == <<sourceVars, indexVars, runVars>>

NoCheckpoint == LastPage + 1

SweepTypeOK ==
  /\ listed \subseteq Docs
  /\ maxPages \in PageLimits
  /\ status \in [Docs -> {"none", "discovered", "stored", "failed", "withdrawn"}]
  /\ versioned \subseteq Docs
  /\ missed \in [Docs -> 0 .. MissedSweeps]
  /\ streak \in 0 .. SilentSweeps
  /\ quarantine \in {"no", "silence", "fatal"}
  /\ swept \in BOOLEAN
  /\ saved \in 0 .. LastPage + 1
  /\ cursor \in 0 .. LastPage
  /\ phase \in {"idle", "paging", "emitting", "collecting", "retrying", "closing"}
  /\ mode \in {"full", "incremental"}
  /\ page \in 1 .. LastPage
  /\ todo \subseteq Docs
  /\ doc \in Docs \cup {NoDoc}
  /\ seen \subseteq Docs
  /\ summary \in BOOLEAN

SweepInit ==
  /\ listed = Docs
  /\ maxPages \in PageLimits
  /\ status = [d \in Docs |-> "none"]
  /\ versioned = {}
  /\ missed = [d \in Docs |-> 0]
  /\ streak = 0
  /\ quarantine = "no"
  /\ swept = FALSE
  /\ saved = NoCheckpoint
  /\ cursor = 0
  /\ phase = "idle"
  /\ mode = "full"
  /\ page = 1
  /\ todo = {}
  /\ doc = NoDoc
  /\ seen = {}
  /\ summary = FALSE

-----------------------------------------------------------------------------
(* The source *)

Delist(d) ==
  /\ d \in Leaving \cap listed
  /\ listed' = listed \ {d}
  /\ UNCHANGED <<maxPages, indexVars, runVars>>

Relist(d) ==
  /\ d \in Leaving \ listed
  /\ listed' = listed \cup {d}
  /\ UNCHANGED <<maxPages, indexVars, runVars>>

-----------------------------------------------------------------------------
(* A run *)

(* An incremental run needs a previous full sweep; the checkpoint of the last
   completed run is restored whatever the mode. *)
Start(m) ==
  LET from == IF saved = NoCheckpoint THEN cursor ELSE saved
  IN  /\ phase = "idle"
      /\ quarantine = "no"
      /\ m = "incremental" => swept
      /\ mode' = m
      /\ cursor' = from
      /\ page' = IF from = 0 THEN 1 ELSE from
      /\ seen' = {}
      /\ summary' = FALSE
      /\ phase' = "paging"
      /\ UNCHANGED <<sourceVars, indexVars, todo, doc>>

(* A page is remembered before it is handled. *)
ReadPage ==
  /\ phase = "paging"
  /\ cursor' = page
  /\ todo' = {d \in listed : PageOf[d] = page}
  /\ phase' = "emitting"
  /\ UNCHANGED <<sourceVars, indexVars, mode, page, doc, seen, summary>>

(* shouldStopAtPage(): an incremental run drops a page that is old enough. *)
StopAtPage ==
  /\ phase = "paging"
  /\ mode = "incremental"
  /\ cursor' = 0
  /\ phase' = "retrying"
  /\ UNCHANGED <<sourceVars, indexVars, mode, page, todo, doc, seen, summary>>

(* recordDiscovery(): a document that came back is "stored" again. *)
Discover(d) ==
  /\ phase = "emitting"
  /\ d \in todo
  /\ status' = [status EXCEPT ![d] = CASE @ = "none" -> "discovered"
                                       [] @ = "withdrawn" -> "stored"
                                       [] OTHER -> @]
  /\ missed' = [missed EXCEPT ![d] = 0]
  /\ seen' = seen \cup {d}
  /\ todo' = todo \ {d}
  /\ doc' = d
  /\ phase' = "collecting"
  /\ UNCHANGED <<sourceVars, versioned, streak, quarantine, swept, saved, cursor, mode,
                 page, summary>>

(* commitDocument(), or touchDocument() on a version that is known. *)
Collect(d) ==
  /\ status' = [status EXCEPT ![d] = IF d \in versioned THEN @ ELSE "stored"]
  /\ versioned' = versioned \cup {d}

(* markDocumentFailed(): a stored document is never degraded. *)
MarkFailed(d) ==
  /\ status' = [status EXCEPT ![d] = IF @ = "stored" THEN @ ELSE "failed"]
  /\ UNCHANGED versioned

Collected ==
  /\ phase = "collecting"
  /\ Collect(doc) \/ MarkFailed(doc)
  /\ doc' = NoDoc
  /\ phase' = "emitting"
  /\ UNCHANGED <<sourceVars, missed, streak, quarantine, swept, saved, cursor, mode, page,
                 todo, seen, summary>>

(* The document was the last that maxDocuments allows. *)
Truncated ==
  /\ phase = "collecting"
  /\ Collect(doc) \/ MarkFailed(doc)
  /\ doc' = NoDoc
  /\ todo' = {}
  /\ summary' = TRUE
  /\ phase' = "retrying"
  /\ UNCHANGED <<sourceVars, missed, streak, quarantine, swept, saved, cursor, mode, page,
                 seen>>

NextPage ==
  /\ phase = "emitting"
  /\ todo = {}
  /\ page < LastPage
  /\ page < maxPages
  /\ page' = page + 1
  /\ phase' = "paging"
  /\ UNCHANGED <<sourceVars, indexVars, cursor, mode, todo, doc, seen, summary>>

(* No next page: #sweepCompleted() forgets the cursor. *)
SweepCompleted ==
  /\ phase = "emitting"
  /\ todo = {}
  /\ page = LastPage
  /\ cursor' = 0
  /\ phase' = "retrying"
  /\ UNCHANGED <<sourceVars, indexVars, mode, page, todo, doc, seen, summary>>

(* The limit on pages ends the enumeration like an end of the index does: only
   the cursor tells them apart. *)
PageLimit ==
  /\ phase = "emitting"
  /\ todo = {}
  /\ page < LastPage
  /\ page >= maxPages
  /\ phase' = "retrying"
  /\ UNCHANGED <<sourceVars, indexVars, cursor, mode, page, todo, doc, seen, summary>>

(* A stop or a blackout window, seen when the next reference arrives; the run
   is "completed", with an errorSummary. *)
Interrupted ==
  /\ phase = "emitting"
  /\ todo # {}
  /\ todo' = {}
  /\ summary' = TRUE
  /\ phase' = "closing"
  /\ UNCHANGED <<sourceVars, indexVars, cursor, mode, page, doc, seen>>

(* The budget runs out on a page or on a document: "completed" as well. *)
OutOfBudget ==
  /\ phase \in {"paging", "collecting"}
  /\ cursor' = page
  /\ todo' = {}
  /\ doc' = NoDoc
  /\ summary' = TRUE
  /\ phase' = "retrying"
  /\ UNCHANGED <<sourceVars, indexVars, mode, page, seen>>

(* retryFailed(), unless the sweep was full.  Every attempt writes
   last_seen_at, successful or not. *)
Retry(d) ==
  /\ phase = "retrying"
  /\ mode = "incremental"
  /\ status[d] = "failed"
  /\ Collect(d) \/ MarkFailed(d)
  /\ missed' = [missed EXCEPT ![d] = 0]
  /\ seen' = seen \cup {d}
  /\ UNCHANGED <<sourceVars, streak, quarantine, swept, saved, cursor, phase, mode, page,
                 todo, doc, summary>>

EndRetry ==
  /\ phase = "retrying"
  /\ phase' = "closing"
  /\ UNCHANGED <<sourceVars, indexVars, cursor, mode, page, todo, doc, seen, summary>>

(* Mutation of CompleteSweep: an interrupted sweep counts. *)
AnySweep == mode = "full"

(* Only a full sweep without an errorSummary attests an absence. *)
CompleteSweep == mode = "full" /\ ~ summary

(* Mutation of NewMissed: an interrupted sweep starts the count again. *)
NewMissedConsecutive ==
  [d \in Docs |->
     CASE ~ CompleteSweep -> 0
       [] status[d] # "none" /\ d \notin seen /\ missed[d] < MissedSweeps -> missed[d] + 1
       [] OTHER -> missed[d]]

(* The complete sweeps that did not see a document, once this run counts. *)
NewMissed ==
  [d \in Docs |->
     IF CompleteSweep /\ status[d] # "none" /\ d \notin seen /\ missed[d] < MissedSweeps
     THEN missed[d] + 1
     ELSE missed[d]]

(* emptyFullRunStreak(): full runs in a row that discovered nothing. *)
NewStreak == CASE mode # "full" -> streak
               [] seen # {} -> 0
               [] streak < SilentSweeps -> streak + 1
               [] OTHER -> streak

(* A source that has given nothing for long, and had given something before. *)
Silent == NewStreak >= SilentSweeps /\ \E d \in Docs : status[d] # "none"

(* closeRun() with the checkpoint; then, after a full sweep, withdrawUnseen()
   and the quarantine of a silent source. *)
Close ==
  /\ phase = "closing"
  /\ missed' = NewMissed
  /\ streak' = NewStreak
  /\ status' = [d \in Docs |->
                  IF mode = "full" /\ status[d] # "none" /\ NewMissed[d] >= MissedSweeps
                  THEN "withdrawn"
                  ELSE status[d]]
  /\ quarantine' = IF mode = "full" /\ Silent THEN "silence" ELSE quarantine
  /\ swept' = (swept \/ CompleteSweep)
  /\ saved' = cursor
  /\ phase' = "idle"
  /\ UNCHANGED <<sourceVars, versioned, cursor, mode, page, todo, doc, seen, summary>>

(* The row of the run is "failed": neither its counters nor its checkpoint are
   ever read.  An error that concerns the whole source suspends it. *)
Failed ==
  /\ quarantine' \in {"no", "fatal"}
  /\ todo' = {}
  /\ doc' = NoDoc
  /\ phase' = "idle"
  /\ UNCHANGED <<sourceVars, missed, streak, swept, saved, mode, page, seen, summary>>

(* A page is unreadable. *)
Fail ==
  /\ "error" \in Faults
  /\ phase = "paging"
  /\ cursor' = page
  /\ Failed
  /\ UNCHANGED <<status, versioned>>

(* A document is the error that breaks the run, or one failure too many. *)
FailOnDocument ==
  /\ "error" \in Faults
  /\ phase = "collecting"
  /\ MarkFailed(doc)
  /\ Failed
  /\ UNCHANGED cursor

(* The process dies, the cursor in memory with it; the next one starts. *)
Restart ==
  /\ phase' = "idle"
  /\ cursor' = 0
  /\ todo' = {}
  /\ doc' = NoDoc
  /\ UNCHANGED <<sourceVars, mode, page, seen, summary>>

Crash ==
  /\ "crash" \in Faults
  /\ Restart
  /\ UNCHANGED indexVars

(* lcf source resume, then a new process. *)
Resume ==
  /\ phase = "idle"
  /\ quarantine # "no"
  /\ quarantine' = "no"
  /\ Restart
  /\ UNCHANGED <<status, versioned, missed, streak, swept, saved>>

RunStep ==
  \/ \E m \in {"full", "incremental"} : Start(m)
  \/ ReadPage
  \/ StopAtPage
  \/ \E d \in Docs : Discover(d)
  \/ Collected
  \/ NextPage
  \/ SweepCompleted
  \/ PageLimit
  \/ Truncated
  \/ Interrupted
  \/ OutOfBudget
  \/ \E d \in Docs : Retry(d)
  \/ EndRetry
  \/ Close
  \/ Resume

SweepNext ==
  \/ RunStep
  \/ \E d \in Docs : Delist(d) \/ Relist(d)
  \/ Fail
  \/ FailOnDocument
  \/ Crash

SweepSpec == SweepInit /\ [][SweepNext]_vars

(* Runs go on to their end and follow one another. *)
SweepFairSpec == SweepSpec /\ WF_vars(RunStep)

-----------------------------------------------------------------------------
(* Properties *)

(* "Seul un balayage mene a son terme peut constater une absence": a document
   that the source never stopped listing is never withdrawn, whatever
   interruptions, resumptions, failures and restarts the sweeps went through. *)
ListedNeverWithdrawn ==
  \A d \in Docs \ Leaving : status[d] # "withdrawn"

(* A withdrawal and a return both wait for sweeps that end uninterrupted. *)
Sweeps == []<><<Close /\ CompleteSweep>>_vars

(* Volume IV, 6.4: as long as full sweeps are completed, a stored document that
   the source has stopped listing is withdrawn in the end, and one that it lists
   again becomes visible again. *)
VisibilityFollowsListing ==
  Sweeps => \A d \in Docs :
    /\ <>[](d \notin listed /\ d \in versioned) => <>[](status[d] = "withdrawn")
    /\ <>[](d \in listed) => <>[](status[d] # "withdrawn")

-----------------------------------------------------------------------------
(* Statements of the comments and documents that the code does not keep: TLC
   finds a counterexample of each (README, section 3). *)

(* "Un document deja stocke ne redevient jamais failed : son contenu reste
   valide": a stored document has a content. *)
StoredHasVersion == \A d \in Docs : status[d] = "stored" => d \in versioned

(* "aucun document decouvert sur plusieurs balayages complets": a source that
   still lists documents is not suspended for its silence. *)
SilentSourceOnly == quarantine = "silence" => Docs \subseteq Leaving

(* "Document non revu lors de N balayages complets consecutifs -> withdrawn":
   the same as VisibilityFollowsListing for any document, stored or failed. *)
AnyGoneIsWithdrawn ==
  Sweeps => \A d \in Docs :
    <>[](d \notin listed /\ status[d] # "none") => <>[](status[d] = "withdrawn")
-----------------------------------------------------------------------------
(* Why a listed document is never withdrawn: the invariant that every step
   preserves. *)

(* The limit on pages does no harm when it covers the index, or when nothing
   beyond the first page is ever discovered. *)
LimitsSpareListed == \A m \in PageLimits : m = 1 \/ m >= LastPage

Enumerating == phase \in {"paging", "emitting", "collecting"}
Ending == phase \in {"retrying", "closing"}

CollectedIsKnown == phase = "collecting" => doc \in Docs /\ status[doc] # "none"

(* An enumeration limited to one page never leaves the first. *)
FirstPageOnly ==
  maxPages < LastPage =>
    /\ page = 1
    /\ cursor \in {0, 1}
    /\ saved \in {0, 1, NoCheckpoint}
    /\ \A d \in Docs : d \in todo \/ status[d] # "none" => PageOf[d] = 1

(* The run in progress has not passed the document yet, nor remembers a place
   beyond it. *)
Ahead(d) ==
  /\ Enumerating \/ Ending => cursor <= PageOf[d]
  /\ Enumerating => page <= PageOf[d]
  /\ phase \in {"emitting", "collecting"} /\ page = PageOf[d] => d \in todo

(* A document that is listed is missed by one complete sweep at most: by one that
   resumed beyond it.  That sweep forgets its place, so the next one begins with
   the first page, and no place beyond the document is remembered, in memory or
   in the index, until the document has been seen. *)
MissedOnceAtMost ==
  \A d \in Docs \ Leaving :
    /\ d \in listed
    /\ status[d] # "withdrawn"
    /\ missed[d] \in {0, 1}
    /\ missed[d] = 1 => status[d] # "none" /\ saved <= PageOf[d] /\ Ahead(d)
    /\ Ending /\ CompleteSweep => missed[d] = 0 /\ cursor <= PageOf[d]

SweepInvariant ==
  /\ SweepTypeOK
  /\ CollectedIsKnown
  /\ FirstPageOnly
  /\ MissedOnceAtMost
=============================================================================
