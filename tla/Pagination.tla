---------------------------- MODULE Pagination ----------------------------
(***************************************************************************)
(* One source read by pages, run after run: discover() of                  *)
(* packages/plugin-toolkit/src/paginated-index.ts with its guards, the     *)
(* incremental stop and the checkpoint of plugins/sgg-benin/src/index.ts.  *)
(*                                                                         *)
(* The portal lists its documents from the newest to the oldest, more or   *)
(* less, so that what it publishes moves every other document to later     *)
(* pages while they are being read.  A document is its date of publication.*)
(* Sweep looks at the same runs from the side of the index of the store,   *)
(* over documents that do not move.                                        *)
(***************************************************************************)
EXTENDS Naturals, Sequences, SequencesExt

CONSTANTS
  Listing,      \* what the portal lists at first
  Newest,       \* the last document it will publish
  Deletable,    \* documents it may remove
  PageSize,
  Beyond,       \* what may lie past the last page: "nothing", "empty", "last", "first"
  MaxPages,     \* maxPages
  EmptyLimit,   \* emptyStreakLimit
  StaleLimit,   \* staleStreakLimit
  Margin        \* INCREMENTAL_MARGIN_MS

ASSUME ListingAssumption == Listing \in Seq(1 .. Newest) /\ Listing # <<>>
ASSUME LimitsAssumption ==
  {Newest, PageSize, MaxPages, EmptyLimit, StaleLimit} \subseteq Nat \ {0} /\ Margin \in Nat
ASSUME BeyondAssumption == Beyond \subseteq {"nothing", "empty", "last", "first"}

VARIABLES
  index,     \* what the portal lists now
  beyond,    \* what it shows past its last page
  phase,     \* where the run stands
  mode,      \* "full" or "incremental"
  since,     \* the bound of an incremental run, 0 without one
  page,      \* the page being read, from 0
  refs,      \* the references of the page not yet yielded
  more,      \* hasNextPage() of the page
  previous,  \* previousSignature: the references of the page before
  novel,     \* a reference of the page was new to the run
  empty,     \* emptyStreak
  stale,     \* staleStreak
  seen,      \* the documents yielded by the run
  vain,      \* history: pages read in a row that brought the run nothing new,
             \* since the portal last changed
  resume,    \* #resumeFromPage
  sweeping,  \* #sweepInProgress
  high,      \* #highWaterMark, 0 without one
  saved,     \* the checkpoint of the last completed run
  swept,     \* a full run went through without an errorSummary
  known,     \* the documents ever yielded
  owed       \* those the sweep in progress owes: listed when it began, not yielded since

portalVars == <<index, beyond>>
runVars == <<phase, mode, since, page, refs, more, previous, novel, empty, stale, seen, vain>>
pluginVars == <<resume, sweeping, high>>
archiveVars == <<saved, swept, known, owed>>
pageVars == <<portalVars, runVars, pluginVars, archiveVars>>

Documents == 1 .. Newest
NoCheckpoint == [cursor |-> 0, sweeping |-> FALSE, high |-> 0, exists |-> FALSE]

Listed == ToSet(index)
PageCount == (Len(index) + PageSize - 1) \div PageSize

(* A page of the index proper, from 0. *)
PageOfIndex(n) ==
  SubSeq(index, n * PageSize + 1,
         IF (n + 1) * PageSize < Len(index) THEN (n + 1) * PageSize ELSE Len(index))

(* buildPageUrl() and parsePage(): what the portal answers for page n. *)
PageAt(n) ==
  CASE n < PageCount -> PageOfIndex(n)
    [] n >= PageCount /\ beyond = "last" /\ PageCount > 0 -> PageOfIndex(PageCount - 1)
    [] n >= PageCount /\ beyond = "first" /\ PageCount > 0 -> PageOfIndex(n % PageCount)
    [] OTHER -> <<>>

(* hasNextPage(): a portal that paginates badly always shows a next page. *)
HasNextPage(n) == n + 1 < PageCount \/ beyond # "nothing"

PaginationTypeOK ==
  /\ Listed \subseteq Documents
  /\ beyond \in Beyond
  /\ phase \in {"idle", "paging", "parsed", "emitting"}
  /\ mode \in {"full", "incremental"}
  /\ {since, high} \subseteq 0 .. Newest
  /\ page \in 0 .. MaxPages
  /\ ToSet(refs) \cup ToSet(previous) \subseteq Documents
  /\ {more, novel, sweeping} \subseteq BOOLEAN
  /\ empty \in 0 .. EmptyLimit /\ stale \in 0 .. StaleLimit
  /\ resume \in 0 .. MaxPages
  /\ vain \in Nat
  /\ seen \cup known \cup owed \subseteq Documents

PaginationInit ==
  /\ index = Listing
  /\ beyond \in Beyond
  /\ phase = "idle" /\ mode = "full" /\ since = 0
  /\ page = 0 /\ refs = <<>> /\ more = FALSE /\ previous = <<>> /\ novel = FALSE
  /\ empty = 0 /\ stale = 0 /\ seen = {} /\ vain = 0
  /\ resume = 0 /\ sweeping = FALSE /\ high = 0
  /\ saved = NoCheckpoint /\ swept = FALSE
  /\ known = {} /\ owed = {}

-----------------------------------------------------------------------------
(* The portal *)

Publish ==
  \E d \in Documents \ Listed :
    /\ \A e \in Listed \cup known : e < d
    /\ \A e \in Documents \ Listed : (\A f \in Listed \cup known : f < e) => d <= e
    /\ index' = <<d>> \o index
    /\ vain' = 0
    /\ UNCHANGED <<beyond, phase, mode, since, page, refs, more, previous, novel, empty,
                   stale, seen, pluginVars, archiveVars>>

(* An entry of the list is removed, which moves documents to pages already read:
   the sweep that is under way owes nothing any more. *)
Withdraw(i) ==
  /\ index[i] \in Deletable
  /\ index' = RemoveAt(index, i)
  /\ owed' = {}
  /\ vain' = 0
  /\ UNCHANGED <<beyond, phase, mode, since, page, refs, more, previous, novel, empty,
                 stale, seen, pluginVars, saved, swept, known>>

-----------------------------------------------------------------------------
(* One run *)

(* Mutation of Restored: the cursor of the checkpoint is not given back. *)
RestoredBoundOnly ==
  IF saved.exists
  THEN [cursor |-> 0, sweeping |-> FALSE, high |-> saved.high]
  ELSE [cursor |-> resume, sweeping |-> sweeping, high |-> high]

(* restore(), when a completed run left a checkpoint: whatever the mode. *)
Restored ==
  IF saved.exists
  THEN [cursor |-> saved.cursor, sweeping |-> saved.sweeping, high |-> saved.high]
  ELSE [cursor |-> resume, sweeping |-> sweeping, high |-> high]

(* run() restores the checkpoint, then discover() begins.  A sweep that starts
   from the first page owes what is listed by then; an incremental run goes on
   with the sweep and promises nothing. *)
Start(m) ==
  /\ phase = "idle"
  /\ m = "incremental" => swept
  /\ phase' = "paging"
  /\ mode' = m
  /\ resume' = Restored.cursor
  /\ sweeping' = Restored.sweeping
  /\ high' = Restored.high
  /\ since' = IF m = "incremental" THEN saved.high ELSE 0
  /\ page' = Restored.cursor
  /\ owed' = CASE m = "incremental" -> {}
               [] m = "full" /\ ~ Restored.sweeping -> Listed
               [] OTHER -> owed
  /\ previous' = <<>> /\ empty' = 0 /\ stale' = 0 /\ seen' = {} /\ vain' = 0
  /\ refs' = <<>> /\ more' = FALSE /\ novel' = FALSE
  /\ UNCHANGED <<portalVars, saved, swept, known>>

(* The page is remembered before it is read. *)
ReadPage ==
  /\ phase = "paging"
  /\ page < MaxPages
  /\ resume' = page
  /\ sweeping' = TRUE
  /\ refs' = PageAt(page)
  /\ more' = HasNextPage(page)
  /\ novel' = FALSE
  /\ phase' = "parsed"
  /\ vain' = vain + 1
  /\ UNCHANGED <<portalVars, mode, since, page, previous, empty, stale, seen,
                 high, archiveVars>>

(* What is left of a run that has ended. *)
Forget ==
  /\ phase' = "idle"
  /\ page' = 0 /\ refs' = <<>> /\ more' = FALSE /\ previous' = <<>> /\ novel' = FALSE
  /\ empty' = 0 /\ stale' = 0 /\ seen' = {} /\ vain' = 0 /\ since' = 0
  /\ UNCHANGED mode

(* The run is closed as completed, with the checkpoint of the plugin. *)
Checkpoint ==
  saved' = [cursor |-> IF sweeping' THEN resume' ELSE 0, sweeping |-> sweeping',
            high |-> high', exists |-> TRUE]

(* Mutation of SweepCompleted: the cursor stays on the last page. *)
SweepCompletedThere ==
  /\ UNCHANGED <<resume, sweeping>>
  /\ Forget
  /\ Checkpoint
  /\ swept' = (swept \/ mode = "full")
  /\ owed' = {}

(* return this.#sweepCompleted(). *)
SweepCompleted ==
  /\ resume' = 0
  /\ sweeping' = FALSE
  /\ Forget
  /\ Checkpoint
  /\ swept' = (swept \/ mode = "full")
  /\ owed' = {}

(* The enumeration returns, or its consumer leaves it: the cursor stays. *)
Interrupted ==
  /\ Forget
  /\ UNCHANGED <<resume, sweeping, owed>>
  /\ Checkpoint

EmptyPages ==
  /\ phase = "parsed"
  /\ refs = <<>>
  /\ empty + 1 >= EmptyLimit
  /\ UNCHANGED <<portalVars, high, known>>
  /\ SweepCompleted

(* The same references twice in a row: a pagination that does not paginate. *)
SamePage ==
  /\ phase = "parsed"
  /\ refs # <<>>
  /\ refs = previous
  /\ swept' = (swept \/ mode = "full")
  /\ UNCHANGED <<portalVars, high, known>>
  /\ Interrupted

Ready ==
  /\ phase = "parsed"
  /\ IF refs = <<>> THEN empty + 1 < EmptyLimit ELSE refs # previous

(* #rememberNewest(), which shouldStopAtPage() calls first. *)
RememberNewest ==
  high' = CHOOSE d \in ToSet(refs) \cup {high} : \A e \in ToSet(refs) \cup {high} : e <= d

(* shouldStopAtPage(): no reference of the page is recent enough. *)
OldPage ==
  /\ mode = "incremental"
  /\ since # 0
  /\ \A d \in ToSet(refs) : d + Margin < since

StopAtPage ==
  /\ Ready
  /\ OldPage
  /\ RememberNewest
  /\ SweepCompleted
  /\ UNCHANGED <<portalVars, known>>

Accept ==
  /\ Ready
  /\ ~ OldPage
  /\ RememberNewest
  /\ previous' = refs
  /\ empty' = IF refs = <<>> THEN empty + 1 ELSE 0
  /\ phase' = "emitting"
  /\ UNCHANGED <<portalVars, mode, since, page, refs, more, novel, stale, seen,
                 vain, resume, sweeping, archiveVars>>

(* yield ref, unless the run has yielded it already. *)
Yield ==
  /\ phase = "emitting"
  /\ refs # <<>>
  /\ novel' = (novel \/ Head(refs) \notin seen)
  /\ seen' = seen \cup {Head(refs)}
  /\ known' = known \cup {Head(refs)}
  /\ owed' = owed \ {Head(refs)}
  /\ refs' = Tail(refs)
  /\ vain' = IF Head(refs) \in seen THEN vain ELSE 0
  /\ UNCHANGED <<portalVars, phase, mode, since, page, more, previous, empty, stale,
                 pluginVars, saved, swept>>

(* The run takes no further reference or exceeds its budget while it collects the
   one it has taken, or the enumeration has yielded maxDocuments of them. *)
LeaveAtYield ==
  /\ phase = "emitting"
  /\ novel
  /\ UNCHANGED <<portalVars, high, swept, known>>
  /\ Interrupted

(* getText() exceeds the budget of the run, which completes before the page has
   brought it anything, the page being the one remembered. *)
LeaveAtRead ==
  /\ phase = "parsed"
  /\ UNCHANGED <<portalVars, high, swept, known>>
  /\ Interrupted

(* The limit on pages ends the enumeration, and leaves its cursor. *)
PageLimit ==
  /\ phase = "paging"
  /\ page >= MaxPages
  /\ swept' = (swept \/ mode = "full")
  /\ UNCHANGED <<portalVars, high, known>>
  /\ Interrupted

Stale == ~ novel /\ previous # <<>>

TooStale == Stale /\ stale + 1 >= StaleLimit

StalePages ==
  /\ phase = "emitting"
  /\ refs = <<>>
  /\ TooStale
  /\ UNCHANGED <<portalVars, high, known>>
  /\ SweepCompleted

(* Mutation of HasNext: a page without anything new is the last one. *)
HasNextIfNovel == more /\ ~ Stale

HasNext == more

LastPage ==
  /\ phase = "emitting"
  /\ refs = <<>>
  /\ ~ TooStale
  /\ ~ HasNext
  /\ UNCHANGED <<portalVars, high, known>>
  /\ SweepCompleted

(* Mutation of NextStale: the stale pages are not added up. *)
NextStaleForgetting == IF Stale THEN 1 ELSE 0

NextStale == IF Stale THEN stale + 1 ELSE 0

NextPage ==
  /\ phase = "emitting"
  /\ refs = <<>>
  /\ ~ TooStale
  /\ HasNext
  /\ stale' = NextStale
  /\ page' = page + 1
  /\ phase' = "paging"
  /\ UNCHANGED <<portalVars, mode, since, refs, more, previous, novel, empty, seen,
                 vain, pluginVars, archiveVars>>

(* A page cannot be read, or a document of the page fails in a way that fails the
   run: it leaves no checkpoint. *)
Fail ==
  /\ phase = "parsed" \/ (phase = "emitting" /\ novel)
  /\ Forget
  /\ UNCHANGED <<portalVars, pluginVars, archiveVars>>

(* The process ends: the next one has a new instance of the plugin. *)
Restart ==
  /\ Forget
  /\ resume' = 0 /\ sweeping' = FALSE /\ high' = 0
  /\ UNCHANGED <<portalVars, archiveVars>>

RunStep ==
  \/ ReadPage \/ EmptyPages \/ SamePage \/ StopAtPage \/ Accept
  \/ Yield \/ StalePages \/ LastPage \/ NextPage \/ PageLimit

PaginationNext ==
  \/ \E m \in {"full", "incremental"} : Start(m)
  \/ RunStep
  \/ LeaveAtRead \/ LeaveAtYield
  \/ Fail
  \/ Restart
  \/ Publish
  \/ \E i \in DOMAIN index : Withdraw(i)

PaginationSpec == PaginationInit /\ [][PaginationNext]_pageVars

(* A run that has begun goes on to its end. *)
PaginationFairSpec == PaginationSpec /\ WF_pageVars(RunStep)

-----------------------------------------------------------------------------
(* A full sweep that comes to the end of the index, and not to the guard against
   stale pages, has yielded every document that was listed when it began, in
   however many runs, although publications move the documents from page to page
   and pages repeat one another. *)
SweepReadsAll ==
  [][phase # "idle" /\ mode = "full" /\ beyond = "nothing" /\ SweepCompleted /\ ~ StalePages
       => owed = {}]_pageVars

(* A portal whose pagination never ends does not keep a run: unless it changes,
   the run never reads more than a few pages in a row that bring it nothing new,
   and yet goes through the stale pages of an index in loose order. *)
EndlessPortalIsLeft == vain < EmptyLimit + StaleLimit

(* "sinon il refait eternellement ses premieres pages": even if no run ever
   comes to the end of the index, each of its documents is read, provided that
   full runs go on getting past a page and in the end no longer die half-way,
   over an index that in the end no longer moves. *)
Advance ==
  /\ []<><<NextPage /\ mode = "full">>_pageVars
  /\ <>[][UNCHANGED index /\ (phase # "idle" => ~ Fail /\ ~ Restart)]_pageVars
SweepResumes ==
  Advance /\ <>[](mode = "full") /\ beyond = "nothing"
    => \A d \in ToSet(Listing) \ Deletable : <>(d \in known)

(* "les nouveautes du debut ne seraient jamais revues": what the portal
   publishes is read in the end, as long as full runs come to an end by
   themselves: the cursor does not stay where a run stopped. *)
RunsEnd ==
  []<><<phase # "idle" /\ mode = "full" /\ (SweepCompleted \/ SamePage \/ PageLimit)>>_pageVars
NewsAreSeen ==
  RunsEnd /\ beyond = "nothing" => \A d \in Documents : <>[](d \in Listed) => <>(d \in known)

-----------------------------------------------------------------------------
(* Statements that the code does not keep (README, section 3). *)

(* The same on any portal.  The guard against identical pages and the limit on
   pages leave the cursor on the last page, and every later run begins there. *)
NewsAreSeenAlways ==
  RunsEnd => \A d \in Documents : <>[](d \in Listed) => <>(d \in known)

(* The same with incremental runs in between.  They take up the cursor of the
   sweep, stop at its page, which is old, and reset it. *)
SweepResumesAlways ==
  Advance /\ beyond = "nothing" => \A d \in ToSet(Listing) \ Deletable : <>(d \in known)

(* "cette page n'est pas emise : tout y est deja connu": an incremental run
   stops at a page whose documents have all been read.  A run cut short has
   moved the bound past documents that it did not read. *)
OldPagesAreKnown ==
  [][StopAtPage => ToSet(refs) \subseteq known]_pageVars
-----------------------------------------------------------------------------
(* Why a sweep reads everything. *)

Lies(d, n) == \E i \in 1 .. Len(index) : i > n * PageSize /\ index[i] = d

(* What a sweep owes is not before the page that it will read next, wherever it
   will take that page from. *)
CursorsLag ==
  /\ ~ sweeping => resume = 0
  /\ ~ saved.sweeping => saved.cursor = 0
  /\ sweeping /\ (phase # "idle" \/ ~ saved.exists) => \A d \in owed : Lies(d, resume)
  /\ saved.exists /\ saved.sweeping => \A d \in owed : Lies(d, saved.cursor)

OwedIsAhead ==
  /\ mode = "incremental" => owed = {}
  /\ phase = "paging" => \A d \in owed : Lies(d, page)
  /\ phase \in {"parsed", "emitting"} =>
       \A d \in owed : d \in ToSet(refs) \/ (more /\ Lies(d, page + 1))
  /\ phase = "parsed" /\ refs = <<>> => owed = {}

ReadInvariant ==
  /\ index \in Seq(Documents) /\ refs \in Seq(Documents)
  /\ page \in Nat /\ resume \in Nat /\ saved.cursor \in Nat
  /\ beyond = "nothing" => CursorsLag /\ OwedIsAhead

-----------------------------------------------------------------------------
(* Why a run leaves an endless portal. *)

(* Stale pages come first, and once a page is empty those that follow are. *)
PagesInVain ==
  /\ phase = "idle" => vain = 0
  /\ phase = "paging" =>
       IF empty = 0 THEN vain <= stale
       ELSE vain < StaleLimit + empty /\ (vain > 0 => PageAt(page) = <<>>)
  /\ phase = "parsed" =>
       /\ ~ novel
       /\ IF refs # <<>> THEN vain <= stale + 1
          ELSE vain <= StaleLimit + empty /\ (vain > 0 => PageAt(page) = <<>>)
  /\ phase = "emitting" =>
       IF previous # <<>> THEN empty = 0 /\ vain <= stale + 1 /\ (novel => vain = 0)
       ELSE /\ refs = <<>> /\ ~ novel /\ empty > 0
            /\ vain < StaleLimit + empty /\ (vain > 0 => PageAt(page) = <<>>)

VainInvariant ==
  /\ index \in Seq(Documents) /\ page \in Nat /\ vain \in Nat
  /\ phase \in {"idle", "paging", "parsed", "emitting"}
  /\ empty \in 0 .. EmptyLimit - 1
  /\ stale \in 0 .. StaleLimit - 1
  /\ PagesInVain
=============================================================================
