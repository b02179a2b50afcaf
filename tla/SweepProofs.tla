---------------------------- MODULE SweepProofs ----------------------------
(***************************************************************************)
(* Proofs about the source as its runs find it, Sweep and Schedule.        *)
(*                                                                         *)
(* Sweep: for any number of documents and pages, and whatever              *)
(* interruptions, failures, resumptions and restarts the runs go through,  *)
(* a document that the source lists is never withdrawn, provided that two  *)
(* missed sweeps are required and that the limit on pages covers the index *)
(* or is one page.                                                         *)
(*                                                                         *)
(* Schedule: an exclusion window excludes what it says, at each minute of  *)
(* any calendar.                                                           *)
(***************************************************************************)
EXTENDS Sweep, Schedule, TLAPS

(* The numbers that the constants stand for. *)
LEMMA SweepNumbers ==
  /\ LastPage \in Nat /\ LastPage >= 1
  /\ NoCheckpoint = LastPage + 1
  /\ MissedSweeps \in Nat /\ MissedSweeps >= 1
  /\ SilentSweeps \in Nat /\ SilentSweeps >= 1
  /\ \A d \in Docs : PageOf[d] \in 1 .. LastPage
  /\ \A m \in PageLimits : m \in Nat
BY PagesAssumption, SweepsAssumption DEF NoCheckpoint

-----------------------------------------------------------------------------
(* Type correctness. *)

(* A run starts where the last completed one, or the memory, stands. *)
LEMMA StartTypes ==
  ASSUME SweepTypeOK, NEW m \in {"full", "incremental"}, Start(m)
  PROVE  /\ cursor' = IF saved = NoCheckpoint THEN cursor ELSE saved
         /\ cursor' \in 0 .. LastPage
         /\ page' = IF cursor' = 0 THEN 1 ELSE cursor'
         /\ page' \in 1 .. LastPage
<1>1. /\ cursor' = IF saved = NoCheckpoint THEN cursor ELSE saved
      /\ page' = IF cursor' = 0 THEN 1 ELSE cursor'
  BY DEF Start
<1>2. saved \in 0 .. LastPage + 1 /\ cursor \in 0 .. LastPage
  BY DEF SweepTypeOK
<1>3. cursor' \in 0 .. LastPage
  BY <1>1, <1>2, SweepNumbers
<1> QED
  BY <1>1, <1>3, SweepNumbers

(* Closing a run counts within the bounds. *)
LEMMA CloseTypes ==
  ASSUME SweepTypeOK, Close
  PROVE  SweepTypeOK'
<1>1. missed' \in [Docs -> 0 .. MissedSweeps]
  BY SweepNumbers DEF Close, NewMissed, SweepTypeOK
<1>2. streak' \in 0 .. SilentSweeps
  BY SweepNumbers DEF Close, NewStreak, SweepTypeOK
<1>3. saved' \in 0 .. LastPage + 1
  BY SweepNumbers DEF Close, SweepTypeOK
<1>4. status' \in [Docs -> {"none", "discovered", "stored", "failed", "withdrawn"}]
  BY DEF Close, SweepTypeOK
<1>5. swept' \in BOOLEAN /\ quarantine' \in {"no", "silence", "fatal"}
  BY DEF Close, SweepTypeOK, CompleteSweep
<1> QED
  BY <1>1, <1>2, <1>3, <1>4, <1>5 DEF Close, SweepTypeOK, sourceVars

(* Every step keeps the types and the collection of a document that is known. *)
LEMMA StepKeepsTypes ==
  ASSUME SweepTypeOK, CollectedIsKnown, [SweepNext]_vars
  PROVE  SweepTypeOK' /\ CollectedIsKnown'
<1> USE DEF SweepTypeOK, CollectedIsKnown
<1>1. ASSUME NEW m \in {"full", "incremental"}, Start(m)
      PROVE  SweepTypeOK' /\ CollectedIsKnown'
  BY <1>1, StartTypes DEF Start, sourceVars, indexVars
<1>2. CASE ReadPage
  BY <1>2, SweepNumbers DEF ReadPage, sourceVars, indexVars
<1>3. CASE StopAtPage \/ SweepCompleted
  BY <1>3, SweepNumbers DEF StopAtPage, SweepCompleted, sourceVars, indexVars
<1>4. ASSUME NEW d \in Docs, Discover(d)
      PROVE  SweepTypeOK' /\ CollectedIsKnown'
  BY <1>4, SweepNumbers DEF Discover, sourceVars
<1>5. CASE Collected \/ Truncated
  BY <1>5 DEF Collected, Truncated, Collect, MarkFailed, sourceVars
<1>6. CASE NextPage
  BY <1>6, SweepNumbers DEF NextPage, sourceVars, indexVars
<1>7. CASE PageLimit \/ Interrupted \/ EndRetry
  BY <1>7 DEF PageLimit, Interrupted, EndRetry, sourceVars, indexVars
<1>8. CASE OutOfBudget
  BY <1>8, SweepNumbers DEF OutOfBudget, sourceVars, indexVars
<1>9. ASSUME NEW d \in Docs, Retry(d)
      PROVE  SweepTypeOK' /\ CollectedIsKnown'
  BY <1>9, SweepNumbers DEF Retry, Collect, MarkFailed, sourceVars
<1>10. CASE Close
  BY <1>10, CloseTypes DEF Close
<1>11. CASE Resume \/ Crash
  BY <1>11, SweepNumbers DEF Resume, Crash, Restart, sourceVars, indexVars
<1>12. ASSUME NEW d \in Docs, Delist(d) \/ Relist(d)
       PROVE  SweepTypeOK' /\ CollectedIsKnown'
  BY <1>12 DEF Delist, Relist, indexVars, runVars
<1>13. CASE Fail
  BY <1>13, SweepNumbers DEF Fail, Failed, sourceVars
<1>14. CASE FailOnDocument
  BY <1>14 DEF FailOnDocument, Failed, MarkFailed, sourceVars
<1>15. CASE UNCHANGED vars
  BY <1>15 DEF vars, sourceVars, indexVars, runVars
<1> QED
  BY <1>1, <1>2, <1>3, <1>4, <1>5, <1>6, <1>7, <1>8, <1>9, <1>10, <1>11, <1>12, <1>13, <1>14,
     <1>15
     DEF SweepNext, RunStep

-----------------------------------------------------------------------------
(* Listed documents stay. *)

(* Only discovery takes a document out of "none". *)
LEMMA StepKeepsFirstPageOnly ==
  ASSUME LimitsSpareListed, SweepInvariant, [SweepNext]_vars
  PROVE  FirstPageOnly'
<1> SUFFICES ASSUME maxPages' < LastPage
             PROVE  /\ page' = 1
                    /\ cursor' \in {0, 1}
                    /\ saved' \in {0, 1, NoCheckpoint}
                    /\ \A d \in Docs : d \in todo' \/ status'[d] # "none" => PageOf[d] = 1
  BY DEF FirstPageOnly
<1>1. /\ SweepTypeOK /\ CollectedIsKnown
      /\ LastPage \in Nat /\ NoCheckpoint = LastPage + 1
  BY SweepNumbers DEF SweepInvariant
<1>2. maxPages' = maxPages
  BY DEF SweepNext, RunStep, Start, ReadPage, StopAtPage, Discover, Collected, NextPage,
     SweepCompleted, PageLimit, Truncated, Interrupted, OutOfBudget, Retry, EndRetry, Close,
     Resume, Restart, Delist, Relist, Fail, Failed, FailOnDocument, Crash, vars, sourceVars
<1>3. maxPages = 1
  BY <1>1, <1>2, SweepNumbers DEF LimitsSpareListed, SweepTypeOK
<1>4. /\ page = 1 /\ cursor \in {0, 1} /\ saved \in {0, 1, NoCheckpoint}
      /\ \A d \in Docs : d \in todo \/ status[d] # "none" => PageOf[d] = 1
  BY <1>2 DEF SweepInvariant, FirstPageOnly
<1> USE DEF SweepTypeOK
<1>5. ASSUME NEW m \in {"full", "incremental"}, Start(m)
      PROVE  page' = 1 /\ cursor' \in {0, 1}
  BY <1>1, <1>4, <1>5, StartTypes
<1>6. CASE \E m \in {"full", "incremental"} : Start(m)
  BY <1>4, <1>5, <1>6 DEF Start, indexVars
<1>7. CASE ReadPage \/ StopAtPage \/ SweepCompleted
  BY <1>1, <1>4, <1>7 DEF ReadPage, StopAtPage, SweepCompleted, indexVars
<1>8. ASSUME NEW d \in Docs, Discover(d)
      PROVE  /\ UNCHANGED <<page, cursor, saved>>
             /\ todo' \subseteq todo
             /\ \A e \in Docs : status'[e] # "none" => status[e] # "none" \/ e \in todo
  BY <1>1, <1>8 DEF Discover
<1>9. CASE \E d \in Docs : Discover(d)
  BY <1>4, <1>8, <1>9
<1>10. ASSUME NEW e \in Docs, status[e] # "none", Collect(e) \/ MarkFailed(e), NEW d \in Docs
       PROVE  status'[d] # "none" => status[d] # "none"
  BY <1>1, <1>10 DEF Collect, MarkFailed
<1>11. CASE Collected \/ Truncated
  BY <1>1, <1>4, <1>10, <1>11 DEF Collected, Truncated, CollectedIsKnown
<1>12. CASE NextPage
  BY <1>3, <1>4, <1>12 DEF NextPage
<1>13. CASE PageLimit \/ Interrupted \/ EndRetry \/ OutOfBudget
  BY <1>4, <1>13 DEF PageLimit, Interrupted, EndRetry, OutOfBudget, indexVars
<1>14. CASE \E d \in Docs : Retry(d)
  BY <1>1, <1>4, <1>10, <1>14 DEF Retry
<1>15. CASE Close
  <2>1. \A d \in Docs : status'[d] # "none" => status[d] # "none"
    BY <1>1, <1>15 DEF Close
  <2> QED
    BY <1>4, <1>15, <2>1 DEF Close
<1>16. CASE Resume \/ Crash \/ (\E d \in Docs : Delist(d) \/ Relist(d)) \/ UNCHANGED vars
  BY <1>4, <1>16
     DEF Resume, Crash, Restart, Delist, Relist, vars, indexVars, runVars
<1>17. CASE Fail
  BY <1>4, <1>17 DEF Fail, Failed
<1>18. CASE FailOnDocument
  BY <1>1, <1>4, <1>10, <1>18 DEF FailOnDocument, Failed, CollectedIsKnown
<1> QED
  BY <1>6, <1>7, <1>9, <1>11, <1>12, <1>13, <1>14, <1>15, <1>16, <1>17, <1>18
     DEF SweepNext, RunStep
(* The discipline of one document: it is seen again before it is missed twice. *)
LEMMA StepKeepsMissedOnceAtMost ==
  ASSUME LimitsSpareListed, MissedSweeps >= 2, SweepInvariant, [SweepNext]_vars
  PROVE  MissedOnceAtMost'
<1> DEFINE OnceAtMost(d) ==
             /\ d \in listed
             /\ status[d] # "withdrawn"
             /\ missed[d] \in {0, 1}
             /\ missed[d] = 1 => status[d] # "none" /\ saved <= PageOf[d] /\ Ahead(d)
             /\ Ending /\ CompleteSweep => missed[d] = 0 /\ cursor <= PageOf[d]
<1> SUFFICES ASSUME NEW d \in Docs \ Leaving
             PROVE  OnceAtMost(d)'
  BY DEF MissedOnceAtMost
<1>1. /\ SweepTypeOK /\ CollectedIsKnown
      /\ OnceAtMost(d)
      /\ d \in Docs /\ d \notin Leaving
      /\ LastPage \in Nat /\ NoCheckpoint = LastPage + 1
      /\ PageOf[d] \in 1 .. LastPage
  BY SweepNumbers DEF SweepInvariant, MissedOnceAtMost
<1> USE DEF SweepTypeOK, Ahead, Enumerating, Ending, CompleteSweep
<1>2. ASSUME NEW m \in {"full", "incremental"}, Start(m)
      PROVE  OnceAtMost(d)'
  <2>1. /\ cursor' = IF saved = NoCheckpoint THEN cursor ELSE saved
        /\ page' = IF cursor' = 0 THEN 1 ELSE cursor'
    BY <1>1, <1>2, StartTypes
  <2>2. /\ UNCHANGED <<listed, status, missed, saved>>
        /\ phase' = "paging"
    BY <1>2 DEF Start, sourceVars, indexVars
  <2>3. missed[d] = 1 => saved <= PageOf[d] /\ saved # NoCheckpoint
    BY <1>1
  <2>4. missed[d] = 1 => cursor' <= PageOf[d] /\ page' <= PageOf[d]
    BY <1>1, <2>1, <2>3
  <2> QED
    BY <1>1, <2>2, <2>4
<1>3. CASE ReadPage
  BY <1>1, <1>3 DEF ReadPage, sourceVars, indexVars
<1>4. CASE StopAtPage
  BY <1>1, <1>4 DEF StopAtPage, sourceVars, indexVars
<1>5. ASSUME NEW e \in Docs, Discover(e)
      PROVE  OnceAtMost(d)'
  <2>1. CASE e = d
    BY <1>1, <1>5, <2>1 DEF Discover, sourceVars
  <2>2. CASE e # d
    <3>1. /\ UNCHANGED <<listed, saved, cursor, page, mode, summary>>
          /\ status'[d] = status[d] /\ missed'[d] = missed[d]
          /\ d \in todo => d \in todo'
          /\ phase = "emitting" /\ phase' = "collecting"
      BY <1>1, <1>5, <2>2 DEF Discover, sourceVars
    <3> QED
      BY <1>1, <3>1
  <2> QED
    BY <2>1, <2>2
<1>6. ASSUME NEW e \in Docs, Collect(e) \/ MarkFailed(e)
      PROVE  /\ status[d] # "withdrawn" => status'[d] # "withdrawn"
             /\ status[d] # "none" => status'[d] # "none"
  BY <1>1, <1>6 DEF Collect, MarkFailed
<1>7. CASE Collected \/ Truncated
  <2>1. /\ status'[d] # "withdrawn"
        /\ status[d] # "none" => status'[d] # "none"
    BY <1>1, <1>6, <1>7 DEF Collected, Truncated, CollectedIsKnown
  <2> QED
    BY <1>1, <1>7, <2>1 DEF Collected, Truncated, sourceVars
<1>8. CASE NextPage
  BY <1>1, <1>8 DEF NextPage, sourceVars, indexVars
<1>9. CASE SweepCompleted
  <2>1. missed[d] = 0
    BY <1>1, <1>9 DEF SweepCompleted
  <2> QED
    BY <1>1, <1>9, <2>1 DEF SweepCompleted, sourceVars, indexVars
<1>10. CASE PageLimit
  <2>1. maxPages < LastPage
    BY <1>1, <1>10, SweepNumbers DEF PageLimit
  <2>2. page = 1 /\ cursor \in {0, 1} /\ (status[d] # "none" => PageOf[d] = 1)
    BY <1>1, <2>1 DEF SweepInvariant, FirstPageOnly
  <2>3. missed[d] = 0
    BY <1>1, <1>10, <2>2 DEF PageLimit
  <2> QED
    BY <1>1, <1>10, <2>2, <2>3 DEF PageLimit, sourceVars, indexVars
<1>11. CASE Interrupted \/ OutOfBudget
  BY <1>1, <1>11 DEF Interrupted, OutOfBudget, sourceVars, indexVars
<1>12. CASE EndRetry
  BY <1>1, <1>12 DEF EndRetry, sourceVars, indexVars
<1>13. ASSUME NEW e \in Docs, Retry(e)
       PROVE  OnceAtMost(d)'
  <2>1. /\ UNCHANGED <<listed, saved, cursor, page, mode, summary, phase>>
        /\ phase = "retrying" /\ mode = "incremental"
        /\ missed'[d] \in {0, missed[d]}
    BY <1>1, <1>13 DEF Retry, sourceVars
  <2>2. status'[d] # "withdrawn" /\ (status[d] # "none" => status'[d] # "none")
    BY <1>1, <1>6, <1>13 DEF Retry
  <2> QED
    BY <1>1, <2>1, <2>2
<1>14. CASE Close
  <2>1. /\ missed'[d] = NewMissed[d]
        /\ saved' = cursor /\ phase' = "idle" /\ listed' = listed
        /\ status'[d] = IF mode = "full" /\ status[d] # "none" /\ NewMissed[d] >= MissedSweeps
                        THEN "withdrawn" ELSE status[d]
        /\ phase = "closing"
    BY <1>1, <1>14 DEF Close, sourceVars
  <2>2. CASE CompleteSweep
    <3>1. missed[d] = 0 /\ cursor <= PageOf[d]
      BY <1>1, <2>1, <2>2
    <3>2. NewMissed[d] = 0 \/ (NewMissed[d] = 1 /\ status[d] # "none")
      BY <1>1, <3>1 DEF NewMissed
    <3> QED
      BY <1>1, <2>1, <3>1, <3>2, SweepNumbers
  <2>3. CASE ~ CompleteSweep
    <3>1. NewMissed[d] = missed[d]
      BY <1>1, <2>3 DEF NewMissed
    <3>2. status'[d] = status[d] /\ missed'[d] = missed[d]
      BY <1>1, <2>1, <3>1, SweepNumbers
    <3>3. missed[d] = 1 => cursor <= PageOf[d]
      BY <1>1, <2>1
    <3>4. ~ Ending' /\ ~ Enumerating'
      BY <2>1
    <3> QED
      BY <1>1, <2>1, <3>2, <3>3, <3>4
  <2> QED
    BY <2>2, <2>3
<1>15. CASE Resume \/ Crash
  BY <1>1, <1>15 DEF Resume, Crash, Restart, sourceVars, indexVars
<1>16. ASSUME NEW e \in Docs, Delist(e) \/ Relist(e)
       PROVE  OnceAtMost(d)'
  BY <1>1, <1>16 DEF Delist, Relist, indexVars, runVars
<1>17. CASE Fail
  BY <1>1, <1>17 DEF Fail, Failed, sourceVars
<1>18. CASE FailOnDocument
  <2>1. /\ status'[d] # "withdrawn"
        /\ status[d] # "none" => status'[d] # "none"
    BY <1>1, <1>6, <1>18 DEF FailOnDocument, CollectedIsKnown
  <2> QED
    BY <1>1, <1>18, <2>1 DEF FailOnDocument, Failed, sourceVars
<1>19. CASE UNCHANGED vars
  BY <1>1, <1>19 DEF vars, sourceVars, indexVars, runVars
<1> QED
  BY <1>2, <1>3, <1>4, <1>5, <1>7, <1>8, <1>9, <1>10, <1>11, <1>12, <1>13, <1>14, <1>15, <1>16,
     <1>17, <1>18, <1>19
     DEF SweepNext, RunStep

(* The runs start from an empty index and no checkpoint. *)
LEMMA InitialSweepInvariant == SweepInit => SweepInvariant
<1> SUFFICES ASSUME SweepInit PROVE SweepInvariant
  OBVIOUS
<1>1. SweepTypeOK /\ CollectedIsKnown
  <2>1. /\ 0 \in 0 .. MissedSweeps /\ 0 \in 0 .. SilentSweeps /\ 0 \in 0 .. LastPage
        /\ LastPage + 1 \in 0 .. LastPage + 1
        /\ 1 \in 1 .. LastPage
    BY SweepNumbers
  <2> QED
    BY <2>1, SweepNumbers DEF SweepInit, SweepTypeOK, CollectedIsKnown
<1>2. FirstPageOnly
  BY DEF SweepInit, FirstPageOnly
<1>3. MissedOnceAtMost
  BY DEF SweepInit, MissedOnceAtMost, Ending
<1> QED
  BY <1>1, <1>2, <1>3 DEF SweepInvariant

(* The types hold for any limit on pages and any number of sweeps. *)
THEOREM SweepTypes == SweepSpec => []SweepTypeOK
<1>1. SweepInit => SweepTypeOK /\ CollectedIsKnown
  BY InitialSweepInvariant DEF SweepInvariant
<1>2. SweepTypeOK /\ CollectedIsKnown /\ [SweepNext]_vars => SweepTypeOK' /\ CollectedIsKnown'
  BY StepKeepsTypes
<1> QED
  BY <1>1, <1>2, PTL DEF SweepSpec

(* N2, for any index and any sequence of interruptions, failures, resumptions and
   restarts: no document that the source lists is ever withdrawn.  Both hypotheses
   are needed: with one sweep a resumed sweep withdraws what it had read before it
   was interrupted, and with a limit of several pages but not all of them TLC finds
   the counterexample of the run sweep_capped. *)
THEOREM ListedStays ==
  ASSUME LimitsSpareListed, MissedSweeps >= 2
  PROVE  SweepSpec => []ListedNeverWithdrawn
<1>1. SweepInvariant /\ [SweepNext]_vars => SweepInvariant'
  BY StepKeepsTypes, StepKeepsFirstPageOnly, StepKeepsMissedOnceAtMost DEF SweepInvariant
<1>2. SweepInvariant => ListedNeverWithdrawn
  BY DEF SweepInvariant, MissedOnceAtMost, ListedNeverWithdrawn
<1> QED
  BY InitialSweepInvariant, <1>1, <1>2, PTL DEF SweepSpec

-----------------------------------------------------------------------------
(* Schedule: the arithmetic of days and weeks. *)

LEMMA QuotientIsUnique ==
  ASSUME NEW a \in Nat, NEW b \in Nat \ {0}, NEW q \in Nat, NEW r \in 0 .. b - 1,
         a = q * b + r
  PROVE  a \div b = q /\ a % b = r
OBVIOUS

LEMMA QuotientAndRemainder ==
  ASSUME NEW a \in Nat, NEW b \in Nat \ {0}
  PROVE  /\ a \div b \in Nat
         /\ a % b \in 0 .. b - 1
         /\ a = (a \div b) * b + (a % b)
OBVIOUS

LEMMA Division ==
  ASSUME NEW a \in Nat, NEW b \in Nat \ {0}
  PROVE  \E q \in Nat : \E r \in 0 .. b - 1 : a = q * b + r /\ q = a \div b /\ r = a % b
<1>1. a \div b \in Nat /\ a % b \in 0 .. b - 1 /\ a = (a \div b) * b + (a % b)
  BY QuotientAndRemainder
<1> QED
  BY <1>1

LEMMA Distribute ==
  ASSUME NEW m \in Nat, NEW n \in Nat, NEW b \in Nat, NEW c \in Nat
  PROVE  /\ m * b \in Nat
         /\ (m + n) * b = m * b + n * b
         /\ m * (c * b) = (m * c) * b
OBVIOUS

(* Whole multiples of the divisor do not change the remainder. *)
LEMMA RemainderOfSum ==
  ASSUME NEW a \in Nat, NEW b \in Nat \ {0}, NEW k \in Nat
  PROVE  (a + k * b) % b = a % b /\ (a + k * b) \div b = a \div b + k
<1> DEFINE q == a \div b
           r == a % b
<1>1. q \in Nat /\ r \in 0 .. b - 1 /\ a = q * b + r
  BY QuotientAndRemainder
<1> HIDE DEF q, r
<1>2. (q + k) * b = q * b + k * b /\ q * b \in Nat /\ k * b \in Nat
  BY <1>1, Distribute
<1>3. a + k * b = (q + k) * b + r /\ a + k * b \in Nat /\ q + k \in Nat
  BY <1>1, <1>2
<1>4. (a + k * b) \div b = q + k /\ (a + k * b) % b = r
  BY <1>1, <1>3, QuotientIsUnique
<1> QED
  BY <1>4 DEF q, r

(* The calendar is a whole number of weeks, and has a day. *)
LEMMA WeeksOfCalendar ==
  ASSUME Instants # {}
  PROVE  /\ {HourLength, DayLength, WeekLength, Len(Calendar)} \subseteq Nat \ {0}
         /\ Cycle \in Nat \ {0}
         /\ \E j \in Nat \ {0} : Len(Calendar) = j * WeekLength
<1>1. /\ {HourLength, DayLength, WeekLength} \subseteq Nat \ {0}
      /\ Len(Calendar) \in Nat /\ Len(Calendar) % WeekLength = 0
  BY CalendarAssumption
<1>2. PICK j \in Nat : Len(Calendar) = j * WeekLength
  <2>1. PICK q \in Nat : \E r \in 0 .. WeekLength - 1 :
          Len(Calendar) = q * WeekLength + r /\ r = Len(Calendar) % WeekLength
    <3>1. WeekLength \in Nat \ {0} /\ Len(Calendar) \in Nat
      BY <1>1
    <3> QED
      BY <3>1, Division
  <2>2. Len(Calendar) = q * WeekLength
    BY <1>1, <2>1, Distribute
  <2> QED
    BY <2>2
<1>3. Len(Calendar) # 0
  <2> SUFFICES ASSUME Len(Calendar) = 0 PROVE FALSE
    OBVIOUS
  <2> 0 * DayLength = 0
    BY <1>1
  <2> QED
    BY DEF Instants, Cycle
<1>4. Cycle \in Nat
  BY <1>1, Distribute DEF Cycle
<1>5. Cycle # 0
  BY <1>4 DEF Instants
<1>6. j # 0
  <2> SUFFICES ASSUME j = 0 PROVE FALSE
    OBVIOUS
  <2> 0 * WeekLength = 0
    BY <1>1
  <2> QED
    BY <1>2, <1>3
<1> QED
  BY <1>1, <1>2, <1>3, <1>4, <1>5, <1>6

(* The day of the week of an instant, whichever round of the calendar it is in. *)
LEMMA WeekdayOf ==
  ASSUME Instants # {}, NEW x \in Nat
  PROVE  Date(x).weekday = (x \div DayLength) % WeekLength
<1> DEFINE C == Len(Calendar)
           D == DayLength
           W == WeekLength
<1>1. C \in Nat \ {0} /\ D \in Nat \ {0} /\ W \in Nat \ {0} /\ Cycle \in Nat \ {0}
  BY WeeksOfCalendar
<1>2. PICK j \in Nat \ {0} : C = j * W
  BY WeeksOfCalendar
<1>3. PICK q \in Nat : \E r \in 0 .. Cycle - 1 : x = q * Cycle + r /\ r = x % Cycle
  BY <1>1, Division
<1>4. PICK y \in Nat : x = q * Cycle + y /\ y = x % Cycle
  BY <1>1, <1>3
<1>5. PICK d \in Nat : \E s \in 0 .. D - 1 : y = d * D + s /\ d = y \div D
  BY <1>1, <1>4, Division
<1>6. PICK s \in 0 .. D - 1 : y = d * D + s
  BY <1>5
<1>7. Date(x).weekday = d % W
  BY <1>4, <1>5 DEF Date, DayOf
<1>8. Cycle = C * D
  BY DEF Cycle
<1> HIDE DEF C, D, W
<1>9. q * C \in Nat /\ q * (C * D) = (q * C) * D /\ (q * C + d) * D = (q * C) * D + d * D
  BY <1>1, Distribute
<1>10. (q * C) * D \in Nat /\ d * D \in Nat
  BY <1>1, <1>9, Distribute
<1>11. x = (q * C + d) * D + s /\ q * C + d \in Nat
  <2>1. q * Cycle = (q * C) * D
    BY <1>8, <1>9
  <2>2. x = (q * C) * D + (d * D + s)
    BY <1>4, <1>6, <2>1
  <2>3. (q * C) * D + (d * D + s) = ((q * C) * D + d * D) + s
    BY <1>10
  <2> QED
    BY <1>9, <2>2, <2>3
<1>12. x \div D = q * C + d
  BY <1>1, <1>6, <1>11, QuotientIsUnique
<1>13. q * C = (q * j) * W /\ q * j \in Nat
  BY <1>1, <1>2, <1>3, Distribute
<1>14. (d + (q * j) * W) % W = d % W
  BY <1>1, <1>13, RemainderOfSum
<1>15. q * C + d = d + (q * j) * W
  BY <1>9, <1>13, Distribute
<1> QED
  BY <1>7, <1>15, <1>12, <1>13, <1>14 DEF D, W

(* The day before, after any number of weeks. *)
LEMMA DayBefore ==
  ASSUME NEW w \in Nat \ {0}, NEW j \in Nat \ {0}, NEW p \in Nat
  PROVE  (p + j * w - 1) % w = ((p % w) + w - 1) % w
<1> DEFINE e == p \div w
           f == p % w
<1>1. e \in Nat /\ f \in 0 .. w - 1 /\ p = e * w + f
  BY QuotientAndRemainder
<1> HIDE DEF e, f
<1>2. e * w \in Nat /\ (j - 1) * w \in Nat /\ (e + (j - 1)) * w = e * w + (j - 1) * w
  BY <1>1, Distribute
<1>3. ((j - 1) + 1) * w = (j - 1) * w + 1 * w /\ 1 * w = w /\ (j - 1) + 1 = j
  BY Distribute
<1>4. p + j * w - 1 = (f + w - 1) + (e + (j - 1)) * w
  BY <1>1, <1>2, <1>3
<1>5. f + w - 1 \in Nat /\ e + (j - 1) \in Nat
  BY <1>1
<1>6. ((f + w - 1) + (e + (j - 1)) * w) % w = (f + w - 1) % w
  BY <1>5, RemainderOfSum
<1> QED
  BY <1>4, <1>6 DEF f

(* What is found on the clock some minutes ago, less than a day. *)
LEMMA MinutesAgo ==
  ASSUME Instants # {}, NEW clock \in Nat, NEW ago \in 0 .. DayLength - 1
  PROVE  LET m == clock % DayLength
             day == Date(clock).weekday
             x == clock + Cycle - ago
         IN  IF ago <= m
             THEN x % DayLength = m - ago /\ Date(x).weekday = day
             ELSE x % DayLength = m + DayLength - ago /\ Date(x).weekday = Before(day)
<1> DEFINE D == DayLength
           W == WeekLength
           p == clock \div D
           m == clock % D
           C == Len(Calendar)
           x == clock + Cycle - ago
<1>1. C \in Nat \ {0} /\ D \in Nat \ {0} /\ W \in Nat \ {0}
  BY WeeksOfCalendar
<1>2. PICK j \in Nat \ {0} : C = j * W
  BY WeeksOfCalendar
<1>3. p \in Nat /\ m \in 0 .. D - 1 /\ clock = p * D + m
  BY <1>1, QuotientAndRemainder
<1>4. Cycle = C * D /\ ago \in 0 .. D - 1 /\ x = clock + Cycle - ago
  BY DEF Cycle
<1>5. Date(clock).weekday = p % W
  BY WeekdayOf
<1> HIDE DEF C, D, W, p, m, x
<1>6. /\ (p + C) * D = p * D + C * D /\ p * D \in Nat /\ C * D \in Nat
      /\ ((p + (C - 1)) + 1) * D = (p + (C - 1)) * D + 1 * D /\ 1 * D = D
      /\ (p + (C - 1)) + 1 = p + C /\ (p + (C - 1)) * D \in Nat
  <2> C - 1 \in Nat /\ p + (C - 1) \in Nat
    BY <1>1, <1>3
  <2> QED
    BY <1>1, <1>3, Distribute
<1>7. CASE ago <= m
  <2>1. x = (p + C) * D + (m - ago) /\ m - ago \in 0 .. D - 1 /\ p + C \in Nat /\ x \in Nat
    BY <1>1, <1>3, <1>4, <1>6, <1>7
  <2>2. x \div D = p + C /\ x % D = m - ago
    BY <1>1, <2>1, QuotientIsUnique
  <2>3. (p + j * W) % W = p % W
    BY <1>1, <1>3, RemainderOfSum
  <2>4. Date(x).weekday = (x \div D) % W
    BY <2>1, WeekdayOf DEF D, W
  <2> QED
    BY <1>2, <1>5, <1>7, <2>2, <2>3, <2>4 DEF D, W, m, x
<1>8. CASE ~ (ago <= m)
  <2>1. /\ x = (p + (C - 1)) * D + (m + D - ago) /\ m + D - ago \in 0 .. D - 1
        /\ p + (C - 1) \in Nat /\ x \in Nat
    BY <1>1, <1>3, <1>4, <1>6, <1>8
  <2>2. x \div D = p + (C - 1) /\ x % D = m + D - ago
    BY <1>1, <2>1, QuotientIsUnique
  <2>3. (p + j * W - 1) % W = ((p % W) + W - 1) % W
    BY <1>1, <1>3, DayBefore
  <2>4. p + (C - 1) = p + j * W - 1
    BY <1>1, <1>2, <1>3
  <2>5. Date(x).weekday = (x \div D) % W
    BY <2>1, WeekdayOf DEF D, W
  <2>6. Before(Date(clock).weekday) = ((p % W) + W - 1) % W
    BY <1>5 DEF Before, W
  <2> QED
    BY <1>8, <2>2, <2>3, <2>4, <2>5, <2>6 DEF D, W, m, x
<1> QED
  BY <1>7, <1>8

-----------------------------------------------------------------------------
(* The two tests of matchingWindow() say what a window means: at each instant, in
   any calendar and time zone, and for any window that can be read. *)
LEMMA CoversIsInterval ==
  ASSUME Instants # {}, now \in Instants, NEW window,
         {window.from, window.to} \subseteq (0 .. DayLength - 1) \cup {Junk},
         Junk \notin {window.from, window.to}
  PROVE  LET clock == IF window.utc THEN now ELSE Local(now)
             length == (window.to + DayLength - window.from) % DayLength
         IN  Covers(window, now) <=>
               \E ago \in 0 .. DayLength - 1 :
                 /\ ago < length
                 /\ (clock + Cycle - ago) % DayLength = window.from
                 /\ Date(clock + Cycle - ago).weekday \in ParseDays(window.days)
<1> DEFINE clock == IF window.utc THEN now ELSE Local(now)
           f == window.from
           t == window.to
           D == DayLength
           length == (t + D - f) % D
           m == clock % D
           day == Date(clock).weekday
           days == ParseDays(window.days)
           x(ago) == clock + Cycle - ago
<1>1. D \in Nat \ {0} /\ Cycle \in Nat /\ Offset \in Nat
  BY WeeksOfCalendar, CalendarAssumption
<1>2. clock \in Nat
  BY <1>1 DEF Local, Instants
<1>3. f \in 0 .. D - 1 /\ t \in 0 .. D - 1
  OBVIOUS
<1>4. m \in 0 .. D - 1
  BY <1>1, <1>2, QuotientAndRemainder
<1>5. Covers(window, now) <=>
        IF f <= t THEN day \in days /\ m >= f /\ m < t
        ELSE \/ day \in days /\ m >= f
             \/ Before(day) \in days /\ m < t
  BY DEF Covers
<1>6. \A ago \in 0 .. D - 1 :
        IF ago <= m
        THEN x(ago) % D = m - ago /\ Date(x(ago)).weekday = day
        ELSE x(ago) % D = m + D - ago /\ Date(x(ago)).weekday = Before(day)
  BY <1>2, MinutesAgo
<1>7. length = IF f <= t THEN t - f ELSE t + D - f
  <2>1. CASE f <= t
    <3>1. t + D - f = 1 * D + (t - f) /\ t - f \in 0 .. D - 1 /\ t + D - f \in Nat
      BY <1>1, <1>3, <2>1
    <3> QED
      BY <1>1, <2>1, <3>1, QuotientIsUnique
  <2>2. CASE ~ (f <= t)
    <3>1. t + D - f = 0 * D + (t + D - f) /\ t + D - f \in 0 .. D - 1 /\ t + D - f \in Nat
      BY <1>1, <1>3, <2>2
    <3> QED
      BY <1>1, <2>2, <3>1, QuotientIsUnique
  <2> QED
    BY <2>1, <2>2
<1> HIDE DEF clock, f, t, D, length, m, day, days, x
<1>8. (\E ago \in 0 .. D - 1 : ago < length /\ x(ago) % D = f /\ Date(x(ago)).weekday \in days)
        <=> IF f <= m THEN m - f < length /\ day \in days
            ELSE m + D - f < length /\ Before(day) \in days
  <2>1. ASSUME NEW ago \in 0 .. D - 1, x(ago) % D = f
        PROVE  /\ f <= m => ago = m - f /\ Date(x(ago)).weekday = day
               /\ ~ (f <= m) => ago = m + D - f /\ Date(x(ago)).weekday = Before(day)
    BY <1>1, <1>3, <1>4, <1>6, <2>1
  <2>2. CASE f <= m
    <3>1. m - f \in 0 .. D - 1 /\ m - f <= m /\ m - (m - f) = f
      BY <1>1, <1>3, <1>4, <2>2
    <3>2. x(m - f) % D = f /\ Date(x(m - f)).weekday = day
      BY <1>6, <3>1
    <3> QED
      BY <2>1, <2>2, <3>1, <3>2
  <2>3. CASE ~ (f <= m)
    <3>1. m + D - f \in 0 .. D - 1 /\ ~ (m + D - f <= m) /\ m + D - (m + D - f) = f
      BY <1>1, <1>3, <1>4, <2>3
    <3>2. x(m + D - f) % D = f /\ Date(x(m + D - f)).weekday = Before(day)
      BY <1>6, <3>1
    <3> QED
      BY <2>1, <2>3, <3>1, <3>2
  <2> QED
    BY <2>2, <2>3
<1>9. Covers(window, now) <=>
        \E ago \in 0 .. D - 1 : ago < length /\ x(ago) % D = f /\ Date(x(ago)).weekday \in days
  BY <1>1, <1>3, <1>4, <1>5, <1>7, <1>8
<1> QED
  BY <1>9 DEF clock, f, t, D, length, days, x

(* The clock stays in the calendar, and the configuration is what it was. *)
LEMMA ScheduleStays ==
  ASSUME ScheduleTypeOK, windows \in WindowLists, [ScheduleStep]_scheduleVars
  PROVE  ScheduleTypeOK' /\ windows' \in WindowLists
<1>1. Cycle \in Nat \ {0}
  BY WeeksOfCalendar DEF ScheduleTypeOK
<1>2. CASE Pass
  <2>1. PICK k \in 1 .. LongestTick : Lasts(k)
    BY <1>2 DEF Pass
  <2>2. now + k \in Nat
    BY <1>1, CalendarAssumption DEF ScheduleTypeOK, Instants
  <2>3. now' \in Instants
    BY <1>1, <2>1, <2>2, QuotientAndRemainder DEF Lasts, MinuteAt, Instants
  <2> QED
    BY <2>1, <2>3 DEF Lasts, ScheduleTypeOK
<1>3. CASE UNCHANGED scheduleVars
  BY <1>3 DEF scheduleVars, ScheduleTypeOK
<1>4. CASE StartUp \/ Refuse \/ FailToRegister \/ TickInVain
  BY <1>4 DEF StartUp, Refuse, FailToRegister, TickInVain, ScheduleTypeOK
<1>5. CASE Trigger
  BY <1>5 DEF Trigger, ScheduleTypeOK
<1> QED
  BY <1>2, <1>3, <1>4, <1>5 DEF ScheduleStep

(* Type correctness of the schedule. *)
THEOREM ScheduleTypes == ScheduleSpec => [](ScheduleTypeOK /\ windows \in WindowLists)
<1>1. ScheduleInit => ScheduleTypeOK /\ windows \in WindowLists
  BY DEF ScheduleInit, ScheduleTypeOK
<1>2. ScheduleTypeOK /\ windows \in WindowLists /\ [ScheduleStep]_scheduleVars
        => (ScheduleTypeOK /\ windows \in WindowLists)'
  BY ScheduleStays
<1> QED
  BY <1>1, <1>2, PTL DEF ScheduleSpec

(* The exclusion windows exclude neither more nor less than they say (blackout.ts),
   for any lengths of the hour, the day and the week, any calendar and any windows. *)
THEOREM WindowsAlwaysIntervals == ScheduleSpec => []WindowsAreIntervals
<1>1. ScheduleTypeOK /\ windows \in WindowLists => WindowsAreIntervals
  <2> SUFFICES ASSUME ScheduleTypeOK, windows \in WindowLists, NEW i \in DOMAIN windows,
                      Junk \notin {windows[i].from, windows[i].to}
               PROVE  LET window == windows[i]
                          clock == IF window.utc THEN now ELSE Local(now)
                          length == (window.to + DayLength - window.from) % DayLength
                      IN  Covers(window, now) <=>
                            \E ago \in 0 .. DayLength - 1 :
                              /\ ago < length
                              /\ (clock + Cycle - ago) % DayLength = window.from
                              /\ Date(clock + Cycle - ago).weekday \in ParseDays(window.days)
    BY DEF WindowsAreIntervals
  <2>1. Instants # {} /\ now \in Instants
    BY DEF ScheduleTypeOK
  <2>2. {windows[i].from, windows[i].to} \subseteq (0 .. DayLength - 1) \cup {Junk}
    BY WindowsAssumption
  <2> QED
    BY <2>1, <2>2, CoversIsInterval
<1> QED
  BY <1>1, ScheduleTypes, PTL
=============================================================================
