----------------------------- MODULE HttpProofs -----------------------------
(***************************************************************************)
(* Proofs about HttpClient: for any number of sources and requests, any    *)
(* delays and any limits, the limiter neither loses a slot nor gives one   *)
(* twice, whichever way the attempts end and in whatever order the woken   *)
(* requests and the newcomers run; a source whose circuit has opened goes  *)
(* quiet; and the load on the host is shared by the sources.               *)
(***************************************************************************)
EXTENDS HttpClient, FiniteSetTheorems, SequenceTheorems, WellFoundedInduction, TLAPS

Holders == {r \in Requests : at[r] \in HoldingPoints}

LEMMA HoldersAreFinite == IsFiniteSet(Holders) /\ Cardinality(Holders) \in Nat
<1>1. IsFiniteSet(Requests)
  BY HttpAssumption
<1>2. Holders \subseteq Requests
  BY DEF Holders
<1> QED
  BY <1>1, <1>2, FS_Subset, FS_CardinalityType

LEMMA HeldAreFinite ==
  ASSUME NEW s \in Sources
  PROVE  IsFiniteSet(HeldBy(s)) /\ Cardinality(HeldBy(s)) \in Nat
<1>1. IsFiniteSet(Requests) /\ HeldBy(s) \subseteq Requests
  BY HttpAssumption DEF HeldBy
<1> QED
  BY <1>1, FS_Subset, FS_CardinalityType

(* One decrement, never below zero. *)
LEMMA LongestOfTwo ==
  ASSUME NEW n \in Int
  PROVE  Longest({0, n}) = IF n > 0 THEN n ELSE 0
BY DEF Longest

LEMMA SlotTypes ==
  ASSUME SlotsInvariant
  PROVE  /\ limit \in [Sources -> Nat \ {0}] /\ inFlight \in Nat
         /\ \A r \in Requests : SourceOf[r] \in Sources
<1>1. Concurrencies \subseteq Nat \ {0} /\ SourceOf \in [Requests -> Sources]
  BY HttpAssumption
<1>2. limit \in [Sources -> Concurrencies] /\ inFlight \in Nat
  BY DEF SlotsInvariant
<1> QED
  BY <1>1, <1>2

(* A request that takes a free slot is one more holder. *)
LEMMA TakingKeepsInvariant ==
  ASSUME SlotsInvariant, NEW r \in Requests, at[r] \in {"robots", "backoff", "woken"},
         inFlight < limit[SourceOf[r]], TakeSlot(r)
  PROVE  SlotsInvariant'
<1> USE DEF SlotsInvariant
<1>1. \E p \in HoldingPoints : at' = [at EXCEPT ![r] = p]
  BY DEF TakeSlot, Depart, HoldingPoints
<1>2. UNCHANGED <<limit, queue>> /\ inFlight' = inFlight + 1
  BY DEF TakeSlot
<1>3. at' \in [Requests -> Points]
  BY <1>1 DEF Points
<1>4. QueueIsSound'
  <2>1. \A q \in Requests : at[q] = "queued" => at'[q] = "queued"
    BY <1>1
  <2> QED
    BY <1>2, <2>1 DEF QueueIsSound
<1>5. Holders' = Holders \cup {r} /\ r \notin Holders
  BY <1>1 DEF Holders, HoldingPoints
<1>6. Cardinality(Holders') = Cardinality(Holders) + 1
  BY <1>5, HoldersAreFinite, FS_AddElement
<1>7. inFlight' = Cardinality(Holders') /\ Permitted(inFlight)'
  <2>1. inFlight' = Cardinality(Holders')
    BY <1>2, <1>6 DEF SlotsAreBalanced, Holders
  <2>2. inFlight' <= limit'[SourceOf[r]] /\ SourceOf[r] \in Sources
    BY <1>2, SlotTypes
  <2> QED
    BY <2>1, <2>2 DEF Permitted
<1>8. ASSUME NEW s \in Sources
      PROVE  Cardinality(HeldBy(s)') <= limit'[s]
  <2>1. CASE s = SourceOf[r]
    <3>1. Cardinality(HeldBy(s)') <= Cardinality(Holders')
      BY <1>5, HoldersAreFinite, FS_AddElement, FS_Subset DEF HeldBy, Holders
    <3>2. IsFiniteSet(HeldBy(s)') /\ Cardinality(HeldBy(s)') \in Nat
      BY <1>5, <3>1, HoldersAreFinite, FS_AddElement, FS_Subset, FS_CardinalityType
         DEF HeldBy, Holders
    <3>3. inFlight' <= limit'[s] /\ limit'[s] \in Nat /\ inFlight' \in Nat
      BY <1>2, <2>1, SlotTypes
    <3> QED
      BY <1>2, <1>7, <3>1, <3>2, <3>3
  <2>2. CASE s # SourceOf[r]
    <3>1. HeldBy(s)' = HeldBy(s)
      BY <1>1, <2>2 DEF HeldBy
    <3> QED
      BY <1>2, <3>1 DEF SlotsAreBalanced
  <2> QED
    BY <2>1, <2>2
<1> QED
  BY <1>2, <1>3, <1>4, <1>7, <1>8 DEF SlotsAreBalanced, Holders

(* A request that finds no slot is one more in the queue. *)
LEMMA JoiningKeepsInvariant ==
  ASSUME SlotsInvariant, NEW r \in Requests, at[r] \in {"robots", "backoff", "woken"},
         JoinQueue(r)
  PROVE  SlotsInvariant'
<1> USE DEF SlotsInvariant
<1>1. /\ at' = [at EXCEPT ![r] = "queued"]
      /\ queue' = Append(queue, r)
      /\ UNCHANGED <<limit, inFlight>>
  BY DEF JoinQueue
<1>2. at' \in [Requests -> Points]
  BY <1>1 DEF Points
<1>3. QueueIsSound'
  <2>1. queue' \in Seq(Requests) /\ Len(queue') = Len(queue) + 1
    BY <1>1 DEF QueueIsSound
  <2>2. /\ \A i \in 1 .. Len(queue) : queue'[i] = queue[i] /\ queue[i] # r
        /\ queue'[Len(queue) + 1] = r
    BY <1>1 DEF QueueIsSound
  <2>3. \A i \in 1 .. Len(queue) : at'[queue[i]] = "queued"
    BY <1>1, <2>2 DEF QueueIsSound
  <2>4. at'[r] = "queued"
    BY <1>1
  <2> QED
    BY <2>1, <2>2, <2>3, <2>4 DEF QueueIsSound
<1>4. Holders' = Holders /\ \A s \in Sources : HeldBy(s)' = HeldBy(s)
  BY <1>1 DEF Holders, HeldBy, HoldingPoints
<1> QED
  BY <1>1, <1>2, <1>3, <1>4 DEF SlotsAreBalanced, Holders, Permitted

(* release() by a holder: one holder less, and the woken one is no holder. *)
LEMMA ReleasingKeepsInvariant ==
  ASSUME SlotsInvariant, NEW r \in Requests, at[r] \in HoldingPoints,
         NEW next \in Points \ (HoldingPoints \cup {"queued"}), Release(r, next)
  PROVE  SlotsInvariant'
<1> USE DEF SlotsInvariant
<1>1. r \in Holders
  BY DEF Holders
<1>2. Cardinality(Holders \ {r}) = Cardinality(Holders) - 1
  BY <1>1, HoldersAreFinite, FS_RemoveElement
<1>3. Cardinality(Holders) > 0
  BY <1>1, HoldersAreFinite, FS_EmptySet
<1>4. inFlight' = inFlight - 1
  BY <1>3, LongestOfTwo DEF Release, SlotsAreBalanced, Holders
<1>5. /\ at' \in [Requests -> Points]
      /\ at'[r] = next
      /\ \A q \in Requests \ {r} :
           at'[q] = IF queue # <<>> /\ q = Head(queue) THEN "woken" ELSE at[q]
  BY DEF Release, Points, HoldingPoints
<1>6. queue # <<>> => Head(queue) \in Requests /\ at[Head(queue)] = "queued"
  BY DEF QueueIsSound
<1>7. Holders' = Holders \ {r} /\ \A s \in Sources : HeldBy(s)' \subseteq HeldBy(s)
  BY <1>5, <1>6 DEF Holders, HeldBy, HoldingPoints
<1>8. QueueIsSound'
  <2>1. CASE queue = <<>>
    BY <2>1 DEF QueueIsSound, Release
  <2>2. CASE queue # <<>>
    <3>1. queue' = Tail(queue) /\ queue' \in Seq(Requests) /\ Len(queue') = Len(queue) - 1
      BY <2>2 DEF QueueIsSound, Release
    <3>2. \A i \in 1 .. Len(queue') : queue'[i] = queue[i + 1] /\ i + 1 \in 1 .. Len(queue)
      BY <2>2, <3>1 DEF QueueIsSound
    <3>3. Head(queue) = queue[1] /\ 1 \in 1 .. Len(queue)
      BY <2>2 DEF QueueIsSound
    <3>4. \A i \in 1 .. Len(queue') : queue'[i] # Head(queue) /\ queue'[i] # r
      BY <3>2, <3>3 DEF QueueIsSound, HoldingPoints
    <3>5. \A i \in 1 .. Len(queue') : at'[queue'[i]] = "queued"
      BY <1>5, <3>1, <3>2, <3>4 DEF QueueIsSound
    <3>6. \A i, j \in 1 .. Len(queue') : queue'[i] = queue'[j] => i = j
      BY <3>2 DEF QueueIsSound
    <3> QED
      BY <3>1, <3>5, <3>6 DEF QueueIsSound
  <2> QED
    BY <2>1, <2>2
<1>9. /\ UNCHANGED limit
      /\ inFlight' \in Nat
      /\ inFlight' = Cardinality(Holders')
      /\ Permitted(inFlight)'
  <2>1. /\ limit \in [Sources -> Nat \ {0}] /\ limit' = limit /\ inFlight \in Nat
        /\ inFlight = Cardinality(Holders) /\ Permitted(inFlight)
    BY SlotTypes DEF SlotsAreBalanced, Holders, Release
  <2>2. Permitted(inFlight)'
    BY <1>4, <2>1 DEF Permitted
  <2> QED
    BY <1>2, <1>3, <1>4, <1>7, <2>1, <2>2, HoldersAreFinite
<1>10. ASSUME NEW s \in Sources
       PROVE  Cardinality(HeldBy(s)') <= limit'[s]
  <2>1. /\ Cardinality(HeldBy(s)') \in Nat /\ Cardinality(HeldBy(s)) \in Nat
        /\ Cardinality(HeldBy(s)') <= Cardinality(HeldBy(s))
    BY <1>7, HeldAreFinite, FS_Subset, FS_CardinalityType
  <2>2. Cardinality(HeldBy(s)) <= limit[s] /\ limit[s] \in Nat /\ limit' = limit
    BY <1>9, SlotTypes DEF SlotsAreBalanced
  <2> QED
    BY <2>1, <2>2
<1> QED
  BY <1>5, <1>8, <1>9, <1>10 DEF SlotsAreBalanced, Holders

(* A step that moves a request between two points of which both hold a slot or
   neither does, and neither is in the queue, leaves the slots as they are. *)
LEMMA MovingKeepsInvariant ==
  ASSUME SlotsInvariant, NEW r \in Requests, NEW p \in Points,
         at[r] # "queued", at[r] \in HoldingPoints <=> p \in HoldingPoints,
         at' = [at EXCEPT ![r] = p], UNCHANGED <<limit, inFlight, queue>>
  PROVE  SlotsInvariant'
<1> USE DEF SlotsInvariant
<1>1. /\ at' \in [Requests -> Points] /\ Holders' = Holders
      /\ \A s \in Sources : HeldBy(s)' = HeldBy(s)
  BY DEF Holders, HeldBy
<1>2. QueueIsSound'
  BY DEF QueueIsSound
<1> QED
  BY <1>1, <1>2 DEF SlotsAreBalanced, Holders, Permitted

LEMMA SendStepKeepsInvariant ==
  ASSUME SlotsInvariant, NEW r \in Requests, SendStep(r)
  PROVE  SlotsInvariant'
<1>1. CASE Refuse(r) \/ MeetOpenCircuit(r) \/ ExceedBudget(r)
  BY <1>1, MovingKeepsInvariant
     DEF Refuse, MeetOpenCircuit, ExceedBudget, Fail, Ready, hostVars, Points, HoldingPoints
<1>2. CASE Attempt(r) \/ WakeUp(r)
  <2>1. at[r] \in {"robots", "backoff", "woken"} /\ Acquire(r)
    BY <1>2 DEF Attempt, WakeUp, Ready
  <2> QED
    BY <2>1, TakingKeepsInvariant, JoiningKeepsInvariant DEF Acquire
<1>3. CASE EndSpacing(r) \/ ObeyRetryAfter(r)
  BY <1>3, MovingKeepsInvariant
     DEF EndSpacing, Depart, ObeyRetryAfter, hostVars, Points, HoldingPoints
<1>4. CASE Answer(r) \/ FailAttempt(r) \/ EndRetryAfter(r)
  <2>1. /\ at[r] \in HoldingPoints
        /\ Release(r, "answered") \/ Release(r, "backoff") \/ Release(r, "failed")
    BY <1>4 DEF Answer, FailAttempt, EndRetryAfter, TryAgain, HoldingPoints
  <2> QED
    BY <2>1, ReleasingKeepsInvariant DEF Points, HoldingPoints
<1> QED
  BY <1>1, <1>2, <1>3, <1>4 DEF SendStep

LEMMA HttpNextKeepsInvariant ==
  ASSUME SlotsInvariant, [HttpNext]_vars
  PROVE  SlotsInvariant'
<1>1. CASE \E r \in Requests : Begin(r)
  BY <1>1, MovingKeepsInvariant DEF Begin, hostVars, Points, HoldingPoints
<1>2. CASE \E r \in Requests : SendStep(r)
  BY <1>2, SendStepKeepsInvariant
<1>3. CASE Tick \/ UNCHANGED vars
  BY <1>3 DEF Tick, vars, hostVars, requestVars, SlotsInvariant, QueueIsSound, SlotsAreBalanced,
              HeldBy, Permitted
<1> QED
  BY <1>1, <1>2, <1>3 DEF HttpNext

LEMMA InitialSlots == HttpInit => SlotsInvariant
<1> SUFFICES ASSUME HttpInit PROVE SlotsInvariant
  OBVIOUS
<1>1. Holders = {}
  BY DEF HttpInit, Holders, HoldingPoints
<1>2. inFlight = Cardinality(Holders) /\ Permitted(inFlight)
  BY <1>1, FS_EmptySet, HttpAssumption DEF HttpInit, Permitted
<1>3. \A s \in Sources : limit[s] \in Nat
  <2>1. Concurrencies \subseteq Nat
    BY HttpAssumption
  <2>2. limit \in [Sources -> Concurrencies]
    BY DEF HttpInit
  <2> QED
    BY <2>1, <2>2
<1>4. ASSUME NEW s \in Sources
      PROVE  Cardinality(HeldBy(s)) <= limit[s]
  <2>1. HeldBy(s) = {}
    BY DEF HttpInit, HeldBy, HoldingPoints
  <2> QED
    BY <1>3, <2>1, FS_EmptySet
<1> QED
  BY <1>2, <1>4, HttpAssumption
     DEF HttpInit, SlotsInvariant, QueueIsSound, SlotsAreBalanced, Holders, Points

(* What each request and the limiter know of the slots. *)
THEOREM SlotsAreInvariant == HttpSpec => []SlotsInvariant
<1>1. SlotsInvariant /\ [HttpNext]_vars => SlotsInvariant'
  BY HttpNextKeepsInvariant
<1> QED
  BY InitialSlots, <1>1, PTL DEF HttpSpec

(* The limiter counts the slots right, and never more than it may give. *)
THEOREM SlotsAlwaysBalanced == HttpSpec => []SlotsAreBalanced
BY SlotsAreInvariant, PTL DEF SlotsInvariant
-----------------------------------------------------------------------------
(* A failing source rests. *)

LEMMA RequestsOfAreFinite ==
  ASSUME NEW s \in Sources
  PROVE  /\ IsFiniteSet(RequestsOf(s)) /\ Cardinality(RequestsOf(s)) \in Nat
         /\ \A T \in SUBSET RequestsOf(s) :
              /\ IsFiniteSet(T) /\ Cardinality(T) \in Nat
              /\ Cardinality(T) <= Cardinality(RequestsOf(s))
<1>1. IsFiniteSet(RequestsOf(s))
  BY HttpAssumption, FS_Subset DEF RequestsOf
<1> QED
  BY <1>1, FS_Subset, FS_CardinalityType

(* What the invariant says of one source. *)
Rests(s) ==
  /\ hammered[s] < Cardinality(RequestsOf(s)) \/ hammered[s] = 0
  /\ circuit[s] = "open" =>
       hammered[s] + Cardinality(Pending(s)) < Cardinality(RequestsOf(s))

LEMMA FailuresBySource ==
  FailuresInvariant <=> /\ circuit \in [Sources -> {"closed", "open", "half-open"}]
                        /\ hammered \in [Sources -> Nat]
                        /\ \A s \in Sources : Rests(s)
BY DEF FailuresInvariant, FailingSourceRests, Rests, RequestsOf

LEMMA FailuresNextBySource ==
  ASSUME circuit' \in [Sources -> {"closed", "open", "half-open"}],
         hammered' \in [Sources -> Nat],
         \A s \in Sources : Rests(s)'
  PROVE  FailuresInvariant'
BY DEF FailuresInvariant, FailingSourceRests, Rests, RequestsOf

(* A step that opens no circuit, sends nothing through an open one and makes no
   request pending for it. *)
LEMMA CalmStepRests ==
  ASSUME FailuresInvariant, NEW s \in Sources,
         hammered'[s] = hammered[s] \/ hammered'[s] = 0,
         circuit'[s] = "open" => circuit[s] = "open" /\ Pending(s)' \subseteq Pending(s)
  PROVE  Rests(s)'
<1>1. Rests(s) /\ hammered[s] \in Nat
  BY FailuresBySource
<1>2. Cardinality(RequestsOf(s)) \in Nat /\ RequestsOf(s)' = RequestsOf(s)
  BY RequestsOfAreFinite DEF RequestsOf
<1>3. Pending(s) \subseteq RequestsOf(s)
  BY DEF Pending
<1>4. circuit'[s] = "open" =>
        /\ Cardinality(Pending(s)) \in Nat /\ Cardinality(Pending(s)') \in Nat
        /\ Cardinality(Pending(s)') <= Cardinality(Pending(s))
  BY <1>3, RequestsOfAreFinite, FS_Subset, FS_CardinalityType
<1> QED
  BY <1>1, <1>2, <1>4 DEF Rests

(* A request that departs through an open circuit was pending when it opened. *)
LEMMA DepartureRests ==
  ASSUME FailuresInvariant, NEW r \in Requests, NEW s \in Sources, r \in Pending(s),
         circuit[s] = "open", hammered'[s] = hammered[s] + 1,
         Pending(s)' \subseteq Pending(s) \ {r}
  PROVE  Rests(s)'
<1>1. Rests(s) /\ hammered[s] \in Nat
  BY FailuresBySource
<1>2. Cardinality(RequestsOf(s)) \in Nat /\ RequestsOf(s)' = RequestsOf(s)
  BY RequestsOfAreFinite DEF RequestsOf
<1>3. IsFiniteSet(Pending(s)) /\ Cardinality(Pending(s)) \in Nat
  BY RequestsOfAreFinite DEF Pending
<1>4. /\ IsFiniteSet(Pending(s) \ {r})
      /\ Cardinality(Pending(s) \ {r}) = Cardinality(Pending(s)) - 1
  BY <1>3, FS_RemoveElement
<1>5. Cardinality(Pending(s)') \in Nat /\ Cardinality(Pending(s)') <= Cardinality(Pending(s)) - 1
  BY <1>4, FS_Subset, FS_CardinalityType
<1> QED
  BY <1>1, <1>2, <1>3, <1>5 DEF Rests

(* The failure that opens a circuit is that of a request that is not pending. *)
LEMMA OpeningRests ==
  ASSUME FailuresInvariant, NEW s \in Sources, NEW r \in RequestsOf(s),
         hammered'[s] = 0, r \notin Pending(s)'
  PROVE  Rests(s)'
<1>1. Cardinality(RequestsOf(s)) \in Nat /\ RequestsOf(s)' = RequestsOf(s)
  BY RequestsOfAreFinite DEF RequestsOf
<1>2. /\ IsFiniteSet(RequestsOf(s) \ {r})
      /\ Cardinality(RequestsOf(s) \ {r}) = Cardinality(RequestsOf(s)) - 1
  BY RequestsOfAreFinite, FS_RemoveElement
<1>3. Pending(s)' \subseteq RequestsOf(s) \ {r}
  BY DEF Pending, RequestsOf
<1>4. /\ Cardinality(Pending(s)') \in Nat
      /\ Cardinality(Pending(s)') <= Cardinality(RequestsOf(s)) - 1
  BY <1>2, <1>3, FS_Subset, FS_CardinalityType
<1> QED
  BY <1>1, <1>4 DEF Rests

(* Moving a request changes the pending ones of its source only. *)
LEMMA MovingPending ==
  ASSUME at \in [Requests -> Points], NEW r \in Requests, NEW p \in Points,
         at' = [at EXCEPT ![r] = p], NEW s \in Sources
  PROVE  /\ Pending(s)' \subseteq Pending(s) \cup {r}
         /\ SourceOf[r] # s => Pending(s)' = Pending(s)
         /\ at[r] \in {"queued", "woken", "spacing"} => Pending(s)' \subseteq Pending(s)
         /\ p \notin {"queued", "woken", "spacing"} => Pending(s)' \subseteq Pending(s) \ {r}
BY DEF Pending, RequestsOf

(* release() wakes a request that was pending already. *)
LEMMA ReleasingPending ==
  ASSUME SlotsInvariant, NEW r \in Requests,
         NEW next \in Points \ {"queued", "woken", "spacing"}, Release(r, next),
         NEW s \in Sources
  PROVE  Pending(s)' \subseteq Pending(s) \ {r}
<1>1. queue # <<>> => Head(queue) \in Requests /\ at[Head(queue)] = "queued"
  BY DEF SlotsInvariant, QueueIsSound
<1>2. \A q \in Requests :
        at'[q] = IF q = r THEN next
                 ELSE IF queue # <<>> /\ q = Head(queue) THEN "woken" ELSE at[q]
  BY DEF Release
<1> QED
  BY <1>1, <1>2 DEF Pending, RequestsOf

(* A step by a request of another source. *)
LEMMA OtherSourceRests ==
  ASSUME FailuresInvariant, NEW s \in Sources,
         circuit'[s] = circuit[s], hammered'[s] = hammered[s], Pending(s)' \subseteq Pending(s)
  PROVE  Rests(s)'
BY CalmStepRests

(* acquire() after the circuit was looked at, or without looking. *)
LEMMA AcquiringRests ==
  ASSUME FailuresInvariant, SlotsInvariant, NEW r \in Requests, Acquire(r),
         \/ at[r] = "woken" /\ UNCHANGED circuit
         \/ /\ State(SourceOf[r]) # "open"
            /\ circuit' = [circuit EXCEPT ![SourceOf[r]] = State(SourceOf[r])]
  PROVE  FailuresInvariant'
<1> DEFINE t == SourceOf[r]
<1>1. /\ t \in Sources /\ r \in RequestsOf(t)
      /\ at \in [Requests -> Points]
      /\ circuit \in [Sources -> {"closed", "open", "half-open"}]
      /\ hammered \in [Sources -> Nat]
  BY HttpAssumption, FailuresBySource DEF SlotsInvariant, RequestsOf
<1>2. circuit' \in [Sources -> {"closed", "open", "half-open"}]
  BY <1>1 DEF State
<1>3. \/ \E p \in {"queued", "spacing"} : at' = [at EXCEPT ![r] = p] /\ UNCHANGED hammered
      \/ /\ at' = [at EXCEPT ![r] = "sent"]
         /\ hammered' = [hammered EXCEPT ![t] = IF circuit'[t] = "open" THEN @ + 1 ELSE 0]
  BY DEF Acquire, TakeSlot, JoinQueue, Depart
<1>4. hammered' \in [Sources -> Nat]
  BY <1>1, <1>3
<1>5. {"queued", "spacing", "sent"} \subseteq Points
  BY DEF Points, HoldingPoints
<1>6. circuit'[t] = "open" => at[r] = "woken" /\ circuit[t] = "open"
  BY <1>1 DEF State
<1>7. ASSUME NEW s \in Sources
      PROVE  Rests(s)'
  <2>1. CASE s # t
    <3>1. circuit'[s] = circuit[s] /\ hammered'[s] = hammered[s]
      BY <1>1, <1>3, <2>1
    <3>2. Pending(s)' = Pending(s)
      BY <1>1, <1>3, <1>5, <2>1, MovingPending
    <3> QED
      BY <3>1, <3>2, OtherSourceRests
  <2>2. CASE s = t /\ circuit'[t] # "open"
    <3>1. hammered'[s] = hammered[s] \/ hammered'[s] = 0
      BY <1>1, <1>3, <2>2
    <3> QED
      BY <2>2, <3>1, CalmStepRests
  <2>3. CASE s = t /\ circuit'[t] = "open"
    <3>1. r \in Pending(t) /\ circuit[t] = "open" /\ at[r] = "woken"
      BY <1>1, <1>6, <2>3 DEF Pending
    <3>2. CASE \E p \in {"queued", "spacing"} : at' = [at EXCEPT ![r] = p] /\ UNCHANGED hammered
      <4>1. Pending(t)' \subseteq Pending(t)
        <5>1. PICK p \in Points : at' = [at EXCEPT ![r] = p]
          BY <1>5, <3>2
        <5>2. at[r] \in {"queued", "woken", "spacing"}
          BY <3>1
        <5> QED
          BY <1>1, <5>1, <5>2, MovingPending
      <4>2. hammered'[t] = hammered[t]
        BY <3>2
      <4> QED
        BY <1>1, <2>3, <3>1, <4>1, <4>2, CalmStepRests
    <3>3. CASE /\ at' = [at EXCEPT ![r] = "sent"]
               /\ hammered' = [hammered EXCEPT ![t] = IF circuit'[t] = "open" THEN @ + 1 ELSE 0]
      <4>1. Pending(t)' \subseteq Pending(t) \ {r}
        BY <1>1, <1>5, <3>3, MovingPending
      <4>2. hammered'[t] = hammered[t] + 1
        BY <1>1, <2>3, <3>3
      <4> QED
        BY <1>1, <2>3, <3>1, <4>1, <4>2, DepartureRests
    <3> QED
      BY <1>3, <3>2, <3>3
  <2> QED
    BY <2>1, <2>2, <2>3
<1> QED
  BY <1>2, <1>4, <1>7, FailuresNextBySource

(* A failure counts, opens the circuit, or finds it open. *)
LEMMA FailingRests ==
  ASSUME FailuresInvariant, SlotsInvariant, NEW r \in Requests, at[r] = "sent",
         RecordFailure(SourceOf[r]),
         \A s \in Sources : Pending(s)' \subseteq Pending(s) \ {r}
  PROVE  FailuresInvariant'
<1> DEFINE t == SourceOf[r]
<1>1. /\ t \in Sources /\ r \in RequestsOf(t)
      /\ circuit \in [Sources -> {"closed", "open", "half-open"}]
      /\ hammered \in [Sources -> Nat]
  BY HttpAssumption, FailuresBySource DEF RequestsOf
<1>2. \/ UNCHANGED <<circuit, hammered>>
      \/ /\ circuit' = [circuit EXCEPT ![t] = "open"]
         /\ hammered' = [hammered EXCEPT ![t] = IF circuit[t] = "open" THEN @ ELSE 0]
  BY DEF RecordFailure
<1>3. ASSUME NEW s \in Sources
      PROVE  Rests(s)'
  <2>1. CASE circuit'[s] = circuit[s] /\ hammered'[s] = hammered[s]
    BY <2>1, OtherSourceRests
  <2>2. CASE s = t /\ hammered'[s] = 0 /\ r \notin Pending(s)'
    BY <1>1, <2>2, OpeningRests
  <2> QED
    BY <1>1, <1>2, <2>1, <2>2
<1> QED
  BY <1>1, <1>2, <1>3, FailuresNextBySource

LEMMA SendStepKeepsFailures ==
  ASSUME FailuresInvariant, SlotsInvariant, NEW r \in Requests, SendStep(r)
  PROVE  FailuresInvariant'
<1> DEFINE t == SourceOf[r]
<1>1. /\ t \in Sources
      /\ at \in [Requests -> Points]
      /\ circuit \in [Sources -> {"closed", "open", "half-open"}]
      /\ hammered \in [Sources -> Nat]
      /\ {"answered", "backoff", "failed"} \subseteq Points \ {"queued", "woken", "spacing"}
      /\ {"failed", "obeying", "sent"} \subseteq Points \ {"queued", "woken", "spacing"}
  BY HttpAssumption, FailuresBySource DEF SlotsInvariant, Points, HoldingPoints
<1>2. CASE Refuse(r) \/ MeetOpenCircuit(r) \/ ExceedBudget(r)
  <2>1. \A s \in Sources : Pending(s)' \subseteq Pending(s)
    BY <1>1, <1>2, MovingPending DEF Refuse, MeetOpenCircuit, ExceedBudget, Fail
  <2>2. /\ UNCHANGED hammered
        /\ \/ UNCHANGED circuit
           \/ State(t) # "open" /\ circuit' = [circuit EXCEPT ![t] = State(t)]
    BY <1>2 DEF Refuse, MeetOpenCircuit, ExceedBudget, breakerVars
  <2>3. /\ circuit' \in [Sources -> {"closed", "open", "half-open"}]
        /\ \A s \in Sources : circuit'[s] = "open" => circuit[s] = "open"
    BY <1>1, <2>2 DEF State
  <2>4. \A s \in Sources : Rests(s)'
    BY <2>1, <2>2, <2>3, CalmStepRests
  <2> QED
    BY <1>1, <2>2, <2>3, <2>4, FailuresNextBySource
<1>3. CASE Attempt(r) \/ WakeUp(r)
  BY <1>3, AcquiringRests DEF Attempt, WakeUp, Charge
<1>4. CASE EndSpacing(r)
  <2>1. /\ at[r] = "spacing" /\ UNCHANGED circuit
        /\ at' = [at EXCEPT ![r] = "sent"]
        /\ hammered' = [hammered EXCEPT ![t] = IF circuit'[t] = "open" THEN @ + 1 ELSE 0]
    BY <1>4 DEF EndSpacing, Depart
  <2>2. ASSUME NEW s \in Sources
        PROVE  Rests(s)'
    <3>1. Pending(s)' \subseteq Pending(s) \ {r}
      BY <1>1, <2>1, MovingPending
    <3>2. CASE s # t \/ circuit[t] # "open"
      BY <1>1, <2>1, <3>1, <3>2, CalmStepRests
    <3>3. CASE s = t /\ circuit[t] = "open"
      <4>1. r \in Pending(t)
        BY <1>1, <2>1 DEF Pending, RequestsOf
      <4>2. hammered'[t] = hammered[t] + 1
        BY <1>1, <2>1, <3>3
      <4> QED
        BY <3>1, <3>3, <4>1, <4>2, DepartureRests
    <3> QED
      BY <3>2, <3>3
  <2>3. hammered' \in [Sources -> Nat]
    BY <1>1, <2>1
  <2> QED
    BY <1>1, <2>1, <2>2, <2>3, FailuresNextBySource
<1>5. CASE Answer(r)
  <2>1. /\ circuit' = [circuit EXCEPT ![t] = "closed"]
        /\ hammered' = [hammered EXCEPT ![t] = 0]
    BY <1>5 DEF Answer, RecordSuccess
  <2>2. \A s \in Sources : Pending(s)' \subseteq Pending(s)
    BY <1>1, <1>5, ReleasingPending DEF Answer
  <2>3. \A s \in Sources : Rests(s)'
    BY <1>1, <2>1, <2>2, CalmStepRests
  <2> QED
    BY <1>1, <2>1, <2>3, FailuresNextBySource
<1>6. CASE FailAttempt(r)
  <2>1. Release(r, "backoff") \/ Release(r, "failed")
    BY <1>6 DEF FailAttempt, TryAgain
  <2>2. \A s \in Sources : Pending(s)' \subseteq Pending(s) \ {r}
    BY <1>1, <2>1, ReleasingPending
  <2> QED
    BY <1>6, <2>2, FailingRests DEF FailAttempt
<1>7. CASE ObeyRetryAfter(r)
  <2>1. \A s \in Sources : Pending(s)' \subseteq Pending(s) \ {r}
    BY <1>1, <1>7, MovingPending DEF ObeyRetryAfter
  <2> QED
    BY <1>7, <2>1, FailingRests DEF ObeyRetryAfter
<1>8. CASE EndRetryAfter(r)
  <2>1. /\ Release(r, "backoff") \/ Release(r, "failed")
        /\ UNCHANGED <<circuit, hammered>>
    BY <1>8 DEF EndRetryAfter, TryAgain, breakerVars
  <2>2. \A s \in Sources : Pending(s)' \subseteq Pending(s)
    BY <1>1, <2>1, ReleasingPending
  <2>3. \A s \in Sources : Rests(s)'
    BY <2>1, <2>2, OtherSourceRests
  <2> QED
    BY <1>1, <2>1, <2>3, FailuresNextBySource
<1> QED
  BY <1>2, <1>3, <1>4, <1>5, <1>6, <1>7, <1>8 DEF SendStep

(* Once its circuit is open, a source sends less requests than it has, whichever
   of them were waiting for the limiter, whenever late answers come and whoever
   releases the slots. *)
THEOREM FailingSourcesRest == HttpSpec => []FailingSourceRests
<1>1. HttpInit => FailuresInvariant
  BY DEF HttpInit, FailuresInvariant, FailingSourceRests
<1>2. FailuresInvariant /\ SlotsInvariant /\ [HttpNext]_vars => FailuresInvariant'
  <2> SUFFICES ASSUME FailuresInvariant, SlotsInvariant, [HttpNext]_vars
               PROVE  FailuresInvariant'
    OBVIOUS
  <2>1. CASE \E r \in Requests : SendStep(r)
    BY <2>1, SendStepKeepsFailures
  <2>2. CASE Tick \/ UNCHANGED vars \/ \E r \in Requests : Begin(r)
    <3>1. UNCHANGED <<circuit, hammered>>
      BY <2>2 DEF Tick, vars, Begin, breakerVars
    <3>2. \A s \in Sources : Pending(s)' \subseteq Pending(s)
      <4>1. at' = at \/ \E r \in Requests : at' = [at EXCEPT ![r] = "robots"]
        BY <2>2 DEF Tick, vars, requestVars, Begin
      <4>2. "robots" \in Points \ {"queued", "woken", "spacing"} /\ at \in [Requests -> Points]
        BY DEF Points, SlotsInvariant
      <4>3. CASE at' = at
        BY <4>3 DEF Pending, RequestsOf
      <4> QED
        BY <4>1, <4>2, <4>3, MovingPending
    <3>3. \A s \in Sources : Rests(s)'
      BY <3>1, <3>2, OtherSourceRests
    <3> QED
      BY <3>1, <3>3, FailuresBySource, FailuresNextBySource
  <2> QED
    BY <2>1, <2>2 DEF HttpNext
<1>3. FailuresInvariant => FailingSourceRests
  BY DEF FailuresInvariant
<1> QED
  BY SlotsAreInvariant, <1>1, <1>2, <1>3, PTL DEF HttpSpec
-----------------------------------------------------------------------------
(* The load is shared. *)

(* Numbers are ordered as the intervals below them. *)
LEMMA LeastOf ==
  ASSUME NEW T, T \subseteq Nat, T # {}
  PROVE  \E n \in T : \A m \in T : n <= m
<1> DEFINE Below == {0 .. n : n \in T}
<1>1. Below \subseteq FiniteSubsetsOf(Nat) /\ Below # {}
  <2>1. \A n \in T : IsFiniteSet(0 .. n) /\ 0 .. n \subseteq Nat
    BY FS_Interval
  <2> QED
    BY <2>1 DEF FiniteSubsetsOf
<1>2. \E x \in Below : \A y \in Below : ~ (<<y, x>> \in StrictSubsetOrdering(Nat))
  BY <1>1, FS_StrictSubsetOrderingWellFounded, WFMin
<1>3. PICK n \in T : \A y \in Below : ~ (<<y, 0 .. n>> \in StrictSubsetOrdering(Nat))
  BY <1>2
<1>4. ASSUME NEW m \in T, m < n
      PROVE  FALSE
  <2>1. 0 .. m \subseteq 0 .. n /\ 0 .. m \in SUBSET Nat /\ 0 .. n \in SUBSET Nat
    BY <1>4
  <2>2. n \in 0 .. n /\ n \notin 0 .. m
    BY <1>4
  <2>3. 0 .. m \in Below
    OBVIOUS
  <2> QED
    BY <1>3, <2>1, <2>2, <2>3 DEF StrictSubsetOrdering
<1> QED
  BY <1>4

LEMMA LongestOfThree ==
  ASSUME NEW b \in Int, NEW c \in Int
  PROVE  /\ Longest({0, b, c}) \in {0, b, c} /\ Longest({0, b, c}) >= 0
         /\ Longest({0, b, c}) >= b /\ Longest({0, b, c}) >= c
<1>1. \E n \in {0, b, c} : \A m \in {0, b, c} : m <= n
  OBVIOUS
<1> QED
  BY <1>1 DEF Longest

(* The extremes of what the sources' capabilities say. *)
LEMMA CapabilitiesAreBounded ==
  /\ LeastPoliteness \in Nat /\ LongestPoliteness \in Nat /\ LargestQuota \in Nat \ {0}
  /\ \A s \in Sources :
       /\ Politeness[s] \in Nat \ {0} /\ Quota[s] \in Nat \ {0}
       /\ LeastPoliteness <= Politeness[s] /\ Politeness[s] <= LongestPoliteness
       /\ Quota[s] <= LargestQuota
<1> DEFINE P == {Politeness[s] : s \in Sources}
           Q == {Quota[s] : s \in Sources}
<1>1. \A s \in Sources : Politeness[s] \in Nat \ {0} /\ Quota[s] \in Nat \ {0}
  BY HttpAssumption
<1>2. P \subseteq Nat /\ Q \subseteq Nat \ {0}
  BY <1>1
<1>3. PICK n \in P : \A m \in P : m <= n
  BY HttpAssumption
<1>4. PICK q \in Q : \A m \in Q : m <= q
  BY HttpAssumption
<1>5. PICK least \in P : \A m \in P : least <= m
  <2>1. P # {}
    BY <1>3
  <2> HIDE DEF P
  <2> QED
    BY <1>2, <2>1, LeastOf
<1>6. LongestPoliteness \in P /\ \A m \in P : m <= LongestPoliteness
  BY <1>3 DEF LongestPoliteness, Longest
<1>7. LargestQuota \in Q /\ \A m \in Q : m <= LargestQuota
  BY <1>4 DEF LargestQuota, Longest
<1>8. LeastPoliteness \in P /\ \A s \in Sources : LeastPoliteness <= Politeness[s]
  BY <1>5 DEF LeastPoliteness
<1> QED
  BY <1>1, <1>2, <1>6, <1>7, <1>8

(* The longest politeness is a delay, and no source asks for more than it. *)
LEMMA MaxIdleIsADelay ==
  MaxIdle \in Nat /\ \A s \in Sources : Politeness[s] <= MaxIdle
<1>1. Longest(Slowdowns) \in Slowdowns
  BY HttpAssumption DEF Longest
<1>2. Longest(Slowdowns) \in Nat \ {0} /\ LongestPoliteness \in Nat
  BY <1>1, HttpAssumption, CapabilitiesAreBounded
<1>3. \A m \in Nat, n \in Nat \ {0} : m * n \in Nat /\ m * n >= m
  OBVIOUS
<1>4. MaxIdle \in Nat /\ MaxIdle >= LongestPoliteness
  BY <1>2, <1>3 DEF MaxIdle
<1> QED
  BY <1>2, <1>4, CapabilitiesAreBounded

(* The delays that the filter, the politeness and the quota give a request. *)
LEMMA RecentIsTheEnd ==
  ASSUME LoadInvariant
  PROVE  \E n \in 0 .. Len(stamps) :
           /\ Recent \in Seq(0 .. Window)
           /\ Len(Recent) = Len(stamps) - n
           /\ \A j \in 1 .. Len(Recent) : Recent[j] = stamps[n + j] /\ Recent[j] < Window
<1> DEFINE T == {i \in 1 .. Len(stamps) + 1 : i = Len(stamps) + 1 \/ stamps[i] < Window}
<1>1. stamps \in Seq(0 .. Window) /\ Len(stamps) \in Nat /\ Window \in Nat
  BY HttpAssumption DEF LoadInvariant
<1>2. PICK k \in T : \A i \in T : k <= i
  <2>1. T \subseteq Nat /\ Len(stamps) + 1 \in T
    BY <1>1
  <2> QED
    BY <2>1, LeastOf
<1> DEFINE n == k - 1
<1>3. n \in 0 .. Len(stamps)
  BY <1>1, <1>2
<1>4. \A i \in 1 .. Len(stamps) : stamps[i] \in 0 .. Window
  BY <1>1, ElementOfSeq
<1>5. {i \in DOMAIN stamps : stamps[i] >= Window} = 1 .. n
  <2>1. \A i \in 1 .. n : stamps[i] >= Window
    BY <1>1, <1>2, <1>4
  <2>2. \A i \in 1 .. Len(stamps) : i > n => stamps[i] < Window
    BY <1>1, <1>2, <1>4 DEF LoadInvariant, AgesAreOrdered
  <2>3. DOMAIN stamps = 1 .. Len(stamps)
    BY <1>1, LenProperties
  <2> QED
    BY <1>1, <1>3, <1>4, <2>1, <2>2, <2>3
<1>6. Recent = SubSeq(stamps, n + 1, Len(stamps))
  <2>1. Cardinality(1 .. n) = n
    BY <1>3, FS_Interval
  <2> QED
    BY <1>5, <2>1 DEF Recent
<1>7. \A i \in 1 .. Len(stamps) : i > n => stamps[i] < Window
  BY <1>1, <1>2, <1>4 DEF LoadInvariant, AgesAreOrdered
<1> HIDE DEF n
<1>8. /\ Recent \in Seq(0 .. Window)
      /\ Len(Recent) = Len(stamps) - n
      /\ \A j \in 1 .. Len(stamps) - n : Recent[j] = stamps[n + j]
  <2>1. \A j \in (n + 1) .. Len(stamps) : stamps[j] \in 0 .. Window
    BY <1>3, <1>4
  <2>2. n + 1 \in Int /\ Len(stamps) \in Int /\ n + 1 \in 1 .. Len(stamps) + 1
    BY <1>1, <1>3
  <2> QED
    BY <1>1, <1>3, <1>6, <2>1, <2>2, SubSeqProperties
<1> HIDE DEF T
<1>9. \A j \in 1 .. Len(Recent) : Recent[j] = stamps[n + j] /\ Recent[j] < Window
  BY <1>1, <1>3, <1>7, <1>8
<1> QED
  BY <1>3, <1>8, <1>9

(* Spacing requests are holders, and there are no more of them than slots. *)
Spacing == {r \in Requests : at[r] = "spacing"}

LEMMA FewFollow ==
  ASSUME NEW T, T \subseteq Spacing
  PROVE  /\ IsFiniteSet(T) /\ Cardinality(T) \in Nat
         /\ Cardinality(T) <= Cardinality(Holders)
         /\ \A r \in Holders : r \notin T => Cardinality(T) + 1 <= Cardinality(Holders)
<1>1. T \subseteq Holders
  BY DEF Spacing, Holders, HoldingPoints
<1>2. IsFiniteSet(T) /\ Cardinality(T) \in Nat /\ Cardinality(T) <= Cardinality(Holders)
  BY <1>1, HoldersAreFinite, FS_Subset, FS_CardinalityType
<1>3. ASSUME NEW r \in Holders, r \notin T
      PROVE  Cardinality(T) + 1 <= Cardinality(Holders)
  <2>1. Cardinality(T \cup {r}) = Cardinality(T) + 1
    BY <1>2, <1>3, FS_AddElement
  <2>2. Cardinality(T \cup {r}) <= Cardinality(Holders)
    BY <1>1, HoldersAreFinite, FS_Subset
  <2> QED
    BY <2>1, <2>2
<1> QED
  BY <1>2, <1>3

(* A step that departs nothing and sends nobody to sleep in its slot. *)
LEMMA QuietStepKeepsLoad ==
  ASSUME LoadInvariant, SlotsInvariant, UNCHANGED <<limit, idle, stamps>>,
         delay' \in [Requests -> Nat],
         \A r \in Requests : at'[r] = "spacing" => at[r] = "spacing" /\ delay'[r] = delay[r]
  PROVE  LoadInvariant'
<1>1. stamps \in Seq(0 .. Window) /\ Len(stamps) \in Nat
  BY DEF LoadInvariant
<1>2. AgesAreOrdered'
  BY DEF LoadInvariant, AgesAreOrdered
<1>3. DeparturesAreSpaced'
  <2>1. SUFFICES ASSUME NEW i \in 1 .. Len(stamps), stamps[i] < LeastPoliteness
                 PROVE  Permitted((Len(stamps) - i + 1) + Cardinality(Followers(i)'))
    BY DEF DeparturesAreSpaced, Followers, Permitted
  <2>2. Followers(i)' \subseteq Followers(i) /\ Followers(i) \subseteq Spacing
    BY DEF Followers, Spacing
  <2>3. /\ Cardinality(Followers(i)') \in Nat /\ Cardinality(Followers(i)) \in Nat
        /\ Cardinality(Followers(i)') <= Cardinality(Followers(i))
    BY <2>2, FewFollow, FS_Subset, FS_CardinalityType
  <2>4. Permitted((Len(stamps) - i + 1) + Cardinality(Followers(i)))
    BY <2>1 DEF LoadInvariant, DeparturesAreSpaced
  <2>5. limit \in [Sources -> Nat] /\ Len(stamps) - i + 1 \in Int
    BY <1>1, HttpAssumption DEF SlotsInvariant
  <2> QED
    BY <2>3, <2>4, <2>5 DEF Permitted
<1>4. MinuteIsRationed' /\ DelayIsSlept'
  BY DEF LoadInvariant, MinuteIsRationed, DelayIsSlept, OneSlotEach
<1> QED
  BY <1>2, <1>3, <1>4 DEF LoadInvariant

(* What a request of s that takes a slot waits for: the delay of its own source,
   and room in the minute when the largest quota is used up. *)
LEMMA WaitIsLongEnough ==
  ASSUME LoadInvariant, NEW s \in Sources, NEW slow \in Slowdowns, NEW wait,
         wait = Longest({0, PolitenessWait(s, slow), QuotaWait(s, Recent)})
  PROVE  /\ wait \in Nat
         /\ idle # Never => /\ idle \in Nat /\ wait + idle >= Politeness[s]
                            /\ wait + idle >= LeastPoliteness
         /\ Len(Recent) >= LargestQuota => wait + Recent[1] >= Window
<1>1. /\ Politeness[s] \in Nat /\ LeastPoliteness \in Nat /\ LeastPoliteness <= Politeness[s]
      /\ Quota[s] \in Nat \ {0} /\ LargestQuota \in Nat \ {0} /\ Quota[s] <= LargestQuota
      /\ slow \in Nat \ {0} /\ Window \in Nat /\ idle \in Nat \cup {Never}
  BY HttpAssumption, CapabilitiesAreBounded DEF LoadInvariant
<1>2. /\ PolitenessWait(s, slow) \in Int
      /\ idle # Never => PolitenessWait(s, slow) + idle >= Politeness[s]
  <2>1. \A m \in Nat, k \in Nat \ {0} : m * k \in Nat /\ m * k >= m
    OBVIOUS
  <2>2. Politeness[s] * slow \in Nat /\ Politeness[s] * slow >= Politeness[s]
    BY <1>1, <2>1
  <2> QED
    BY <1>1, <2>2 DEF PolitenessWait
<1>3. /\ QuotaWait(s, Recent) \in Int
      /\ Len(Recent) >= Quota[s] =>
           Recent[1] \in Nat /\ QuotaWait(s, Recent) + Recent[1] >= Window
  <2>1. Recent \in Seq(0 .. Window) /\ Len(Recent) \in Nat
    BY RecentIsTheEnd
  <2>2. Len(Recent) >= Quota[s] => Recent[1] \in 0 .. Window
    BY <1>1, <2>1, ElementOfSeq
  <2> QED
    BY <1>1, <2>1, <2>2 DEF QuotaWait
<1>4. /\ wait \in {0, PolitenessWait(s, slow), QuotaWait(s, Recent)}
      /\ wait >= 0 /\ wait >= PolitenessWait(s, slow) /\ wait >= QuotaWait(s, Recent)
  BY <1>2, <1>3, LongestOfThree
<1>5. Len(Recent) \in Nat
  BY RecentIsTheEnd
<1> QED
  BY <1>1, <1>2, <1>3, <1>4, <1>5

(* What more slots permit, fewer do. *)
LEMMA FewerArePermitted ==
  ASSUME limit \in [Sources -> Nat], NEW m \in Int, NEW n \in Int, m <= n, Permitted(n)
  PROVE  Permitted(m)
BY DEF Permitted

(* With one slot each, the requests with a slot are at most one. *)
LEMMA OneHolder ==
  ASSUME SlotsInvariant, OneSlotEach
  PROVE  /\ Cardinality(Holders) <= 1
         /\ \A s \in Sources : inFlight < limit[s] => Cardinality(Holders) = 0
<1>1. inFlight = Cardinality(Holders) /\ inFlight \in Nat /\ Permitted(inFlight)
  BY DEF SlotsInvariant, SlotsAreBalanced, Holders
<1> QED
  BY <1>1 DEF Permitted, OneSlotEach

(* What the steps of the limiter need to know of its state. *)
LEMMA HostTypes ==
  ASSUME LoadInvariant, SlotsInvariant
  PROVE  /\ limit \in [Sources -> Nat] /\ Window \in Nat /\ 0 \in 0 .. Window
         /\ LeastPoliteness \in Nat /\ LargestQuota \in Nat \ {0}
         /\ stamps \in Seq(0 .. Window) /\ Len(stamps) \in Nat
         /\ DOMAIN stamps = 1 .. Len(stamps)
         /\ delay \in [Requests -> Nat] /\ idle \in Nat \cup {Never}
         /\ at \in [Requests -> Points] /\ inFlight \in Nat
<1>1. limit \in [Sources -> Nat] /\ at \in [Requests -> Points] /\ inFlight \in Nat
  BY HttpAssumption DEF SlotsInvariant
<1>2. Window \in Nat /\ 0 \in 0 .. Window
  BY HttpAssumption
<1>3. stamps \in Seq(0 .. Window) /\ delay \in [Requests -> Nat] /\ idle \in Nat \cup {Never}
  BY DEF LoadInvariant
<1> QED
  BY <1>1, <1>2, <1>3, CapabilitiesAreBounded, LenProperties

(* A request that sleeps in its slot departs the least politeness after everything that
   departed before, and with one slot each after the minute has made room for it. *)
LEMMA SleepingKeepsLoad ==
  ASSUME LoadInvariant, SlotsInvariant, NEW r \in Requests, at[r] # "spacing",
         NEW s \in Sources, s = SourceOf[r], inFlight < limit[s],
         NEW slow \in Slowdowns, NEW wait,
         wait = Longest({0, PolitenessWait(s, slow), QuotaWait(s, Recent)}),
         delay' = [delay EXCEPT ![r] = wait],
         at' = [at EXCEPT ![r] = "spacing"],
         stamps' = Recent, UNCHANGED <<idle, limit>>
  PROVE  LoadInvariant'
<1>1. PICK n \in 0 .. Len(stamps) :
           /\ stamps' \in Seq(0 .. Window)
           /\ Len(stamps') = Len(stamps) - n
           /\ \A j \in 1 .. Len(stamps') : stamps'[j] = stamps[n + j] /\ stamps'[j] < Window
  BY RecentIsTheEnd
<1>2. /\ limit \in [Sources -> Nat] /\ Window \in Nat
      /\ LeastPoliteness \in Nat /\ LargestQuota \in Nat \ {0}
      /\ Len(stamps) \in Nat /\ stamps \in Seq(0 .. Window)
      /\ delay \in [Requests -> Nat] /\ at \in [Requests -> Points] /\ inFlight \in Nat
  BY HostTypes
<1>3. /\ wait \in Nat
      /\ idle # Never => idle \in Nat /\ wait + idle >= LeastPoliteness
      /\ idle # Never => wait + idle >= Politeness[s]
      /\ Len(stamps') >= LargestQuota => wait + stamps'[1] >= Window
  BY WaitIsLongEnough
<1>4. \A j \in 1 .. Len(stamps') : n + j \in 1 .. Len(stamps) /\ stamps[n + j] \in 0 .. Window
  <2>1. \A i \in 1 .. Len(stamps) : stamps[i] \in 0 .. Window
    BY <1>2, ElementOfSeq
  <2>2. \A j \in 1 .. Len(stamps') : n + j \in 1 .. Len(stamps)
    BY <1>1, <1>2
  <2> QED
    BY <2>1, <2>2
<1>5. AgesAreOrdered'
  <2>1. ASSUME NEW j \in 1 .. Len(stamps'), NEW k \in 1 .. Len(stamps'), j <= k
        PROVE  stamps'[j] >= stamps'[k]
    <3>1. n + j <= n + k /\ n + j \in 1 .. Len(stamps) /\ n + k \in 1 .. Len(stamps)
      BY <1>2, <1>4, <2>1
    <3>2. stamps[n + j] >= stamps[n + k]
      BY <3>1 DEF LoadInvariant, AgesAreOrdered
    <3> QED
      BY <1>1, <3>2
  <2>2. ASSUME NEW j \in 1 .. Len(stamps'), stamps'[j] < LeastPoliteness
        PROVE  idle # Never /\ idle <= stamps'[j]
    <3>1. stamps'[j] = stamps[n + j] /\ n + j \in 1 .. Len(stamps)
      BY <1>1, <1>4
    <3> QED
      BY <2>2, <3>1 DEF LoadInvariant, AgesAreOrdered
  <2> QED
    BY <2>1, <2>2 DEF AgesAreOrdered
<1>6. DeparturesAreSpaced'
  <2>1. SUFFICES ASSUME NEW j \in 1 .. Len(stamps'), stamps'[j] < LeastPoliteness
                 PROVE  Permitted((Len(stamps') - j + 1) + Cardinality(Followers(j)'))
    BY DEF DeparturesAreSpaced, Followers, Permitted
  <2>2. stamps'[j] = stamps[n + j] /\ n + j \in 1 .. Len(stamps) /\ stamps[n + j] \in Nat
    BY <1>1, <1>2, <1>4
  <2>3. wait + stamps[n + j] >= LeastPoliteness
    BY <1>2, <1>3, <2>1, <2>2 DEF LoadInvariant, AgesAreOrdered
  <2>4. Followers(j)' \subseteq Followers(n + j)
    <3>1. ASSUME NEW q \in Requests, at'[q] = "spacing",
                 delay'[q] + stamps'[j] < LeastPoliteness
          PROVE  at[q] = "spacing" /\ delay[q] + stamps[n + j] < LeastPoliteness
      <4>1. q # r
        BY <1>2, <1>3, <2>2, <2>3, <3>1
      <4> QED
        BY <1>2, <2>2, <3>1, <4>1
    <3> QED
      BY <3>1 DEF Followers
  <2>5. Followers(n + j) \subseteq Spacing
    BY DEF Followers, Spacing
  <2>6. /\ Cardinality(Followers(j)') \in Nat /\ Cardinality(Followers(n + j)) \in Nat
        /\ Cardinality(Followers(j)') <= Cardinality(Followers(n + j))
    BY <2>4, <2>5, FewFollow, FS_Subset, FS_CardinalityType
  <2>7. Permitted((Len(stamps) - (n + j) + 1) + Cardinality(Followers(n + j)))
    BY <2>1, <2>2 DEF LoadInvariant, DeparturesAreSpaced
  <2> QED
    <3>1. (Len(stamps') - j + 1) + Cardinality(Followers(j)') <=
            (Len(stamps) - (n + j) + 1) + Cardinality(Followers(n + j))
      BY <1>1, <1>2, <2>6
    <3>2. /\ (Len(stamps') - j + 1) + Cardinality(Followers(j)') \in Int
          /\ (Len(stamps) - (n + j) + 1) + Cardinality(Followers(n + j)) \in Int
      <4>1. Len(stamps') \in Int /\ Len(stamps) \in Int /\ n \in Int /\ j \in Int
        BY <1>1, <1>2
      <4> QED
        BY <2>6, <4>1
    <3> QED
      BY <1>2, <2>7, <3>1, <3>2, FewerArePermitted
<1>7. ASSUME OneSlotEach, NEW q \in Requests, at'[q] = "spacing"
      PROVE  q = r
  <2> SUFFICES ASSUME q # r
               PROVE  FALSE
    OBVIOUS
  <2>1. Cardinality(Holders) = 0
    BY <1>7, OneHolder
  <2>2. q \in Holders
    BY <1>2, <1>7 DEF Holders, HoldingPoints
  <2> QED
    BY <2>1, <2>2, HoldersAreFinite, FS_EmptySet
<1>8. MinuteIsRationed'
  <2> SUFFICES ASSUME OneSlotEach
               PROVE  MinuteIsRationed'
    BY DEF MinuteIsRationed, OneSlotEach
  <2>1. Len(stamps') <= LargestQuota
    <3> SUFFICES ASSUME Len(stamps') > LargestQuota
                 PROVE  FALSE
      BY <1>1, <1>2
    <3>1. /\ Len(stamps') - LargestQuota \in 1 .. Len(stamps')
          /\ n + (Len(stamps') - LargestQuota) = Len(stamps) - LargestQuota
      BY <1>1, <1>2
    <3>2. stamps[Len(stamps) - LargestQuota] < Window
      BY <1>1, <3>1
    <3>3. Len(stamps) > LargestQuota
      BY <1>1, <1>2
    <3>4. stamps[Len(stamps) - LargestQuota] >= Window
      BY <3>3 DEF LoadInvariant, MinuteIsRationed
    <3>5. stamps[Len(stamps) - LargestQuota] \in 0 .. Window
      BY <1>4, <3>1
    <3> QED
      BY <1>2, <3>2, <3>4, <3>5
  <2>2. \A q \in Requests : at'[q] = "spacing" => q = r
    BY <1>7
  <2>3. Len(stamps') >= LargestQuota => Len(stamps') - LargestQuota + 1 = 1
    <3>1. Len(stamps') \in Nat /\ LargestQuota \in Nat
      BY <1>1, <1>2
    <3> QED
      BY <2>1, <3>1
  <2>4. delay'[r] = wait
    BY <1>2
  <2> QED
    BY <1>1, <1>2, <1>3, <2>1, <2>2, <2>3, <2>4 DEF MinuteIsRationed
<1>9. delay' \in [Requests -> Nat]
  BY <1>2, <1>3
<1>10. DelayIsSlept'
  BY <1>2, <1>3, <1>7 DEF DelayIsSlept, OneSlotEach
<1>11. idle' \in Nat \cup {Never}
  BY DEF LoadInvariant
<1> QED
  BY <1>1, <1>5, <1>6, <1>8, <1>9, <1>10, <1>11 DEF LoadInvariant

(* A departure: the end of the timestamps, and a new one. *)
Departed(n) ==
  /\ stamps' \in Seq(0 .. Window)
  /\ Len(stamps') = Len(stamps) - n + 1
  /\ \A j \in 1 .. Len(stamps) - n : stamps'[j] = stamps[n + j]
  /\ stamps'[Len(stamps')] = 0
  /\ idle' = 0

LEMMA DepartingKeepsOrder ==
  ASSUME LoadInvariant, NEW n \in 0 .. Len(stamps), Departed(n)
  PROVE  AgesAreOrdered'
<1>1. /\ Len(stamps) \in Nat /\ Window \in Nat
      /\ \A i \in 1 .. Len(stamps) : stamps[i] \in Nat
  <2>1. stamps \in Seq(0 .. Window) /\ Window \in Nat
    BY HttpAssumption DEF LoadInvariant
  <2> QED
    BY <2>1, ElementOfSeq
<1>2. \A j \in 1 .. Len(stamps') :
        j = Len(stamps') \/ (n + j \in 1 .. Len(stamps) /\ stamps'[j] = stamps[n + j])
  BY <1>1 DEF Departed
<1>3. \A j \in 1 .. Len(stamps') : stamps'[j] >= 0
  BY <1>1, <1>2 DEF Departed
<1>4. ASSUME NEW j \in 1 .. Len(stamps'), NEW k \in 1 .. Len(stamps'), j <= k
      PROVE  stamps'[j] >= stamps'[k]
  <2>1. CASE k = Len(stamps')
    BY <1>3, <2>1 DEF Departed
  <2>2. CASE k # Len(stamps')
    <3>1. j # Len(stamps')
      BY <1>1, <1>4, <2>2 DEF Departed
    <3>2. stamps[n + j] >= stamps[n + k]
      <4>1. n + j <= n + k /\ n + j \in 1 .. Len(stamps) /\ n + k \in 1 .. Len(stamps)
        BY <1>1, <1>2, <1>4, <2>2, <3>1
      <4> QED
        BY <4>1 DEF LoadInvariant, AgesAreOrdered
    <3> QED
      BY <1>2, <2>2, <3>1, <3>2
  <2> QED
    BY <2>1, <2>2
<1>5. idle' # Never
  BY HttpAssumption DEF Departed
<1> QED
  BY <1>3, <1>4, <1>5 DEF AgesAreOrdered, Departed

(* A request that leaves as soon as it has its slot: nothing departed for a
   politeness, and the others with a slot are fewer than the limit. *)
LEMMA LeavingKeepsLoad ==
  ASSUME LoadInvariant, SlotsInvariant, NEW r \in Requests, at[r] # "spacing",
         NEW s \in Sources, s = SourceOf[r], inFlight < limit[s],
         NEW slow \in Slowdowns,
         0 = Longest({0, PolitenessWait(s, slow), QuotaWait(s, Recent)}),
         delay' = [delay EXCEPT ![r] = 0],
         at' = [at EXCEPT ![r] = "sent"],
         idle' = 0, stamps' = Append(Recent, 0), UNCHANGED limit
  PROVE  LoadInvariant'
<1>1. PICK n \in 0 .. Len(stamps) :
           /\ Recent \in Seq(0 .. Window)
           /\ Len(Recent) = Len(stamps) - n
           /\ \A j \in 1 .. Len(Recent) : Recent[j] = stamps[n + j] /\ Recent[j] < Window
  BY RecentIsTheEnd
<1>2. /\ limit \in [Sources -> Nat] /\ Window \in Nat
      /\ LeastPoliteness \in Nat /\ LargestQuota \in Nat \ {0}
      /\ Len(stamps) \in Nat /\ stamps \in Seq(0 .. Window) /\ 0 \in 0 .. Window
      /\ delay \in [Requests -> Nat] /\ at \in [Requests -> Points]
  BY HostTypes
<1>3. Cardinality(Holders) \in Nat /\ Cardinality(Holders) + 1 <= limit[s]
  BY <1>2, HoldersAreFinite DEF SlotsInvariant, SlotsAreBalanced, Holders
<1>4. Departed(n)
  <2>1. /\ stamps' \in Seq(0 .. Window)
        /\ Len(stamps') = Len(Recent) + 1
        /\ \A j \in 1 .. Len(Recent) : stamps'[j] = Recent[j]
        /\ stamps'[Len(Recent) + 1] = 0
    BY <1>1, <1>2, AppendProperties
  <2> QED
    BY <1>1, <1>2, <2>1 DEF Departed
<1>5. /\ idle # Never => idle \in Nat /\ 0 + idle >= LeastPoliteness
      /\ Len(Recent) >= LargestQuota => 0 + Recent[1] >= Window
  BY WaitIsLongEnough
<1>6. \A i \in 1 .. Len(stamps) : stamps[i] >= LeastPoliteness
  <2>1. \A i \in 1 .. Len(stamps) : stamps[i] \in Nat
    BY <1>2, ElementOfSeq
  <2> QED
    BY <1>2, <1>5, <2>1 DEF LoadInvariant, AgesAreOrdered
<1>7. DeparturesAreSpaced'
  <2>1. SUFFICES ASSUME NEW j \in 1 .. Len(stamps'), stamps'[j] < LeastPoliteness
                 PROVE  Permitted((Len(stamps') - j + 1) + Cardinality(Followers(j)'))
    BY <1>2 DEF DeparturesAreSpaced, Followers, Permitted
  <2>2. j = Len(stamps')
    <3> SUFFICES ASSUME j # Len(stamps')
                 PROVE  FALSE
      OBVIOUS
    <3>1. j \in 1 .. Len(stamps) - n /\ n + j \in 1 .. Len(stamps)
      BY <1>1, <1>2, <1>4 DEF Departed
    <3>2. stamps'[j] = stamps[n + j]
      BY <1>4, <3>1 DEF Departed
    <3>3. stamps[n + j] >= LeastPoliteness /\ stamps[n + j] \in 0 .. Window
      BY <1>2, <1>6, <3>1, ElementOfSeq
    <3> QED
      BY <1>2, <2>1, <3>2, <3>3
  <2>3. Followers(j)' \subseteq Spacing
    BY <1>2 DEF Followers, Spacing
  <2>4. Cardinality(Followers(j)') \in Nat /\ Cardinality(Followers(j)') <= Cardinality(Holders)
    BY <2>3, FewFollow
  <2> QED
    <3>1. (Len(stamps') - j + 1) + Cardinality(Followers(j)') <= limit[s]
      BY <1>2, <1>3, <1>4, <2>2, <2>4 DEF Departed
    <3> QED
      BY <3>1 DEF Permitted
<1>8. ASSUME OneSlotEach, NEW q \in Requests
       PROVE  at'[q] # "spacing"
  <2>1. Cardinality(Holders) = 0
    BY <1>8, OneHolder
  <2>2. q \notin Holders
    BY <2>1, HoldersAreFinite, FS_EmptySet
  <2> QED
    BY <1>2, <2>2 DEF Holders, HoldingPoints
<1>9. MinuteIsRationed'
  <2> SUFFICES ASSUME OneSlotEach
               PROVE  MinuteIsRationed'
    BY DEF MinuteIsRationed, OneSlotEach
  <2>1. \A q \in Requests : at'[q] # "spacing"
    BY <1>8
  <2>2. Len(Recent) < LargestQuota
    <3> SUFFICES ASSUME Len(Recent) >= LargestQuota
                 PROVE  FALSE
      BY <1>1, <1>2
    <3>1. 1 \in 1 .. Len(Recent)
      BY <1>1, <1>2
    <3>2. Recent[1] \in 0 .. Window /\ Recent[1] < Window
      BY <1>1, <3>1, ElementOfSeq
    <3> QED
      BY <1>2, <1>5, <3>2
  <2>3. ~ (Len(stamps') > LargestQuota)
    BY <1>1, <1>2, <1>4, <2>2 DEF Departed
  <2> QED
    BY <2>1, <2>3 DEF MinuteIsRationed
<1>10. AgesAreOrdered'
  BY <1>4, DepartingKeepsOrder
<1>11. delay' \in [Requests -> Nat]
  BY <1>2
<1>12. DelayIsSlept'
  BY <1>2, <1>8 DEF DelayIsSlept, OneSlotEach
<1> QED
  BY <1>4, <1>7, <1>9, <1>10, <1>11, <1>12 DEF LoadInvariant, Departed

(* A request that leaves at the end of its sleep was counted as a follower. *)
LEMMA EndSpacingKeepsLoad ==
  ASSUME LoadInvariant, SlotsInvariant, NEW r \in Requests, EndSpacing(r)
  PROVE  LoadInvariant'
<1>1. /\ limit \in [Sources -> Nat] /\ Window \in Nat
      /\ LeastPoliteness \in Nat /\ LargestQuota \in Nat \ {0}
      /\ Len(stamps) \in Nat /\ stamps \in Seq(0 .. Window) /\ 0 \in 0 .. Window
      /\ delay \in [Requests -> Nat] /\ at \in [Requests -> Points]
  BY HostTypes
<1>2. Cardinality(Holders) \in Nat /\ Permitted(Cardinality(Holders))
  BY HoldersAreFinite DEF SlotsInvariant, SlotsAreBalanced, Holders
<1>3. /\ at[r] = "spacing" /\ delay[r] = 0 /\ delay' = delay /\ limit' = limit
      /\ at' = [at EXCEPT ![r] = "sent"]
      /\ idle' = 0 /\ stamps' = Append(stamps, 0)
  BY DEF EndSpacing, Depart
<1>4. /\ stamps' \in Seq(0 .. Window)
      /\ Len(stamps') = Len(stamps) + 1
      /\ \A j \in 1 .. Len(stamps) : stamps'[j] = stamps[j]
      /\ stamps'[Len(stamps')] = 0
  BY <1>1, <1>3, AppendProperties
<1>5. r \in Holders
  BY <1>3 DEF Holders, HoldingPoints
<1>6. \A i \in 1 .. Len(stamps) : stamps[i] \in 0 .. Window
  BY <1>1, ElementOfSeq
<1>7. DeparturesAreSpaced'
  <2>1. SUFFICES ASSUME NEW j \in 1 .. Len(stamps'), stamps'[j] < LeastPoliteness
                 PROVE  Permitted((Len(stamps') - j + 1) + Cardinality(Followers(j)'))
    BY <1>3 DEF DeparturesAreSpaced, Followers, Permitted
  <2>2. CASE j = Len(stamps')
    <3>1. Followers(j)' \subseteq Spacing /\ r \notin Followers(j)'
      BY <1>1, <1>3 DEF Followers, Spacing
    <3>2. /\ Cardinality(Followers(j)') \in Nat
          /\ Cardinality(Followers(j)') + 1 <= Cardinality(Holders)
      BY <1>5, <3>1, FewFollow
    <3> QED
      BY <1>1, <1>2, <1>4, <2>2, <3>2, FewerArePermitted
  <2>3. CASE j # Len(stamps')
    <3>1. j \in 1 .. Len(stamps) /\ stamps'[j] = stamps[j] /\ stamps[j] \in Nat
      BY <1>1, <1>4, <1>6, <2>3
    <3>2. r \in Followers(j) /\ Followers(j)' \subseteq Followers(j) \ {r}
      BY <1>1, <1>3, <2>1, <3>1 DEF Followers
    <3>3. IsFiniteSet(Followers(j)) /\ Cardinality(Followers(j)) \in Nat
      BY FewFollow DEF Followers, Spacing
    <3>4. /\ IsFiniteSet(Followers(j) \ {r})
          /\ Cardinality(Followers(j) \ {r}) = Cardinality(Followers(j)) - 1
      BY <3>2, <3>3, FS_RemoveElement
    <3>5. /\ Cardinality(Followers(j)') \in Nat
          /\ Cardinality(Followers(j)') <= Cardinality(Followers(j)) - 1
      BY <3>2, <3>4, FS_Subset, FS_CardinalityType
    <3>6. Permitted((Len(stamps) - j + 1) + Cardinality(Followers(j)))
      BY <2>1, <3>1 DEF LoadInvariant, DeparturesAreSpaced
    <3> QED
      <4>1. (Len(stamps') - j + 1) + Cardinality(Followers(j)') <=
              (Len(stamps) - j + 1) + Cardinality(Followers(j))
        BY <1>1, <1>4, <3>1, <3>3, <3>5
      <4>2. /\ (Len(stamps') - j + 1) + Cardinality(Followers(j)') \in Int
            /\ (Len(stamps) - j + 1) + Cardinality(Followers(j)) \in Int
        BY <1>1, <1>4, <3>3, <3>5
      <4> QED
        BY <1>1, <3>6, <4>1, <4>2, FewerArePermitted
  <2> QED
    BY <2>2, <2>3
<1>8. ASSUME OneSlotEach, NEW q \in Requests
       PROVE  at'[q] # "spacing"
  <2> SUFFICES ASSUME at'[q] = "spacing"
               PROVE  FALSE
    OBVIOUS
  <2>1. {q} \subseteq Spacing /\ r \notin {q}
    BY <1>1, <1>3 DEF Spacing
  <2>2. Cardinality({q}) + 1 <= Cardinality(Holders)
    BY <1>5, <2>1, FewFollow
  <2>3. Cardinality({q}) = 1 /\ Cardinality(Holders) <= 1
    BY <1>8, FS_Singleton, OneHolder
  <2> QED
    BY <1>2, <2>2, <2>3
<1>9. MinuteIsRationed'
  <2> SUFFICES ASSUME OneSlotEach
               PROVE  MinuteIsRationed'
    BY <1>3 DEF MinuteIsRationed, OneSlotEach
  <2>1. \A q \in Requests : at'[q] # "spacing"
    BY <1>8
  <2>2. Len(stamps') > LargestQuota => stamps'[Len(stamps') - LargestQuota] >= Window
    <3> SUFFICES ASSUME Len(stamps') > LargestQuota
                 PROVE  stamps'[Len(stamps') - LargestQuota] >= Window
      OBVIOUS
    <3>1. /\ Len(stamps) >= LargestQuota
          /\ Len(stamps') - LargestQuota \in 1 .. Len(stamps)
          /\ Len(stamps) - LargestQuota + 1 = Len(stamps') - LargestQuota
      BY <1>1, <1>4
    <3>2. delay[r] + stamps[Len(stamps) - LargestQuota + 1] >= Window
      BY <1>3, <3>1 DEF LoadInvariant, MinuteIsRationed
    <3>3. stamps'[Len(stamps') - LargestQuota] = stamps[Len(stamps) - LargestQuota + 1]
      BY <1>1, <1>4, <3>1
    <3>4. stamps[Len(stamps) - LargestQuota + 1] \in 0 .. Window
      BY <1>6, <3>1
    <3> QED
      BY <1>1, <1>3, <3>2, <3>3, <3>4
  <2> QED
    BY <2>1, <2>2 DEF MinuteIsRationed
<1>10. AgesAreOrdered'
  <2>1. 0 \in 0 .. Len(stamps) /\ Departed(0)
    BY <1>1, <1>3, <1>4 DEF Departed
  <2> QED
    BY <2>1, DepartingKeepsOrder
<1>11. delay' \in [Requests -> Nat]
  BY <1>1, <1>3
<1>12. DelayIsSlept'
  BY <1>3, <1>8 DEF DelayIsSlept, OneSlotEach
<1> QED
  BY <1>3, <1>4, <1>7, <1>9, <1>10, <1>11, <1>12 DEF LoadInvariant

(* Time brings a departure and what follows it closer by no more than it passes. *)
LEMMA TickKeepsLoad ==
  ASSUME LoadInvariant, SlotsInvariant, LeastPoliteness <= Window, Tick
  PROVE  LoadInvariant'
<1>1. /\ limit \in [Sources -> Nat] /\ Window \in Nat
      /\ LeastPoliteness \in Nat /\ LargestQuota \in Nat \ {0}
      /\ Len(stamps) \in Nat /\ stamps \in Seq(0 .. Window) /\ MaxIdle \in Nat
      /\ delay \in [Requests -> Nat] /\ idle \in Nat \cup {Never}
  BY HostTypes, MaxIdleIsADelay
<1>2. \A i \in 1 .. Len(stamps) : stamps[i] \in 0 .. Window
  BY <1>1, ElementOfSeq
<1>3. stamps' = [i \in 1 .. Len(stamps) |-> Older(stamps[i], Window)]
  BY <1>1, LenProperties DEF Tick
<1>4. \A i \in 1 .. Len(stamps) :
        /\ stamps'[i] \in 0 .. Window
        /\ stamps'[i] = IF stamps[i] < Window THEN stamps[i] + 1 ELSE stamps[i]
  BY <1>1, <1>2, <1>3 DEF Older
<1>5. stamps' \in Seq(0 .. Window) /\ Len(stamps') = Len(stamps)
  <2>1. \A i \in 1 .. Len(stamps) : Older(stamps[i], Window) \in 0 .. Window
    BY <1>1, <1>2 DEF Older
  <2> QED
    BY <1>1, <1>3, <2>1
<1>6. /\ limit' = limit /\ at' = at
      /\ delay' \in [Requests -> Nat]
      /\ \A r \in Requests : delay'[r] = IF delay[r] > 0 THEN delay[r] - 1 ELSE 0
  BY <1>1 DEF Tick
<1>7. /\ idle' \in Nat \cup {Never}
      /\ idle # Never => idle' \in Nat /\ idle' <= idle + 1
  BY <1>1 DEF Tick, Older
<1>8. ASSUME OneSlotEach, NEW r \in Requests, at[r] = "spacing"
       PROVE  idle' = Never \/ delay'[r] + idle' >= Politeness[SourceOf[r]]
  <2>1. idle = Never \/ delay[r] + idle >= Politeness[SourceOf[r]]
    BY <1>8 DEF LoadInvariant, DelayIsSlept
  <2>2. SourceOf[r] \in Sources /\ Never \notin Nat
    BY HttpAssumption
  <2>3. /\ Politeness[SourceOf[r]] \in Nat /\ Politeness[SourceOf[r]] <= MaxIdle
        /\ delay[r] \in Nat
    BY <1>1, <2>2, CapabilitiesAreBounded, MaxIdleIsADelay
  <2>4. idle # Never => idle' = IF idle < MaxIdle THEN idle + 1 ELSE MaxIdle
    BY DEF Tick, Older
  <2>5. idle = Never => idle' = Never
    BY DEF Tick
  <2> QED
    BY <1>1, <1>6, <2>1, <2>2, <2>3, <2>4, <2>5
<1>9. AgesAreOrdered'
  <2>1. ASSUME NEW i \in 1 .. Len(stamps), NEW j \in 1 .. Len(stamps), i <= j
        PROVE  stamps'[i] >= stamps'[j]
    <3>1. stamps[i] >= stamps[j]
      BY <2>1 DEF LoadInvariant, AgesAreOrdered
    <3> QED
      BY <1>1, <1>2, <1>4, <3>1
  <2>2. ASSUME NEW i \in 1 .. Len(stamps), stamps'[i] < LeastPoliteness
        PROVE  idle' # Never /\ idle' <= stamps'[i]
    <3>1. stamps'[i] = stamps[i] + 1 /\ stamps[i] \in Nat /\ stamps[i] < LeastPoliteness
      BY <1>1, <1>2, <1>4, <2>2
    <3>2. idle # Never /\ idle <= stamps[i]
      BY <3>1 DEF LoadInvariant, AgesAreOrdered
    <3>3. Never \notin Nat
      BY HttpAssumption
    <3> QED
      BY <1>1, <1>7, <3>1, <3>2, <3>3
  <2> QED
    BY <1>5, <2>1, <2>2 DEF AgesAreOrdered
<1>10. DeparturesAreSpaced'
  <2>1. SUFFICES ASSUME NEW i \in 1 .. Len(stamps), stamps'[i] < LeastPoliteness
                 PROVE  Permitted((Len(stamps) - i + 1) + Cardinality(Followers(i)'))
    BY <1>5, <1>6 DEF DeparturesAreSpaced, Followers, Permitted
  <2>2. stamps'[i] = stamps[i] + 1 /\ stamps[i] \in Nat /\ stamps[i] < LeastPoliteness
    BY <1>1, <1>2, <1>4, <2>1
  <2>3. Followers(i)' \subseteq Followers(i)
    BY <1>1, <1>6, <2>2 DEF Followers
  <2>4. IsFiniteSet(Followers(i)) /\ Cardinality(Followers(i)) \in Nat
    BY FewFollow DEF Followers, Spacing
  <2>5. /\ Cardinality(Followers(i)') \in Nat
        /\ Cardinality(Followers(i)') <= Cardinality(Followers(i))
    BY <2>3, <2>4, FS_Subset, FS_CardinalityType
  <2>6. Permitted((Len(stamps) - i + 1) + Cardinality(Followers(i)))
    BY <2>2 DEF LoadInvariant, DeparturesAreSpaced
  <2> QED
    BY <1>1, <2>4, <2>5, <2>6, FewerArePermitted
<1>11. MinuteIsRationed'
  <2> SUFFICES ASSUME OneSlotEach
               PROVE  MinuteIsRationed'
    BY <1>6 DEF MinuteIsRationed, OneSlotEach
  <2>1. Len(stamps) > LargestQuota => stamps'[Len(stamps) - LargestQuota] >= Window
    <3> SUFFICES ASSUME Len(stamps) > LargestQuota
                 PROVE  stamps'[Len(stamps) - LargestQuota] >= Window
      OBVIOUS
    <3>1. stamps[Len(stamps) - LargestQuota] >= Window
      BY DEF LoadInvariant, MinuteIsRationed
    <3>2. Len(stamps) - LargestQuota \in 1 .. Len(stamps)
      BY <1>1
    <3> QED
      BY <1>1, <1>2, <1>4, <3>1, <3>2
  <2>2. ASSUME NEW r \in Requests, at[r] = "spacing", Len(stamps) >= LargestQuota
        PROVE  delay'[r] + stamps'[Len(stamps) - LargestQuota + 1] >= Window
    <3>1. delay[r] + stamps[Len(stamps) - LargestQuota + 1] >= Window
      BY <2>2 DEF LoadInvariant, MinuteIsRationed
    <3>2. Len(stamps) - LargestQuota + 1 \in 1 .. Len(stamps)
      BY <1>1, <2>2
    <3>3. /\ stamps[Len(stamps) - LargestQuota + 1] \in 0 .. Window
          /\ stamps'[Len(stamps) - LargestQuota + 1] =
               IF stamps[Len(stamps) - LargestQuota + 1] < Window
               THEN stamps[Len(stamps) - LargestQuota + 1] + 1
               ELSE stamps[Len(stamps) - LargestQuota + 1]
      BY <1>2, <1>4, <3>2
    <3> QED
      BY <1>1, <1>6, <3>1, <3>3
  <2> QED
    BY <1>5, <1>6, <2>1, <2>2 DEF MinuteIsRationed
<1>12. DelayIsSlept'
  BY <1>6, <1>8 DEF DelayIsSlept, OneSlotEach
<1> QED
  BY <1>5, <1>6, <1>7, <1>9, <1>10, <1>11, <1>12 DEF LoadInvariant

LEMMA AcquiringKeepsLoad ==
  ASSUME LoadInvariant, SlotsInvariant, NEW r \in Requests, at[r] # "spacing", Acquire(r)
  PROVE  LoadInvariant'
<1>1. delay \in [Requests -> Nat] /\ at \in [Requests -> Points]
  BY DEF LoadInvariant, SlotsInvariant
<1>2. CASE JoinQueue(r)
  BY <1>1, <1>2, QuietStepKeepsLoad DEF JoinQueue
<1> DEFINE s == SourceOf[r]
<1>3. CASE inFlight < limit[s] /\ TakeSlot(r)
  <2>1. PICK slow \in Slowdowns :
          LET wait == Longest({0, PolitenessWait(s, slow), QuotaWait(s, Recent)})
          IN  /\ delay' = [delay EXCEPT ![r] = wait]
              /\ IF wait = 0
                 THEN Depart(r, Recent)
                 ELSE /\ at' = [at EXCEPT ![r] = "spacing"]
                      /\ stamps' = Recent
                      /\ UNCHANGED <<idle, hammered>>
    BY <1>3 DEF TakeSlot
  <2> DEFINE wait == Longest({0, PolitenessWait(s, slow), QuotaWait(s, Recent)})
  <2>2. UNCHANGED limit /\ s \in Sources
    BY <1>3, HttpAssumption DEF TakeSlot
  <2>3. CASE wait = 0
    <3>1. /\ delay' = [delay EXCEPT ![r] = 0] /\ at' = [at EXCEPT ![r] = "sent"]
          /\ idle' = 0 /\ stamps' = Append(Recent, 0)
      BY <2>1, <2>3 DEF Depart
    <3> QED
      BY <1>3, <2>2, <2>3, <3>1, LeavingKeepsLoad
  <2>4. CASE wait # 0
    <3>1. /\ delay' = [delay EXCEPT ![r] = wait] /\ at' = [at EXCEPT ![r] = "spacing"]
          /\ stamps' = Recent /\ UNCHANGED idle
      BY <2>1, <2>4
    <3> QED
      BY <1>3, <2>2, <3>1, SleepingKeepsLoad
  <2> QED
    BY <2>3, <2>4
<1> QED
  BY <1>2, <1>3 DEF Acquire

LEMMA SendStepKeepsLoad ==
  ASSUME LoadInvariant, SlotsInvariant, NEW r \in Requests, SendStep(r) \/ Begin(r)
  PROVE  LoadInvariant'
<1>1. /\ delay \in [Requests -> Nat] /\ at \in [Requests -> Points]
      /\ Backoffs \subseteq Nat /\ RetryAfters \subseteq Nat
  BY HttpAssumption DEF LoadInvariant, SlotsInvariant
<1>2. CASE Attempt(r) \/ WakeUp(r)
  BY <1>2, AcquiringKeepsLoad DEF Attempt, WakeUp, Ready
<1>3. CASE EndSpacing(r)
  BY <1>3, EndSpacingKeepsLoad
<1>4. CASE Begin(r) \/ Refuse(r) \/ MeetOpenCircuit(r) \/ ExceedBudget(r) \/ ObeyRetryAfter(r)
  <2>1. UNCHANGED <<limit, idle, stamps>>
    BY <1>4 DEF Begin, Refuse, MeetOpenCircuit, ExceedBudget, ObeyRetryAfter, Fail, hostVars
  <2>2. \E p \in {"robots", "failed", "obeying"} : at' = [at EXCEPT ![r] = p]
    BY <1>4 DEF Begin, Refuse, MeetOpenCircuit, ExceedBudget, ObeyRetryAfter, Fail
  <2>3. delay' = delay \/ \E d \in RetryAfters : delay' = [delay EXCEPT ![r] = d]
    BY <1>4 DEF Begin, Refuse, MeetOpenCircuit, ExceedBudget, ObeyRetryAfter, Fail
  <2>4. delay' \in [Requests -> Nat]
    BY <1>1, <2>3
  <2>5. \A q \in Requests : at'[q] = "spacing" => at[q] = "spacing" /\ delay'[q] = delay[q]
    BY <1>1, <2>2, <2>3
  <2> QED
    BY <2>1, <2>4, <2>5, QuietStepKeepsLoad
<1>5. CASE Answer(r) \/ FailAttempt(r) \/ EndRetryAfter(r)
  <2>1. PICK next \in {"answered", "backoff", "failed"} : Release(r, next)
    BY <1>5 DEF Answer, FailAttempt, EndRetryAfter, TryAgain
  <2>2. UNCHANGED <<limit, idle, stamps>>
    BY <2>1 DEF Release
  <2>3. delay' = delay \/ \E d \in Backoffs : delay' = [delay EXCEPT ![r] = d]
    BY <1>5 DEF Answer, FailAttempt, EndRetryAfter, TryAgain
  <2>4. delay' \in [Requests -> Nat]
    BY <1>1, <2>3
  <2>5. \A q \in Requests : at'[q] = "spacing" => at[q] = "spacing" /\ q # r
    BY <2>1 DEF Release
  <2>6. \A q \in Requests : at'[q] = "spacing" => at[q] = "spacing" /\ delay'[q] = delay[q]
    BY <1>1, <2>3, <2>5
  <2> QED
    BY <2>2, <2>4, <2>6, QuietStepKeepsLoad
<1> QED
  BY <1>2, <1>3, <1>4, <1>5 DEF SendStep

(* What the limiter has noted of the last departures bounds them. *)
LEMMA LoadInvariantShares ==
  ASSUME LoadInvariant, SlotsInvariant
  PROVE  HostIsSpared
<1>1. /\ limit \in [Sources -> Nat] /\ Window \in Nat
      /\ LeastPoliteness \in Nat /\ LargestQuota \in Nat \ {0}
      /\ Len(stamps) \in Nat /\ stamps \in Seq(0 .. Window) /\ DOMAIN stamps = 1 .. Len(stamps)
  BY HostTypes
<1>2. \A i \in 1 .. Len(stamps) : stamps[i] \in 0 .. Window
  BY <1>1, ElementOfSeq
<1>3. ASSUME NEW first \in 1 .. Len(stamps) + 1, NEW period \in Nat,
             \A i \in 1 .. Len(stamps) : stamps[i] < period => first <= i
      PROVE  Departures(period) \in Nat /\ Departures(period) <= Len(stamps) - first + 1
  <2>1. {i \in DOMAIN stamps : stamps[i] < period} \subseteq first .. Len(stamps)
    BY <1>1, <1>3
  <2>2. /\ IsFiniteSet(first .. Len(stamps))
        /\ Cardinality(first .. Len(stamps)) = Len(stamps) - first + 1
    <3>1. first \in Int /\ Len(stamps) \in Int /\ first <= Len(stamps) + 1
      BY <1>1
    <3>2. /\ IsFiniteSet(first .. Len(stamps))
          /\ Cardinality(first .. Len(stamps)) =
               IF first > Len(stamps) THEN 0 ELSE Len(stamps) - first + 1
      BY <3>1, FS_Interval
    <3> QED
      BY <3>1, <3>2
  <2> QED
    BY <2>1, <2>2, FS_Subset, FS_CardinalityType DEF Departures
<1>4. Permitted(Departures(LeastPoliteness))
  <2> DEFINE T == {i \in 1 .. Len(stamps) : stamps[i] < LeastPoliteness}
  <2>1. CASE T = {}
    <3>1. {i \in DOMAIN stamps : stamps[i] < LeastPoliteness} = {}
      BY <1>1, <2>1
    <3>2. Departures(LeastPoliteness) = 0
      BY <3>1, FS_EmptySet DEF Departures
    <3> QED
      BY <1>1, <3>2, HttpAssumption DEF Permitted
  <2>2. CASE T # {}
    <3>1. PICK first \in T : \A i \in T : first <= i
      <4>1. T \subseteq Nat
        BY <1>1
      <4> HIDE DEF T
      <4> QED
        BY <2>2, <4>1, LeastOf
    <3>2. /\ Departures(LeastPoliteness) \in Nat
          /\ Departures(LeastPoliteness) <= Len(stamps) - first + 1
      <4>1. first \in 1 .. Len(stamps) + 1
        BY <1>1
      <4>2. \A i \in 1 .. Len(stamps) : stamps[i] < LeastPoliteness => first <= i
        BY <3>1
      <4> QED
        BY <1>1, <1>3, <4>1, <4>2
    <3>3. Permitted((Len(stamps) - first + 1) + Cardinality(Followers(first)))
      BY <3>1 DEF LoadInvariant, DeparturesAreSpaced
    <3>4. Cardinality(Followers(first)) \in Nat
      BY FewFollow DEF Followers, Spacing
    <3> QED
      BY <1>1, <3>1, <3>2, <3>3, <3>4, FewerArePermitted
  <2> QED
    BY <2>1, <2>2
<1>5. ASSUME OneSlotEach
      PROVE  Departures(Window) <= LargestQuota
  <2>1. CASE Len(stamps) <= LargestQuota
    <3>1. Departures(Window) \in Nat /\ Departures(Window) <= Len(stamps) - 1 + 1
      BY <1>1, <1>3
    <3> QED
      BY <1>1, <2>1, <3>1
  <2>2. CASE Len(stamps) > LargestQuota
    <3> DEFINE first == Len(stamps) - LargestQuota + 1
    <3>1. stamps[Len(stamps) - LargestQuota] >= Window
      BY <1>5, <2>2 DEF LoadInvariant, MinuteIsRationed
    <3>2. Len(stamps) - LargestQuota \in 1 .. Len(stamps) /\ first \in 1 .. Len(stamps) + 1
      BY <1>1, <2>2
    <3>3. ASSUME NEW i \in 1 .. Len(stamps), stamps[i] < Window
          PROVE  first <= i
      <4> SUFFICES ASSUME i <= Len(stamps) - LargestQuota
                   PROVE  FALSE
        BY <1>1
      <4>1. stamps[i] >= stamps[Len(stamps) - LargestQuota]
        BY <3>2 DEF LoadInvariant, AgesAreOrdered
      <4> QED
        BY <1>1, <1>2, <3>1, <3>2, <3>3, <4>1
    <3>4. Departures(Window) \in Nat /\ Departures(Window) <= Len(stamps) - first + 1
      BY <1>1, <1>3, <3>2, <3>3
    <3> QED
      BY <1>1, <3>4
  <2> QED
    BY <1>1, <2>1, <2>2
<1> QED
  BY <1>4, <1>5 DEF HostIsSpared

(* A request that departs has waited for the delay of its own source. *)
LEMMA DelayIsKeptByStep ==
  ASSUME LoadInvariant, SlotsInvariant, [HttpNext]_vars
  PROVE  DelayIsKept
<1> SUFFICES ASSUME OneSlotEach, NEW r \in Requests, at[r] # "sent", at'[r] = "sent"
             PROVE  idle = Never \/ idle >= Politeness[SourceOf[r]]
  BY DEF DelayIsKept
<1>1. at \in [Requests -> Points] /\ idle \in Nat \cup {Never}
  BY DEF SlotsInvariant, LoadInvariant
<1>2. SourceOf[r] \in Sources /\ Politeness[SourceOf[r]] \in Nat
  BY HttpAssumption, CapabilitiesAreBounded
<1>3. CASE EndSpacing(r)
  <2>1. at[r] = "spacing" /\ delay[r] = 0
    BY <1>3 DEF EndSpacing
  <2> QED
    BY <1>1, <1>2, <2>1 DEF LoadInvariant, DelayIsSlept
<1>4. CASE TakeSlot(r)
  <2>1. PICK slow \in Slowdowns :
          LET wait == Longest({0, PolitenessWait(SourceOf[r], slow),
                               QuotaWait(SourceOf[r], Recent)})
          IN  IF wait = 0 THEN TRUE ELSE at' = [at EXCEPT ![r] = "spacing"]
    BY <1>4 DEF TakeSlot
  <2> DEFINE wait == Longest({0, PolitenessWait(SourceOf[r], slow),
                              QuotaWait(SourceOf[r], Recent)})
  <2>2. wait = 0
    BY <1>1, <2>1
  <2>3. idle # Never => wait + idle >= Politeness[SourceOf[r]]
    BY <1>2, WaitIsLongEnough
  <2> QED
    BY <1>1, <1>2, <2>2, <2>3
<1>5. EndSpacing(r) \/ TakeSlot(r)
  <2>1. CASE Tick \/ UNCHANGED vars
    BY <2>1 DEF Tick, vars, requestVars
  <2>2. CASE \E q \in Requests : Begin(q) \/ SendStep(q)
    <3>1. PICK q \in Requests : Begin(q) \/ SendStep(q)
      BY <2>2
    <3>2. CASE Answer(q) \/ FailAttempt(q) \/ EndRetryAfter(q)
      <4>1. Release(q, "answered") \/ Release(q, "backoff") \/ Release(q, "failed")
        BY <3>2 DEF Answer, FailAttempt, EndRetryAfter, TryAgain
      <4> QED
        BY <1>1, <4>1 DEF Release
    <3>3. CASE Begin(q) \/ Refuse(q) \/ MeetOpenCircuit(q) \/ ExceedBudget(q) \/ ObeyRetryAfter(q)
      BY <1>1, <3>3 DEF Begin, Refuse, MeetOpenCircuit, ExceedBudget, ObeyRetryAfter, Fail
    <3>4. CASE Attempt(q) \/ WakeUp(q) \/ EndSpacing(q)
      <4>1. q = r
        BY <1>1, <3>4 DEF Attempt, WakeUp, EndSpacing, Acquire, TakeSlot, JoinQueue, Depart
      <4> QED
        BY <1>1, <3>4, <4>1 DEF Attempt, WakeUp, Acquire, JoinQueue
    <3> QED
      BY <3>1, <3>2, <3>3, <3>4 DEF SendStep
  <2> QED
    BY <2>1, <2>2 DEF HttpNext
<1> QED
  BY <1>3, <1>4, <1>5

(* Whatever delays, quotas and slots the sources bring, whoever sends and whatever
   happens between the slot and the departure, they ask no more of their host than
   the most permissive of them may ask alone, and with one slot each a request
   leaves after the delay of its own source.  The timestamps are kept a minute, so
   that one source at least must have a delay no longer than that. *)
THEOREM LoadAlwaysShared ==
  ASSUME LeastPoliteness <= Window
  PROVE  HttpSpec => LoadIsShared
<1>1. HttpInit => LoadInvariant
  <2> SUFFICES ASSUME HttpInit
               PROVE  LoadInvariant
    OBVIOUS
  <2>1. stamps \in Seq(0 .. Window) /\ Len(stamps) = 0
    BY EmptySeq DEF HttpInit
  <2>2. delay \in [Requests -> Nat] /\ idle \in Nat \cup {Never}
    BY DEF HttpInit
  <2>3. AgesAreOrdered /\ DeparturesAreSpaced
    BY <2>1 DEF AgesAreOrdered, DeparturesAreSpaced
  <2>4. MinuteIsRationed
    <3>1. \A r \in Requests : at[r] # "spacing"
      BY DEF HttpInit
    <3> QED
      BY <2>1, <3>1, CapabilitiesAreBounded DEF MinuteIsRationed
  <2>5. DelayIsSlept
    BY DEF HttpInit, DelayIsSlept
  <2> QED
    BY <2>1, <2>2, <2>3, <2>4, <2>5 DEF LoadInvariant
<1>2. LoadInvariant /\ SlotsInvariant /\ [HttpNext]_vars => LoadInvariant'
  <2> SUFFICES ASSUME LoadInvariant, SlotsInvariant, [HttpNext]_vars
               PROVE  LoadInvariant'
    OBVIOUS
  <2>1. CASE \E r \in Requests : Begin(r) \/ SendStep(r)
    BY <2>1, SendStepKeepsLoad
  <2>2. CASE Tick
    BY <2>2, TickKeepsLoad
  <2>3. CASE UNCHANGED vars
    <3>1. UNCHANGED <<limit, idle, stamps>> /\ at' = at /\ delay' = delay
      BY <2>3 DEF vars, hostVars, requestVars
    <3> QED
      BY <3>1, QuietStepKeepsLoad DEF LoadInvariant
  <2> QED
    BY <2>1, <2>2, <2>3 DEF HttpNext
<1>3. LoadInvariant /\ SlotsInvariant => HostIsSpared
  BY LoadInvariantShares
<1>4. LoadInvariant /\ SlotsInvariant /\ [HttpNext]_vars => [DelayIsKept]_vars
  BY DelayIsKeptByStep
<1>5. HostIsSpared' /\ [DelayIsKept]_vars => [HostIsSpared' /\ DelayIsKept]_vars
  OBVIOUS
<1> QED
  BY SlotsAreInvariant, <1>1, <1>2, <1>3, <1>4, <1>5, PTL DEF HttpSpec, LoadIsShared
=============================================================================
