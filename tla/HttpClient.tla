----------------------------- MODULE HttpClient -----------------------------
(***************************************************************************)
(* The requests that the sources send to one host: ScopedHttpClient.send() *)
(* of packages/kernel/src/net/scoped-http-client.ts with the limiter, the  *)
(* circuit breaker, the budget and the retry policy of net/policy.ts.      *)
(*                                                                         *)
(* The limiter keeps its state by host and all sources share it; a breaker *)
(* and a budget belong to one source, and so do the delay, the quota and   *)
(* the slots that a request asks the limiter for: each source brings its   *)
(* own capability.  Requests interleave at their awaits.  Time is kept as  *)
(* ages and remaining delays, each capped where no comparison of the code  *)
(* sees a difference any more, so that it may pass without end.            *)
(***************************************************************************)
EXTENDS Integers, Sequences, FiniteSets

CONSTANTS
  Sources,       \* sources that collect from the host
  Requests,      \* bound: the calls of send() in a behaviour
  SourceOf,      \* SourceOf[r]: the source whose client sends r
  Concurrencies, \* values that maxConcurrentPerHost may have
  Politeness,    \* Politeness[s]: the politenessDelayMs of s
  Slowdowns,     \* values of slowdownFactor(), from 1 to ADAPTIVE.maxMultiplier
  Window,        \* the minute of the quota
  Quota,         \* Quota[s]: the maxRequestsPerMinute of s
  Threshold,     \* failureThreshold of the breaker
  Cooldown,      \* cooldownMs of the breaker
  MaxAttempts,   \* attempts of one request
  Backoffs,      \* delays before a new attempt, the jitter included
  RetryAfters,   \* delays that a Retry-After header may ask for
  MaxRequests,   \* maxRequests of the budget
  Never          \* the age of a request that was not sent

ASSUME HttpAssumption ==
  /\ IsFiniteSet(Requests)
  /\ SourceOf \in [Requests -> Sources]
  /\ Concurrencies \subseteq Nat \ {0}
  /\ Slowdowns \subseteq Nat \ {0}
  /\ \E most \in Slowdowns : \A slow \in Slowdowns : slow <= most
  /\ Backoffs \subseteq Nat /\ Backoffs # {}
  /\ RetryAfters \subseteq Nat
  /\ {Politeness, Quota} \subseteq [Sources -> Nat \ {0}]
  /\ \A f \in {Politeness, Quota} : \E s \in Sources : \A t \in Sources : f[t] <= f[s]
  /\ {Window, Threshold, Cooldown, MaxAttempts} \subseteq Nat \ {0}
  /\ MaxRequests \in Nat
  /\ Never \notin Nat

VARIABLES
  limit,      \* limit[s]: the maxConcurrentPerHost of s, fixed from the start
  inFlight,   \* the slots of the host that are taken
  queue,      \* the requests that wait for a slot
  idle,       \* the time since lastRequestAt
  stamps,     \* the ages of the timestamps, oldest first
  circuit,    \* circuit[s]: the state of the breaker of s
  failures,   \* failures[s]: the failures it has counted, up to Threshold
  rest,       \* rest[s]: the time since openedAt
  charged,    \* charged[s]: the requests that the budget of s has counted
  at,         \* at[r]: the await that r stands at
  attempt,    \* attempt[r]: the attempt of r under way
  delay,      \* delay[r]: what remains of the sleep of r
  hammered    \* history: hammered[s], the requests sent since its circuit opened

hostVars == <<limit, inFlight, queue, idle, stamps>>
breakerVars == <<circuit, failures, rest, hammered>>
requestVars == <<at, attempt, delay>>
vars == <<hostVars, breakerVars, charged, requestVars>>

Longest(S) == CHOOSE n \in S : \A m \in S : m <= n

(* What the most polite source asks for, and the least polite one, and the source
   with the largest quota. *)
LongestPoliteness == Longest({Politeness[s] : s \in Sources})
LeastPoliteness == CHOOSE n \in {Politeness[s] : s \in Sources} :
                     \A s \in Sources : n <= Politeness[s]
LargestQuota == Longest({Quota[s] : s \in Sources})

\* No delay of the code is longer.
MaxIdle == LongestPoliteness * Longest(Slowdowns)
MaxDelay == Longest({MaxIdle, Window} \cup Backoffs \cup RetryAfters)

(* From the moment a request has a slot to the finally clause of its attempt. *)
HoldingPoints == {"spacing", "sent", "obeying"}

Points == HoldingPoints \cup
  {"unused", "robots", "backoff", "queued", "woken", "answered", "failed"}

HttpTypeOK ==
  /\ limit \in [Sources -> Concurrencies]
  /\ inFlight \in 0 .. Cardinality(Requests)
  /\ queue \in Seq(Requests)
  /\ idle \in 0 .. MaxIdle \cup {Never}
  /\ stamps \in Seq(0 .. Window)
  /\ circuit \in [Sources -> {"closed", "open", "half-open"}]
  /\ failures \in [Sources -> 0 .. Threshold]
  /\ rest \in [Sources -> 0 .. Cooldown]
  /\ charged \in [Sources -> 0 .. MaxRequests + 1]
  /\ at \in [Requests -> Points]
  /\ attempt \in [Requests -> 1 .. MaxAttempts]
  /\ delay \in [Requests -> 0 .. MaxDelay]
  /\ hammered \in [Sources -> 0 .. Cardinality(Requests)]

HttpInit ==
  /\ limit \in [Sources -> Concurrencies]
  /\ inFlight = 0
  /\ queue = <<>>
  /\ idle = Never
  /\ stamps = <<>>
  /\ circuit = [s \in Sources |-> "closed"]
  /\ failures = [s \in Sources |-> 0]
  /\ rest = [s \in Sources |-> 0]
  /\ charged = [s \in Sources |-> 0]
  /\ at = [r \in Requests |-> "unused"]
  /\ attempt = [r \in Requests |-> 1]
  /\ delay = [r \in Requests |-> 0]
  /\ hammered = [s \in Sources |-> 0]

-----------------------------------------------------------------------------
(* The circuit breaker of a source. *)

(* The getter turns an open circuit into a half-open one after the cooldown. *)
State(s) == IF circuit[s] = "open" /\ rest[s] = Cooldown THEN "half-open" ELSE circuit[s]

RecordSuccess(s) ==
  /\ failures' = [failures EXCEPT ![s] = 0]
  /\ circuit' = [circuit EXCEPT ![s] = "closed"]
  /\ hammered' = [hammered EXCEPT ![s] = 0]
  /\ UNCHANGED rest

(* A failure opens the circuit when it reaches the threshold, and opens it again
   when it was half-open or open: nothing but a success resets the count. *)
RecordFailure(s) ==
  LET counted == IF failures[s] < Threshold THEN failures[s] + 1 ELSE Threshold
  IN  /\ failures' = [failures EXCEPT ![s] = counted]
      /\ IF counted = Threshold
         THEN /\ circuit' = [circuit EXCEPT ![s] = "open"]
              /\ rest' = [rest EXCEPT ![s] = 0]
              /\ hammered' = [hammered EXCEPT ![s] = IF circuit[s] = "open" THEN @ ELSE 0]
         ELSE UNCHANGED <<circuit, rest, hammered>>

(* Mutation of Charge: the circuit is looked at before the first attempt only. *)
ChargeLookingOnce(r) ==
  LET s == SourceOf[r]
  IN  /\ attempt[r] > 1 \/ State(s) # "open"
      /\ charged[s] < MaxRequests
      /\ circuit' = [circuit EXCEPT ![s] = State(s)]
      /\ charged' = [charged EXCEPT ![s] = @ + 1]
      /\ UNCHANGED <<failures, rest>>

(* isOpen, then the charge of the budget: the attempt goes on when neither
   stops it. *)
Charge(r) ==
  LET s == SourceOf[r]
  IN  /\ State(s) # "open"
      /\ charged[s] < MaxRequests
      /\ circuit' = [circuit EXCEPT ![s] = State(s)]
      /\ charged' = [charged EXCEPT ![s] = @ + 1]
      /\ UNCHANGED <<failures, rest>>

-----------------------------------------------------------------------------
(* The limiter of the host. *)

(* The request leaves for the host. *)
Depart(r, recent) ==
  /\ idle' = 0
  /\ stamps' = Append(recent, 0)
  /\ at' = [at EXCEPT ![r] = "sent"]
  /\ LET s == SourceOf[r]
     IN  hammered' = [hammered EXCEPT ![s] = IF circuit'[s] = "open" THEN @ + 1 ELSE 0]

PolitenessWait(s, slow) == IF idle = Never THEN 0 ELSE Politeness[s] * slow - idle

(* Mutation of QuotaWait: the quota may be exceeded by one. *)
QuotaWaitOffByOne(s, recent) == IF Len(recent) > Quota[s] THEN Window - recent[1] ELSE 0

(* The quota of s over the departures of all sources: s waits for the oldest. *)
QuotaWait(s, recent) == IF Len(recent) >= Quota[s] THEN Window - recent[1] ELSE 0

(* The filter by age keeps the end of the list: timestamps are pushed in the order
   of time. *)
Recent ==
  LET past == {i \in DOMAIN stamps : stamps[i] >= Window}
  IN  SubSeq(stamps, Cardinality(past) + 1, Len(stamps))

(* acquire() with a free slot: the politeness and the quota say how long the
   request waits in its slot, and only what departed before is counted. *)
TakeSlot(r) ==
  LET s == SourceOf[r]
      recent == Recent
  IN  /\ inFlight' = inFlight + 1
      /\ UNCHANGED <<limit, queue>>
      /\ \E slow \in Slowdowns :
           LET wait == Longest({0, PolitenessWait(s, slow), QuotaWait(s, recent)})
           IN  /\ delay' = [delay EXCEPT ![r] = wait]
               /\ IF wait = 0
                  THEN Depart(r, recent)
                  ELSE /\ at' = [at EXCEPT ![r] = "spacing"]
                       /\ stamps' = recent
                       /\ UNCHANGED <<idle, hammered>>

(* acquire() with none: the request goes to the tail of the queue. *)
JoinQueue(r) ==
  /\ queue' = Append(queue, r)
  /\ at' = [at EXCEPT ![r] = "queued"]
  /\ UNCHANGED <<limit, inFlight, idle, stamps, delay, hammered>>

Acquire(r) ==
  \/ inFlight < limit[SourceOf[r]] /\ TakeSlot(r)
  \/ inFlight >= limit[SourceOf[r]] /\ JoinQueue(r)

(* Mutation of Release: the slot comes back and nobody is told. *)
ReleaseSilently(r, next) ==
  /\ inFlight' = Longest({0, inFlight - 1})
  /\ at' = [at EXCEPT ![r] = next]
  /\ UNCHANGED <<limit, queue, idle, stamps>>

(* release(): the head of the queue is woken, and has no slot yet. *)
Release(r, next) ==
  /\ inFlight' = Longest({0, inFlight - 1})
  /\ queue' = IF queue = <<>> THEN <<>> ELSE Tail(queue)
  /\ at' = [q \in Requests |->
              IF q = r THEN next
              ELSE IF queue # <<>> /\ q = Head(queue) THEN "woken" ELSE at[q]]
  /\ UNCHANGED <<limit, idle, stamps>>

(* The attempt gives its slot back and another one follows a backoff, unless it
   was the last. *)
TryAgain(r) ==
  IF attempt[r] < MaxAttempts
  THEN /\ Release(r, "backoff")
       /\ attempt' = [attempt EXCEPT ![r] = @ + 1]
       /\ \E d \in Backoffs : delay' = [delay EXCEPT ![r] = d]
  ELSE Release(r, "failed") /\ UNCHANGED <<attempt, delay>>

-----------------------------------------------------------------------------
(* The steps of send(). *)

Fail(r) ==
  /\ at' = [at EXCEPT ![r] = "failed"]
  /\ UNCHANGED <<hostVars, attempt, delay>>

Begin(r) ==
  /\ at[r] = "unused"
  /\ at' = [at EXCEPT ![r] = "robots"]
  /\ UNCHANGED <<hostVars, breakerVars, charged, attempt, delay>>

(* The host is not allowed, or robots.txt excludes the page. *)
Refuse(r) ==
  /\ at[r] \in {"unused", "robots"}
  /\ Fail(r)
  /\ UNCHANGED <<breakerVars, charged>>

(* robots.txt has allowed the request, or its backoff has ended. *)
Ready(r) == at[r] = "robots" \/ (at[r] = "backoff" /\ delay[r] = 0)

MeetOpenCircuit(r) ==
  /\ Ready(r)
  /\ State(SourceOf[r]) = "open"
  /\ Fail(r)
  /\ UNCHANGED <<breakerVars, charged>>

(* maxRequests is exceeded, or maxDurationMs: then every later charge throws as
   well, as if the requests were used up.  No slot is held yet. *)
ExceedBudget(r) ==
  LET s == SourceOf[r]
  IN  /\ Ready(r)
      /\ State(s) # "open"
      /\ circuit' = [circuit EXCEPT ![s] = State(s)]
      /\ charged' = [charged EXCEPT ![s] = MaxRequests + 1]
      /\ Fail(r)
      /\ UNCHANGED <<failures, rest, hammered>>

Attempt(r) ==
  /\ Ready(r)
  /\ Charge(r)
  /\ Acquire(r)
  /\ UNCHANGED attempt

(* Mutation of WakeUp: "if" in the place of "while". *)
WakeUpWithoutLooking(r) ==
  /\ at[r] = "woken"
  /\ UNCHANGED circuit
  /\ TakeSlot(r)
  /\ UNCHANGED <<failures, rest, charged, attempt>>

(* The woken request looks at the slots again: another one may have come first. *)
WakeUp(r) ==
  /\ at[r] = "woken"
  /\ UNCHANGED circuit
  /\ Acquire(r)
  /\ UNCHANGED <<failures, rest, charged, attempt>>

EndSpacing(r) ==
  /\ at[r] = "spacing"
  /\ delay[r] = 0
  /\ UNCHANGED circuit
  /\ Depart(r, stamps)
  /\ UNCHANGED <<limit, inFlight, queue, failures, rest, charged, attempt, delay>>

(* A status that is not worth another attempt, good or bad. *)
Answer(r) ==
  /\ at[r] = "sent"
  /\ RecordSuccess(SourceOf[r])
  /\ Release(r, "answered")
  /\ UNCHANGED <<charged, attempt, delay>>

(* The transport fails, or a retryable status comes without Retry-After, or with
   one on the last attempt. *)
FailAttempt(r) ==
  /\ at[r] = "sent"
  /\ RecordFailure(SourceOf[r])
  /\ TryAgain(r)
  /\ UNCHANGED charged

(* A retryable status with Retry-After: the sleep keeps the slot. *)
ObeyRetryAfter(r) ==
  /\ at[r] = "sent"
  /\ attempt[r] < MaxAttempts
  /\ RecordFailure(SourceOf[r])
  /\ \E d \in RetryAfters : delay' = [delay EXCEPT ![r] = d]
  /\ at' = [at EXCEPT ![r] = "obeying"]
  /\ UNCHANGED <<hostVars, charged, attempt>>

EndRetryAfter(r) ==
  /\ at[r] = "obeying"
  /\ delay[r] = 0
  /\ TryAgain(r)
  /\ UNCHANGED <<breakerVars, charged>>

Older(age, cap) == IF age < cap THEN age + 1 ELSE cap

(* Time passes.  A sleep may last longer than asked, never less. *)
Tick ==
  /\ idle' = IF idle = Never THEN Never ELSE Older(idle, MaxIdle)
  /\ stamps' = [i \in DOMAIN stamps |-> Older(stamps[i], Window)]
  /\ rest' = [s \in Sources |-> IF circuit[s] = "open" THEN Older(rest[s], Cooldown) ELSE 0]
  /\ delay' = [r \in Requests |-> IF delay[r] > 0 THEN delay[r] - 1 ELSE 0]
  /\ UNCHANGED <<limit, inFlight, queue, circuit, failures, hammered, charged, at, attempt>>

SendStep(r) ==
  \/ Refuse(r)
  \/ MeetOpenCircuit(r)
  \/ ExceedBudget(r)
  \/ Attempt(r)
  \/ WakeUp(r)
  \/ EndSpacing(r)
  \/ Answer(r)
  \/ FailAttempt(r)
  \/ ObeyRetryAfter(r)
  \/ EndRetryAfter(r)

HttpNext == Tick \/ \E r \in Requests : Begin(r) \/ SendStep(r)

HttpSpec == HttpInit /\ [][HttpNext]_vars

(* Time passes, every timer fires, and the transport answers or times out. *)
HttpFairSpec ==
  HttpSpec /\ WF_vars(Tick) /\ \A r \in Requests : WF_vars(SendStep(r))

-----------------------------------------------------------------------------
(* Properties *)

(* What the most permissive source allows the host to be asked at once. *)
Permitted(n) == \E s \in Sources : n <= limit[s]

HeldBy(s) == {r \in Requests : SourceOf[r] = s /\ at[r] \in HoldingPoints}

(* No slot is lost and none is taken twice, whichever way an attempt ends: the
   count of the limiter is the number of requests that hold one, and a request
   that release() has woken never passes the limit of its source together with a
   newcomer.  A source never holds more slots than its own capability gives it. *)
SlotsAreBalanced ==
  /\ inFlight = Cardinality({r \in Requests : at[r] \in HoldingPoints})
  /\ \A s \in Sources : Cardinality(HeldBy(s)) <= limit[s]
  /\ Permitted(inFlight)

Departures(period) == Cardinality({i \in DOMAIN stamps : stamps[i] < period})

OneSlotEach == \A s \in Sources : limit[s] = 1

(* Sources that visit one host together ask no more of it than the most permissive
   of them may ask alone: of its slots within the shortest delay and, with one
   slot each, of its requests within a minute. *)
HostIsSpared ==
  /\ Permitted(Departures(LeastPoliteness))
  /\ OneSlotEach => Departures(Window) <= LargestQuota

(* With one slot each, a request leaves after the delay of its own source at least,
   counted from the latest departure of any source. *)
DelayIsKept ==
  OneSlotEach =>
    \A r \in Requests :
      at[r] # "sent" /\ at'[r] = "sent" =>
        idle = Never \/ idle >= Politeness[SourceOf[r]]

(* "deux sources visant le meme hote doivent se partager la charge qu'elles lui
   imposent": every step leaves the host spared, and none departs too early. *)
LoadIsShared == [][HostIsSpared' /\ DelayIsKept]_vars

(* "marteler un serveur deja en difficulte transforme une panne passagere en
   incident": once its circuit is open, a source sends at most what its other
   requests had pending at that moment, each of them once. *)
FailingSourceRests ==
  \A s \in Sources : hammered[s] < Cardinality({r \in Requests : SourceOf[r] = s})
                       \/ hammered[s] = 0

(* Every request ends: no waiting request is forgotten by release(), and no slot
   is kept for good. *)
EveryRequestEnds ==
  \A r \in Requests : at[r] # "unused" ~> at[r] \in {"answered", "failed"}

-----------------------------------------------------------------------------
(* Statements that the code does not keep (README, section 3). *)

(* "le delai de politesse separe deux requetes vers le meme hote", when a source has
   more than one slot, be it another one. *)
PolitenessIsKept == Departures(LeastPoliteness) <= 1

(* "Quota glissant sur une minute", with more than one slot. *)
QuotaIsKept == Departures(Window) <= LargestQuota

(* A source keeps to its own quota: its request leaves a host that has seen fewer
   requests in the last minute than that. *)
OwnQuotaIsKept ==
  [][\A r \in Requests :
       at[r] # "sent" /\ at'[r] = "sent" =>
         Len(SelectSeq(stamps', LAMBDA age : age < Window)) <= Quota[SourceOf[r]]]_vars

(* "aucune requete tant que le circuit est ouvert". *)
NoSendWhileOpen == \A s \in Sources : hammered[s] = 0

(* "repos": an open circuit stays open for the whole cooldown. *)
CooldownIsKept ==
  [][\A s \in Sources :
       circuit[s] = "open" /\ rest[s] < Cooldown => circuit'[s] = "open"]_vars

(* "Retry-After est toujours respecte": nothing is sent to the host before. *)
RetryAfterIsRespected ==
  [][(\E r \in Requests : at[r] = "obeying" /\ delay[r] > 0) =>
       Len(SelectSeq(stamps', LAMBDA age : age = 0))
         <= Len(SelectSeq(stamps, LAMBDA age : age = 0))]_vars

-----------------------------------------------------------------------------
(* Why no slot is lost: the part of the state that slots depend on. *)

(* Each waiting request is in the queue once, and has no slot. *)
QueueIsSound ==
  /\ queue \in Seq(Requests)
  /\ \A i \in 1 .. Len(queue) : at[queue[i]] = "queued"
  /\ \A i, j \in 1 .. Len(queue) : queue[i] = queue[j] => i = j

SlotsInvariant ==
  /\ limit \in [Sources -> Concurrencies]
  /\ inFlight \in Nat
  /\ at \in [Requests -> Points]
  /\ QueueIsSound
  /\ SlotsAreBalanced
-----------------------------------------------------------------------------
(* Why a failing source rests. *)

RequestsOf(s) == {r \in Requests : SourceOf[r] = s}

(* The requests that may still depart without looking at the circuit. *)
Pending(s) == {r \in RequestsOf(s) : at[r] \in {"queued", "woken", "spacing"}}

(* While a circuit is open, what departed since it opened and what may still do
   so are other requests than the one whose failure opened it. *)
FailuresInvariant ==
  /\ circuit \in [Sources -> {"closed", "open", "half-open"}]
  /\ hammered \in [Sources -> Nat]
  /\ FailingSourceRests
  /\ \A s \in Sources : circuit[s] = "open" =>
       hammered[s] + Cardinality(Pending(s)) < Cardinality(RequestsOf(s))

-----------------------------------------------------------------------------
(* Why the load is shared. *)

(* The timestamps are in the order of time, and lastRequestAt is the latest of
   them; older than the least politeness, it does not matter any more. *)
AgesAreOrdered ==
  /\ \A i, j \in 1 .. Len(stamps) : i <= j => stamps[i] >= stamps[j]
  /\ \A i \in 1 .. Len(stamps) : stamps[i] < LeastPoliteness => idle # Never /\ idle <= stamps[i]

(* The requests that will depart within the least politeness of the i-th departure. *)
Followers(i) == {r \in Requests : at[r] = "spacing" /\ delay[r] + stamps[i] < LeastPoliteness}

(* They had their slot when it departed, and so had those that departed since. *)
DeparturesAreSpaced ==
  \A i \in 1 .. Len(stamps) : stamps[i] < LeastPoliteness =>
    Permitted((Len(stamps) - i + 1) + Cardinality(Followers(i)))

(* With one slot each, the departure that a largest quota ago makes room for the
   next one has left the minute, or will have when the sleep of the next one ends. *)
MinuteIsRationed ==
  OneSlotEach =>
    /\ Len(stamps) > LargestQuota => stamps[Len(stamps) - LargestQuota] >= Window
    /\ \A r \in Requests :
         at[r] = "spacing" /\ Len(stamps) >= LargestQuota =>
           delay[r] + stamps[Len(stamps) - LargestQuota + 1] >= Window

(* With one slot each, the sleep of a request lasts until its delay is over. *)
DelayIsSlept ==
  OneSlotEach =>
    \A r \in Requests :
      at[r] = "spacing" => idle = Never \/ delay[r] + idle >= Politeness[SourceOf[r]]

LoadInvariant ==
  /\ idle \in Nat \cup {Never}
  /\ stamps \in Seq(0 .. Window)
  /\ delay \in [Requests -> Nat]
  /\ AgesAreOrdered
  /\ DeparturesAreSpaced
  /\ MinuteIsRationed
  /\ DelayIsSlept
=============================================================================
