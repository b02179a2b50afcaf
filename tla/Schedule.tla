------------------------------ MODULE Schedule ------------------------------
(***************************************************************************)
(* When a source is collected: cron expressions (scheduling/cron.ts),      *)
(* exclusion windows (scheduling/blackout.ts), the check that lcf daemon   *)
(* makes of them before it starts (preflight() of packages/cli/src/        *)
(* daemon.ts) and what the ticks of the scheduler then do.                 *)
(*                                                                         *)
(* The calendar is a parameter.  Time is counted in minutes and comes round *)
(* again after the last day of the calendar, a whole number of weeks.      *)
(* Texts are cut where the code cuts them: what stands between two marks is *)
(* a word.  The process, its failures and its other sources are in Daemon. *)
(***************************************************************************)
EXTENDS Integers, Sequences, FiniteSetsExt

CONSTANTS
  HourLength, DayLength,  \* in minutes
  WeekLength,             \* in days
  Calendar,               \* Calendar[d]: date and month of each day
  Offset,                 \* minutes by which the local time is ahead of UTC
  Horizon,                \* minutes that nextRunAfter() looks at: four years
  Occurrences,            \* occurrences that preflight() looks at: five
  LongestTick,            \* minutes that a tick may last
  Crons,                  \* the cron expressions that may be configured
  WindowLists             \* the lists of exclusion windows

Cycle == Len(Calendar) * DayLength
Instants == 0 .. Cycle - 1
Never == -1

ASSUME CalendarAssumption ==
  /\ {HourLength, DayLength, WeekLength, Horizon, Occurrences, LongestTick} \subseteq Nat \ {0}
  /\ Calendar \in Seq([date : Nat \ {0}, month : Nat \ {0}])
  /\ DayLength % HourLength = 0 /\ Len(Calendar) % WeekLength = 0
  /\ Offset \in Nat

(* Words: a number, or one of these. *)
Star == -1
Nothing == -2
Junk == -3

(* parseMinutes() returns minutes of a day, or null. *)
ASSUME WindowsAssumption ==
  \A list \in WindowLists : \A i \in DOMAIN list :
    {list[i].from, list[i].to} \subseteq (0 .. DayLength - 1) \cup {Junk}

VARIABLES
  cron,       \* the expression: five fields
  configured, \* it is in the configuration, not in the manifest of the plugin
  windows,    \* blackoutWindows
  now,        \* the clock
  at,         \* "down", "refused", "failed", "waiting" or "ticked" in this minute
  last,       \* lastTriggeredMinute
  collected   \* a collection was triggered

scheduleVars == <<cron, configured, windows, now, at, last, collected>>

-----------------------------------------------------------------------------
(* The clock *)

DayOf(t) == (t % Cycle) \div DayLength

(* Date: the fields of an instant, given in the time zone of the fields. *)
Date(t) ==
  [minute  |-> t % HourLength,
   hour    |-> (t % DayLength) \div HourLength,
   date    |-> Calendar[DayOf(t) + 1].date,
   month   |-> Calendar[DayOf(t) + 1].month,
   weekday |-> DayOf(t) % WeekLength]

Local(t) == t + Offset

-----------------------------------------------------------------------------
(* cron.ts *)

(* FIELDS: the values of each field, in the order of the expression. *)
Fields ==
  << 0 .. HourLength - 1,
     0 .. (DayLength \div HourLength) - 1,
     1 .. Max({Calendar[d].date : d \in DOMAIN Calendar}),
     1 .. Max({Calendar[d].month : d \in DOMAIN Calendar}),
     0 .. WeekLength - 1 >>

(* Number(): an empty text is 0, and what is no number is refused everywhere. *)
Number(word) == IF word = Nothing THEN 0 ELSE word

(* One part of a field: what precedes "/", cut at "-", and what follows, cut at
   "/".  Whatever comes after the second word is not looked at. *)
Step(part) == IF part.steps = <<>> THEN 1 ELSE Number(part.steps[1])

Bounds(part, values) ==
  CASE part.range = <<Star>> -> <<Min(values), Max(values)>>
    [] Len(part.range) > 1   -> <<Number(part.range[1]), Number(part.range[2])>>
    [] OTHER ->
         <<Number(part.range[1]),
           IF part.steps = <<>> THEN Number(part.range[1]) ELSE Max(values)>>

PartIsRead(part, values) ==
  LET bounds == Bounds(part, values)
  IN  /\ Step(part) >= 1
      /\ bounds[1] >= Min(values) /\ bounds[2] <= Max(values) /\ bounds[1] <= bounds[2]

FieldIsRead(field, values) == \A i \in DOMAIN field : PartIsRead(field[i], values)

(* parseField() of a field that it does not refuse. *)
ParseField(field, values) ==
  UNION {{v \in Bounds(field[i], values)[1] .. Bounds(field[i], values)[2] :
            (v - Bounds(field[i], values)[1]) % Step(field[i]) = 0} : i \in DOMAIN field}

(* parseCron() accepts the expression, and what it makes of it. *)
IsRead(expression) == \A i \in 1 .. 5 : FieldIsRead(expression[i], Fields[i])

ParseCron(expression) == [i \in 1 .. 5 |-> ParseField(expression[i], Fields[i])]

(* matchesCron(): two restricted day fields are alternatives. *)
Matches(expression, t) ==
  LET read == ParseCron(expression)
      date == Date(Local(t))
      onDate == date.date \in read[3]
      onWeekday == date.weekday \in read[5]
  IN  /\ date.minute \in read[1]
      /\ date.hour \in read[2]
      /\ date.month \in read[4]
      /\ IF read[3] # Fields[3] /\ read[5] # Fields[5]
         THEN onDate \/ onWeekday
         ELSE onDate /\ onWeekday

(* The instants of the calendar that an expression matches. *)
Due == [expression \in {e \in Crons : IsRead(e)} |-> {t \in Instants : Matches(expression, t)}]

(* nextRunAfter(): the first match strictly after t, up to the horizon. *)
NextRunAfter ==
  [expression \in DOMAIN Due |->
     [t \in Instants |->
        LET due == {k \in 1 .. Horizon : (t + k) % Cycle \in Due[expression]}
        IN  IF due = {} THEN Never ELSE (t + Min(due)) % Cycle]]

-----------------------------------------------------------------------------
(* blackout.ts *)

(* parseDays(): a part that names no day is skipped, a range may go over the end
   of the week, and only its first two words count. *)
ParseDays(days) ==
  IF days = <<<<Star>>>>
  THEN 0 .. WeekLength - 1
  ELSE UNION {LET from == days[i][1]
                  to == days[i][Min({2, Len(days[i])})]
              IN  IF {from, to} \subseteq 0 .. WeekLength - 1
                  THEN {(from + k) % WeekLength : k \in 0 .. (to + WeekLength - from) % WeekLength}
                  ELSE {}
              : i \in DOMAIN days}

Before(day) == (day + WeekLength - 1) % WeekLength

(* Mutation of Covers: the part after midnight is looked for on its own day. *)
CoversSameDay(window, t) ==
  LET clock == IF window.utc THEN t ELSE Local(t)
      minutes == clock % DayLength
      day == Date(clock).weekday
      days == ParseDays(window.days)
  IN  /\ Junk \notin {window.from, window.to}
      /\ IF window.from <= window.to
         THEN day \in days /\ minutes >= window.from /\ minutes < window.to
         ELSE day \in days /\ (minutes >= window.from \/ minutes < window.to)

(* matchingWindow(), for one window: one that cannot be read excludes nothing. *)
Covers(window, t) ==
  LET clock == IF window.utc THEN t ELSE Local(t)
      minutes == clock % DayLength
      day == Date(clock).weekday
      days == ParseDays(window.days)
  IN  /\ Junk \notin {window.from, window.to}
      /\ IF window.from <= window.to
         THEN day \in days /\ minutes >= window.from /\ minutes < window.to
         ELSE \/ day \in days /\ minutes >= window.from
              \/ Before(day) \in days /\ minutes < window.to

IsInBlackout(list, t) == \E i \in DOMAIN list : Covers(list[i], t)

(* validateWindows() has nothing to report. *)
WindowsAreValid(list) ==
  \A i \in DOMAIN list :
    Junk \notin {list[i].from, list[i].to} /\ ParseDays(list[i].days) # {}

-----------------------------------------------------------------------------
(* preflight() *)

(* The occurrences that follow t, as long as there is one. *)
NextRuns(expression, t) ==
  LET run[k \in 0 .. Occurrences] ==
        LET before == IF k = 0 THEN t ELSE run[k - 1]
        IN  IF k = 0 \/ before = Never THEN before ELSE NextRunAfter[expression][before]
  IN  [k \in 1 .. Occurrences |-> run[k]]

(* Mutation of AlwaysExcluded: it takes one occurrence more. *)
AlwaysExcludedOneMore(expression, list, t) ==
  LET run == NextRuns(expression, t)
  IN  Cardinality({k \in 1 .. Occurrences :
                     run[k] # Never /\ IsInBlackout(list, run[k])}) > Occurrences

(* bloquees === 5 *)
AlwaysExcluded(expression, list, t) ==
  LET run == NextRuns(expression, t)
  IN  Cardinality({k \in 1 .. Occurrences :
                     run[k] # Never /\ IsInBlackout(list, run[k])}) = Occurrences

(* The expression of the manifest is not looked at. *)
PreflightPasses ==
  /\ WindowsAreValid(windows)
  /\ configured => IsRead(cron) /\ (windows = <<>> \/ ~ AlwaysExcluded(cron, windows, now))

-----------------------------------------------------------------------------
ScheduleTypeOK ==
  /\ now \in Instants
  /\ at \in {"down", "refused", "failed", "waiting", "ticked"}
  /\ last \in Instants \cup {Never}
  /\ {configured, collected} \subseteq BOOLEAN

ScheduleInit ==
  /\ cron \in Crons
  /\ configured \in BOOLEAN
  /\ windows \in WindowLists
  /\ now \in Instants
  /\ at = "down"
  /\ last = Never
  /\ collected = FALSE

(* "Un demon qui demarre mal doit refuser de demarrer". *)
Refuse ==
  /\ at = "down"
  /\ ~ PreflightPasses
  /\ at' = "refused"
  /\ UNCHANGED <<cron, configured, windows, now, last, collected>>

(* register() throws, and runDaemon() with it. *)
FailToRegister ==
  /\ at = "down"
  /\ PreflightPasses
  /\ ~ IsRead(cron)
  /\ at' = "failed"
  /\ UNCHANGED <<cron, configured, windows, now, last, collected>>

StartUp ==
  /\ at = "down"
  /\ PreflightPasses
  /\ IsRead(cron)
  /\ at' = "waiting"
  /\ UNCHANGED <<cron, configured, windows, now, last, collected>>

(* tick() triggers the source, once in a minute whenever the timer fires. *)
Trigger ==
  /\ at \in {"waiting", "ticked"}
  /\ ~ IsInBlackout(windows, now)
  /\ last # now
  /\ Matches(cron, now)
  /\ last' = now
  /\ collected' = TRUE
  /\ at' = "ticked"
  /\ UNCHANGED <<cron, configured, windows, now>>

TickInVain ==
  /\ at = "waiting"
  /\ IsInBlackout(windows, now) \/ last = now \/ ~ Matches(cron, now)
  /\ at' = "ticked"
  /\ UNCHANGED <<cron, configured, windows, now, last, collected>>

MinuteAt(k) == (now + k) % Cycle

(* The tick awaits the collections of all the sources that are due in its minute,
   one after the other, and the verification of the store: the next one comes k
   minutes later, and those between them have none.  A minute that comes round
   again is another one. *)
Lasts(k) ==
  /\ at = "ticked"
  /\ now' = MinuteAt(k)
  /\ last' = IF \E j \in 1 .. k : last = MinuteAt(j) THEN Never ELSE last
  /\ at' = "waiting"
  /\ UNCHANGED <<cron, configured, windows, collected>>

(* #sleepUntilNextMinute() after a tick that ends in its minute, or later. *)
Pass == \E k \in 1 .. LongestTick : Lasts(k)

ScheduleStep == StartUp \/ Refuse \/ FailToRegister \/ Trigger \/ TickInVain \/ Pass

ScheduleSpec == ScheduleInit /\ [][ScheduleStep]_scheduleVars

(* The loop goes on while the daemon lives. *)
ScheduleFairSpec == ScheduleSpec /\ WF_scheduleVars(ScheduleStep)

-----------------------------------------------------------------------------
(* Properties *)

(* What a window means: it begins at "from" on each of its days and lasts until
   the next "to", the day after if that is earlier in the day.  The two tests of
   matchingWindow() say neither more nor less at any instant. *)
WindowsAreIntervals ==
  \A i \in DOMAIN windows :
    LET window == windows[i]
        clock == IF window.utc THEN now ELSE Local(now)
        length == (window.to + DayLength - window.from) % DayLength
    IN  Junk \notin {window.from, window.to} =>
          (Covers(window, now) <=>
             \E ago \in 0 .. DayLength - 1 :
               /\ ago < length
               /\ (clock + Cycle - ago) % DayLength = window.from
               /\ Date(clock + Cycle - ago).weekday \in ParseDays(window.days))

(* "Une source dont toutes les echeances tombent dans une fenetre ne collecterait
   jamais [...]. Autant le dire au demarrage": a daemon that has started with a
   cadence of its configuration does collect the source, unless the cadence
   never comes, or ticks go on for ever that are still under way when it is due. *)
MissesItsTime ==
  \E k \in 1 .. LongestTick :
    /\ Lasts(k)
    /\ \E j \in 1 .. k - 1 : Matches(cron, MinuteAt(j)) /\ ~ IsInBlackout(windows, MinuteAt(j))
AcceptedIsCollected ==
  <>[][~ MissesItsTime]_scheduleVars =>
    (at = "waiting" /\ configured /\ Due[cron] # {} ~> collected)

-----------------------------------------------------------------------------
(* Statements that the code does not keep (README, section 3). *)

(* The same whatever the ticks last: a minute that a tick spans is lost for the
   sources that are due in it, and nothing makes up for it. *)
AcceptedIsCollectedAnyway ==
  at = "waiting" /\ configured /\ Due[cron] # {} ~> collected

(* "cette source ne collecterait jamais": a cadence is refused only if no
   occurrence of it is ever outside the windows.  Five in a row may be inside
   while the sixth is not, so that a source collected every hour is refused at
   the beginning of the working day and accepted in the evening. *)
RefusedForGood ==
  at = "refused" /\ WindowsAreValid(windows) /\ IsRead(cron) =>
    \A t \in Due[cron] : IsInBlackout(windows, t)

(* "il vaut mieux le dire": a daemon does not start with a cadence that never
   comes. *)
NeverDueIsSaid == at = "waiting" => Due[cron] # {}

(* "Autant le dire au demarrage", for the cadence of a manifest too. *)
ManifestIsCollected ==
  at = "waiting" /\ Due[cron] # {} ~> collected

(* "ce qui n'est pas compris est refuse a la lecture, jamais interprete de
   travers": only the forms that the comment lists are accepted. *)
IsWritten(part) ==
  /\ \/ part.range = <<Star>>
     \/ Len(part.range) \in {1, 2} /\ \A i \in DOMAIN part.range : part.range[i] >= 0
  /\ part.steps = <<>> \/ (Len(part.steps) = 1 /\ part.steps[1] >= 0)
ReadAsWritten ==
  IsRead(cron) => \A f \in 1 .. 5 : \A i \in DOMAIN cron[f] : IsWritten(cron[f][i])
=============================================================================
