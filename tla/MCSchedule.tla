----------------------------- MODULE MCSchedule -----------------------------
(* Small instances of Schedule for TLC. *)
EXTENDS Schedule

(* A month of two days and one of four; weeks of three days. *)
MCCalendar ==
  <<[date |-> 1, month |-> 1], [date |-> 2, month |-> 1], [date |-> 1, month |-> 2],
    [date |-> 2, month |-> 2], [date |-> 3, month |-> 2], [date |-> 4, month |-> 2]>>

Any == <<[range |-> <<Star>>, steps |-> <<>>]>>
Is(n) == <<[range |-> <<n>>, steps |-> <<>>]>>
Every(n) == <<[range |-> <<Star>>, steps |-> <<n>>]>>
From(m, n) == <<[range |-> <<m, n>>, steps |-> <<>>]>>

(* Each minute; one hour in two; the last hour; a date or a day of the week; the
   third day of the month, in any month and in one that has none; an unknown
   month; "-0" in the field of the hours. *)
MCCrons ==
  { <<Any, Any, Any, Any, Any>>,
    <<Is(0), Every(2), Any, Any, Any>>,
    <<Is(1), Is(2), Any, Any, From(1, 2)>>,
    <<Is(0), Is(0), Is(2), Any, Is(0)>>,
    <<Is(0), Is(1), Is(3), Any, Any>>,
    <<Is(0), Is(1), Is(3), Is(1), Any>>,
    <<Is(0), Is(1), Any, Is(3), Any>>,
    <<Is(0), <<[range |-> <<Nothing, 0>>, steps |-> <<>>]>>, Any, Any, Any>> }

Window(days, from, to, utc) == [days |-> days, from |-> from, to |-> to, utc |-> utc]

(* None; the working hours of two days; every night; a range of days over the end
   of the week; nearly always; an hour and days that cannot be read. *)
MCWindowLists ==
  { <<>>,
    << Window(<< <<0, 1>> >>, 2, 5, FALSE) >>,
    << Window(<< <<Star>> >>, 4, 2, TRUE) >>,
    << Window(<< <<2, 0>>, <<Junk>> >>, 1, 6 - 1, TRUE), Window(<< <<1>> >>, 5, 1, FALSE) >>,
    << Window(<< <<Star>> >>, 0, 4, FALSE), Window(<< <<Star>> >>, 4, 0, FALSE) >>,
    << Window(<< <<0>> >>, Junk, 2, FALSE) >>,
    << Window(<< <<Junk, 1>> >>, 0, 2, FALSE) >> }
=============================================================================
