\* Days of three hours of two minutes, weeks of three days, a year of two months; the local time one minute ahead.
CONSTANTS
  HourLength = 2
  DayLength = 6
  WeekLength = 3
  Calendar <- MCCalendar
  Offset = 1
  Horizon = 36
  Occurrences = 3
  LongestTick = 8
  Crons <- MCCrons
  WindowLists <- MCWindowLists
SPECIFICATION ScheduleFairSpec
INVARIANT WindowsAreIntervals
PROPERTY AcceptedIsCollected
CHECK_DEADLOCK FALSE
