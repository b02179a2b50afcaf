\* Two calls on two sources, failing queries and restarts, fair scheduling.
CONSTANTS
  s1 = s1  s2 = s2  c1 = c1  c2 = c2  c3 = c3
  Sources = {s1, s2}
  Calls = {c1, c2}
  NoCall = NoCall
  Faults = {"io", "crash"}
SPECIFICATION RunsFairSpec
INVARIANT OneCollectorPerSource
INVARIANT EnumerationIsBudgeted
INVARIANT StopNeverOutlivesRun
PROPERTY NoAutomaticReactivation
PROPERTY RunsAreWoundUp
