\* The sources of run daemon, without faults.
CONSTANTS
  s1 = s1  s2 = s2
  Order <- MCOrder
  Due <- MCDue
  Cycle = 3
  Blackout = {2}
  SilenceEvery = 1
  SilentAfter = 0
  MaxFaults = 0
SPECIFICATION DaemonSpec
INVARIANT SourcesAreCollectedAgain
