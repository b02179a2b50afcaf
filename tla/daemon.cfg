\* Two sources due together at minute 0 of a cycle of three, the last minute excluded; one fault.
CONSTANTS
  s1 = s1  s2 = s2
  Order <- MCOrder
  Due <- MCDue
  Cycle = 3
  Blackout = {2}
  SilenceEvery = 3
  SilentAfter = 0
  MaxFaults = 1
SPECIFICATION DaemonFairSpec
INVARIANT PluginsAreDisposed
PROPERTY FailuresAreIsolated
PROPERTY QuarantineOutlivesProcess
PROPERTY StopIsObeyed
PROPERTY SilenceIsReported
