SPECIFICATION Spec
CONSTANTS
  f = f
  g = g
  Commands = {f}
  NcpVersions = {8, 13}
  ResultsCap = 1
  Does = {"scan"}
  Faults = {}
  MaxCalls = 1
  MaxResults = 2
  MaxCallbacks = 1
  InboxCap = 2
INVARIANT FreeAfterScan
CHECK_DEADLOCK FALSE
