SPECIFICATION FairSpec
CONSTANTS
  f = f
  g = g
  Commands = {f}
  NcpVersions = {8, 13}
  ResultsCap = 1
  Does = {"scan", "abandon"}
  Faults = {"cancel"}
  MaxCalls = 1
  MaxResults = 2
  MaxCallbacks = 1
  InboxCap = 2
PROPERTY CancelTerminates
CHECK_DEADLOCK FALSE
