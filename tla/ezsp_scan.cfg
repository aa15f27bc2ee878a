SPECIFICATION FairSpec
CONSTANTS
  f = f
  g = g
  Commands = {f, g}
  NcpVersions = {8, 13}
  ResultsCap = 1
  Does = {"scan", "meanwhile", "abandon"}
  Faults = {"lose", "refuse", "cancel"}
  MaxCalls = 3
  MaxResults = 3
  MaxCallbacks = 1
  InboxCap = 2
INVARIANTS TypeOK OneInConn CompleteScan AnswersOwn FormatsAgree
PROPERTIES CallsReturn CancelEndsScan
CHECK_DEADLOCK FALSE
