SPECIFICATION FairSpec
CONSTANTS
  Commands = {"reset", "version", "info", "state", "init", "permit", "endpoints", "list", "get", "set"}
  Settings <- MCSettings
  PanIDs <- MCPanIDs
  Durations = {0, 60}
  IDs <- MCIDs
  AllConfigIDs <- MCConfigIDs
  SetValue = 4660
  Defaults <- MCDefaults
  Endpoints <- MCEndpoints
  NcpKinds <- MCNcpKinds
  Faults = {"lose", "fail", "refuse", "short", "restart", "kill"}
  MaxSessions = 3
INVARIANTS TypeOK FormedSecured FormedAsAsked SaysTruth CleanSucceeds ListsAll
PROPERTIES KeepsNetwork CommandEnds
CHECK_DEADLOCK FALSE
