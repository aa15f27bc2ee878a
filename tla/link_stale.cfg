SPECIFICATION LinkSpec
CONSTANTS
  NoPayload = NoPayload
  Payload <- MCPayload
  Arrivals <- MCArrivals
  MaxCalls = 2
  MaxRetransmits = 1
  MaxResetRetries = 2
  SeqMod = 2
  RxCap = 1
  TxCap = 2
  FrameChanCap = 1
  ReadChunk = 1
  NcpWindow = 1
  PendCap = 0
  CarriesOn = TRUE
  Calls = {"reset", "send", "close"}
  Faults = {"cancel"}
  LinkFaults = {}
INVARIANT Correlated
