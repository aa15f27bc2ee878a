SPECIFICATION LinkSpec
CONSTANTS
  NoPayload = NoPayload
  Payload <- MCPayload
  Arrivals <- MCArrivals
  MaxCalls = 4
  MaxRetransmits = 3
  MaxResetRetries = 2
  SeqMod = 3
  RxCap = 1
  TxCap = 3
  FrameChanCap = 1
  ReadChunk = 1
  NcpWindow = 2
  PendCap = 0
  CarriesOn = FALSE
  Calls = {"reset", "send", "close"}
  Faults = {"cancel"}
  LinkFaults = {"lose"}
PROPERTIES AcceptsExpected ImplementsService
