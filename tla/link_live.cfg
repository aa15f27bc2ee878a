SPECIFICATION LinkFairSpec
CONSTANTS
  NoPayload = NoPayload
  Payload <- MCPayload
  Arrivals <- MCArrivals
  MaxCalls = 1
  MaxRetransmits = 2
  MaxResetRetries = 1
  SeqMod = 2
  RxCap = 1
  TxCap = 1
  FrameChanCap = 1
  ReadChunk = 1
  NcpWindow = 1
  PendCap = 1
  CarriesOn = FALSE
  Calls = {"reset", "send", "recv", "close"}
  Faults = {}
  LinkFaults = {"lose", "ncpReset", "callback"}
PROPERTY SendReturns
