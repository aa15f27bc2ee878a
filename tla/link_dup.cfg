SPECIFICATION LinkSpec
CONSTANTS
  NoPayload = NoPayload
  Payload <- MCPayload
  Arrivals <- MCArrivals
  MaxCalls = 2
  MaxRetransmits = 1
  MaxResetRetries = 2
  SeqMod = 4
  RxCap = 1
  TxCap = 2
  FrameChanCap = 1
  ReadChunk = 1
  NcpWindow = 1
  PendCap = 0
  CarriesOn = FALSE
  Calls = {"reset", "send", "close"}
  Faults = {}
  LinkFaults = {"loseAck"}
PROPERTY AcceptsExpected
