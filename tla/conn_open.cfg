SPECIFICATION FairSpec
CONSTANTS
  p = p
  NoPayload = NoPayload
  Payload <- MCPayload
  Arrivals <- MCArrivals
  SeqMod = 2
  FrameChanCap = 1
  MaxResetRetries = 2
  MaxRetransmits = 2
  ReadChunk = 1
  RxCap = 1
  TxCap = 1
  Calls = {"reset", "send", "recv", "close"}
  Faults = {"cancel", "write", "read", "flush"}
INVARIANT TypeOK
PROPERTIES NumbersFollowAnswers WaitsReturn CloseReturns GivesUp
