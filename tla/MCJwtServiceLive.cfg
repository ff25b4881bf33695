SPECIFICATION FairSpec
CONSTANTS
  t1 = t1
  t2 = t2
  NoThread = NoThread
  Threads <- MCThreads
  DecodeRequests <- MCDecodeRequests
  EncodeRequests <- MCEncodeRequests
  Registry <- MCRegistry
  Foreign <- MCForeign
  OtherPayloads <- MCOtherPayloads
  DefaultDicts <- OneDefault
  OptionDicts <- OneOption
  MaxTime = 1
  Resolution = 1
PROPERTY
  CallsReturn
