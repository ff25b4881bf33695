SPECIFICATION Spec
CONSTANTS
  t1 = t1
  t2 = t2
  NoThread = NoThread
  Threads <- MCThreads
  DecodeRequests <- MCDecodeRequests
  EncodeRequests <- MCEncodeRequests
  Registry <- MCRegistry
  Foreign <- MCForeign
  OtherPayloads <- MCOtherPayloads
  DefaultDicts <- MCDefaultDicts
  OptionDicts <- MCOptionDicts
  MaxTime = 1
  Resolution = 1
SYMMETRY Symmetry
INVARIANTS
  TypeOK
  Authentic
  ValidDuringCall
PROPERTY
  ContractSpec
