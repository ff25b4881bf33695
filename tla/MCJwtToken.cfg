SPECIFICATION Spec
CONSTANTS
  Resolution = 1
  EncodeRequests <- MCEncodeRequests
  DecodeRequests <- MCDecodeRequests
  Registry <- MCRegistry
  Instants <- MCInstants
INVARIANTS
  TypeOK
  
  RoundTrip
  OnlyWhatWasSigned
  SecretIsNoPublicKey
  LaxOnlyIfAsked
CHECK_DEADLOCK FALSE
