SPECIFICATION Spec
CONSTANTS
  Resolution = 1
  EncodeCalls <- MCEncodeCalls
  DecodeCalls <- MCDecodeCalls
  Dicts <- MCDicts
  MaxTime = 2
  MaxTokens = 1
INVARIANTS
  TypeOK
  Authentic
  ValidDuringCall
  RefusedByEveryKey
  RoundTrip
