SPECIFICATION Spec
CONSTANTS
  Resolution = 1
  EncodeCalls <- MCEncodeCalls
  DecodeCalls <- MCDecodeCalls
  Dicts <- MCDicts
  MaxTime = 2
  MaxTokens = 2
INVARIANT ExpiresAsAsked
