SPECIFICATION Spec
CONSTANTS
  Resolution = 1
  MaxSent = 2
  Keys <- MCKeys
  Headers <- MCHeaders
INVARIANTS
  TypeOK
  RoundTrip
  OnlyWhatWasSealed
CHECK_DEADLOCK FALSE
