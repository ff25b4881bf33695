SPECIFICATION Spec
CONSTANTS
  Resolution = 2
  MaxTime = 6
  Questions <- MCQuestions
INVARIANTS
  TypeOK
  VerdictIsPolicy
  LeewayOnlyWidens
PROPERTIES
  ExpiredForGood
  TimeOnlyExpires
CHECK_DEADLOCK FALSE
