SPECIFICATION Spec
CONSTANTS
  Resolution = 2
  MaxTime = 6
  Questions <- MCQuestions
INVARIANT
  AcceptedExpIsANumber
CHECK_DEADLOCK FALSE
