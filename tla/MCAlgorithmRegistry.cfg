SPECIFICATION FairSpec
CONSTANTS
  t1 = t1
  t2 = t2
  plain = plain
  finalised = finalised
  NoThread = NoThread
  NoGil = NoGil
  Nothing = Nothing
  Threads <- MCThreads
  AlgNames <- MCNames
  Upper <- MCUpper
  Defaults <- MCDefaults
  Filters <- MCFilters
  Objects <- MCObjects
  Instances <- MCHandlers
  Finalised <- MCFinalised
CHECK_DEADLOCK FALSE
INVARIANTS
  RegistryTypeOK
  OnlyFinalisersBlock
PROPERTIES
  LostOnlyToOverlap
  CallsReturn
