SPECIFICATION Spec
CONSTANTS
  Documents <- MCDocuments
  Usings <- MCUsings
  MaxBlocks = 2
INVARIANTS
  TypeOK
  KeyKept
  OnlyTheRightSecretOpens
  ReadersAgree
  WrittenOpens
