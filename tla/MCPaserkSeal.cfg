SPECIFICATION Spec
CONSTANTS
  Documents <- MCDocuments
  Usings <- MCUsings
  MaxBlocks = 2
INVARIANT SealedToPublicOpens
