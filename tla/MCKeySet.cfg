SPECIFICATION Spec
CONSTANTS
  Resolution = 1
  MaxKeys = 2
  Unnamed = "unnamed"
  Keys <- MCKeys
  Jwks <- MCJwks
  Published <- MCPublished
  Handlers <- MCHandlers
  Kids <- MCKids
  Payload <- MCPayload
INVARIANTS
  TypeOK
  SignerIsFound
  AcceptsOnlyPublished
  NothingToSignWith
  HandlerRoundTrip
