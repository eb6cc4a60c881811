\* Ids wrap several times, and the requests in flight take all of them.
SPECIFICATION Spec

CONSTANTS
  Modulus <- Ids4
  Span <- Ids4
  MaxSends <- ThreeRounds

INVARIANTS
  TypeOK
  OwnRequest
  AllTold

CHECK_DEADLOCK FALSE
