\* Every form of send, read back.
SPECIFICATION Spec

CONSTANTS
  Word = 16
  MaxPort = 5
  Size = 3
  FalsyPorts = FALSE
  Indices <- AroundTheLimits
  Ports <- AllPorts
  Hosts <- SomeHosts

INVARIANTS
  AsMeant
  Inside
  PortChecked
  DestinationRefused
  DecimalSegments
  AnswersLikeRFC

CHECK_DEADLOCK FALSE
