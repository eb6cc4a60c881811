\* A range and a port of 0 are read as a port and an address.
SPECIFICATION Spec

CONSTANTS
  Word = 16
  MaxPort = 5
  Size = 3
  FalsyPorts = TRUE
  Indices <- AroundTheLimits
  Ports <- AllPorts
  Hosts = {}

INVARIANTS
  GivenPortChecked

CHECK_DEADLOCK FALSE
