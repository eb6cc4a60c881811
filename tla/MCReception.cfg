\* Datagrams around the size of the buffer, pauses in the middle of a poll.
SPECIFICATION FairSpec

CONSTANTS
  ReadBufferSize = 1
  Burst = 2
  Capacity = 3
  MaxArrivals = 4
  Lengths <- AroundTheBuffer

INVARIANTS
  NothingLost

PROPERTIES
  SilentWhenPaused
  Delivered
