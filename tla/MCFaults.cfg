\* What survives failing system calls, throwing user code and adopted descriptors;
\* a closing handle stays closed when resume is not called.
SPECIFICATION Spec

CONSTANTS
  Req = {r1, r2}
  WithCb = {r1}
  Deferred = TRUE
  PeerFd = TRUE
  OsFaults = TRUE
  Throws = TRUE
  LookupThrows = TRUE
  LateAccept = FALSE
  MaxPending = 2
  MaxMicro = 2
  Calls <- CallsButResume

INVARIANTS
  StateBits
  SettledOnce
  SendsMatchQueue
  NoRevival
  PauseHeeded

PROPERTIES
  LifecycleSpec

CHECK_DEADLOCK FALSE
