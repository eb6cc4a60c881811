\* A callback throws in the middle of a flush.
SPECIFICATION Spec

CONSTANTS
  Req = {r1, r2}
  WithCb = {r1}
  Deferred = FALSE
  PeerFd = FALSE
  OsFaults = FALSE
  Throws = TRUE
  LookupThrows = FALSE
  LateAccept = FALSE
  MaxPending = 2
  MaxMicro = 2
  Calls <- BindAndSend

INVARIANTS
  NoRequestLost
