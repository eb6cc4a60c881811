\* A send that waits for its lookup outlives the close event.
SPECIFICATION Spec

CONSTANTS
  Req = {r1}
  WithCb = {r1}
  Deferred = FALSE
  PeerFd = FALSE
  OsFaults = FALSE
  Throws = FALSE
  LookupThrows = FALSE
  LateAccept = FALSE
  MaxPending = 2
  MaxMicro = 2
  Calls <- BindAndSend

INVARIANTS
  CloseSettlesAll
