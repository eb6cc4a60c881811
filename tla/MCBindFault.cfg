\* The end of a bind throws.
SPECIFICATION Spec

CONSTANTS
  Req = {r1}
  WithCb = {r1}
  Deferred = FALSE
  PeerFd = FALSE
  OsFaults = TRUE
  Throws = FALSE
  LookupThrows = FALSE
  LateAccept = FALSE
  MaxPending = 2
  MaxMicro = 2
  Calls <- BindAndSend

INVARIANTS
  PendingHasFlusher
