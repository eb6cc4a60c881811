\* Everything that was started ends.
SPECIFICATION FairSpec

CONSTANTS
  Req = {r1, r2}
  WithCb = {r1}
  Deferred = TRUE
  PeerFd = FALSE
  OsFaults = FALSE
  Throws = FALSE
  LookupThrows = FALSE
  LateAccept = FALSE
  MaxPending = 1
  MaxMicro = 1
  Calls <- LastingCalls

PROPERTIES
  SendSettles
  CloseCompletes
  BindCompletes
  ConnectCompletes
