\* Every call, from every place user code runs in.
SPECIFICATION Spec

CONSTANTS
  Req = {r1, r2, r3}
  WithCb = {r1, r2}
  Deferred = TRUE
  PeerFd = FALSE
  OsFaults = FALSE
  Throws = FALSE
  LookupThrows = FALSE
  LateAccept = TRUE
  MaxPending = 2
  MaxMicro = 2
  Calls <- AllCalls

INVARIANTS
  TypeOK
  StateBits
  BindingHasOwner
  PendingHasFlusher
  ConnectingHasOwner
  SettledOnce
  NoRequestLost
  SendsMatchQueue
  ConnectedSync
  ReadingSync
  CloseSettles

PROPERTIES
  NoSendAfterClose
  CloseSilences
  ContractSpec

CHECK_DEADLOCK FALSE
