------------------------ MODULE DgramSocketRefinement ------------------------
(***************************************************************************)
(* The Socket of DgramSocket keeps the promises of SendContract and of     *)
(* SocketLifecycle.  A request is queued while its function is in _pending *)
(* or in a flush, and the program learns that the socket has closed when   *)
(* 'close' is emitted, after the last flush; the getters tell it earlier.  *)
(***************************************************************************)
EXTENDS DgramSocket

ContractPhase ==
    IF HasClosed THEN "closed"
    ELSE IF Closing(state) THEN "closing" ELSE "open"

RequestStatus(r) ==
    IF r \notin issued THEN "unsent"
    ELSE IF r \in settled THEN "reported"
    ELSE IF r \in sends THEN "sent"
    ELSE IF r \in lookups THEN "resolving"
    ELSE "queued"

Contract == INSTANCE SendContract WITH
    phase <- ContractPhase,
    status <- [r \in Req |-> RequestStatus(r)]

\* Every step of the socket is a step of the contract or leaves it alone: this
\* is what a program may rely on between send, close and their callbacks.
ContractSpec == Contract!Spec

Lifecycles == INSTANCE SocketLifecycle WITH
    bound <- "BOUND" \in state,
    connected <- "CONNECTED" \in state,
    closing <- "CLOSING" \in state,
    closed <- "CLOSED" \in state

\* The getters bound, connected, closing and closed go through the life of the
\* abstract socket: no callback that comes late, and no call out of order, makes
\* a socket bound or connected again that was closed, or connected before bound.
LifecycleSpec == Lifecycles!Spec

=============================================================================
