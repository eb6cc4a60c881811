---------------------------- MODULE SendContract ----------------------------
(***************************************************************************)
(* What a socket promises about its sends, whatever it does in between to  *)
(* bind, resolve and queue: a request is accepted while the socket is      *)
(* open, reaches the network only while it is open, and is reported once;  *)
(* the socket has closed only when every request was reported, but for     *)
(* those that still wait for the address of their host.                    *)
(***************************************************************************)
CONSTANT Req

VARIABLES
    phase,  \* of the socket, as the program sees it from its events
    status  \* of each request

vars == <<phase, status>>

TypeOK ==
    /\ phase \in {"open", "closing", "closed"}
    /\ status \in [Req -> {"unsent", "queued", "resolving", "sent", "reported"}]

Init ==
    /\ phase = "open"
    /\ status = [r \in Req |-> "unsent"]

Becomes(r, new) == status' = [status EXCEPT ![r] = new]

\* send: the request waits for the bind, or is resolved, sent or refused at once.
Accept(r) ==
    /\ phase = "open" /\ status[r] = "unsent"
    /\ \E new \in {"queued", "resolving", "sent", "reported"} : Becomes(r, new)
    /\ phase' = phase

\* A request whose turn has come on a bound socket is resolved.
Resolve(r) ==
    /\ phase # "closed" /\ status[r] = "queued"
    /\ Becomes(r, "resolving")
    /\ phase' = phase

Transmit(r) ==
    /\ phase = "open" /\ status[r] \in {"queued", "resolving"}
    /\ Becomes(r, "sent")
    /\ phase' = phase

Report(r) ==
    /\ status[r] \in {"queued", "resolving", "sent"}
    /\ Becomes(r, "reported")
    /\ phase' = phase

StartClose ==
    /\ phase = "open"
    /\ phase' = "closing"
    /\ status' = status

Closed ==
    /\ phase = "closing"
    /\ \A r \in Req : status[r] \notin {"queued", "sent"}
    /\ phase' = "closed"
    /\ status' = status

Next ==
    \/ \E r \in Req : Accept(r) \/ Resolve(r) \/ Transmit(r) \/ Report(r)
    \/ StartClose
    \/ Closed

Spec == Init /\ [][Next]_vars

=============================================================================
