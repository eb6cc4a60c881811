------------------------------- MODULE SendIds -------------------------------
(***************************************************************************)
(* How a completion finds its request.  The socket numbers what it hands   *)
(* to the native handle with ids that wrap, and keeps the requests in the  *)
(* map _sends under their ids; the handle keeps the id, in 32 bits, next   *)
(* to the request of libuv, and gives it back with the completion.         *)
(*                                                                         *)
(* DgramSocket leaves the ids out, and lets a completion name its request; *)
(* this module is why it may.  Requests are named by the order of _send.   *)
(***************************************************************************)
EXTENDS Naturals

CONSTANTS
    Modulus,  \* of the ids: 2^32 in the code
    Span,     \* how many sends are made, at most, from one to its completion
    MaxSends  \* bound: the sends made

ASSUME SendIdsAssumption ==
    /\ Modulus \in Nat \ {0}
    /\ Span \in 1..Modulus
    /\ MaxSends \in Nat

VARIABLES
    sendId,   \* _sendId
    sends,    \* _sends: the request under each id, 0 for none
    inflight, \* the requests of libuv, each with the id it was given
    closed,   \* 'close' was emitted
    sent,     \* history: how many requests _send was called with
    told      \* history: the requests whose outcome was reported

vars == <<sendId, sends, inflight, closed, sent, told>>

Ids == 0..(Modulus - 1)
NoRequest == 0

Init ==
    /\ sendId = 0
    /\ sends = [id \in Ids |-> NoRequest]
    /\ inflight = {}
    /\ closed = FALSE
    /\ sent = 0
    /\ told = {}

\* What the native handle makes of an id.
uint32(id) == id % Modulus

\* Mutant: the ids go on beyond what the native handle keeps of them.
nextIdUnwrapped(id) == id + 1

\* Mutant: they wrap at the largest of them.
nextIdEarly(id) == (id + 1) % (Modulus - 1)

nextId(id) == (id + 1) % Modulus

\* No more than Span sends are made while one is in flight.
MaySend == \A e \in inflight : sent - e.request < Span - 1

\* Mutant: a request that the handle refuses stays in _sends.
_sendKept ==
    /\ ~closed /\ sent < MaxSends /\ MaySend
    /\ sent' = sent + 1
    /\ sendId' = nextId(sendId)
    /\ sends' = [sends EXCEPT ![sendId] = sent']
    /\ \/ /\ told' = told \cup {sent'}
          /\ inflight' = inflight
       \/ /\ inflight' = inflight \cup {[id |-> uint32(sendId), request |-> sent']}
          /\ told' = told
    /\ closed' = closed

\* A request that the handle refuses has used up its id.
_send ==
    /\ ~closed /\ sent < MaxSends /\ MaySend
    /\ sent' = sent + 1
    /\ sendId' = nextId(sendId)
    /\ \/ /\ sends' = [sends EXCEPT ![sendId] = NoRequest]
          /\ told' = told \cup {sent'}
          /\ inflight' = inflight
       \/ /\ sends' = [sends EXCEPT ![sendId] = sent']
          /\ inflight' = inflight \cup {[id |-> uint32(sendId), request |-> sent']}
          /\ told' = told
    /\ closed' = closed

\* libuv may complete the requests in any order.
_onsend(e) ==
    /\ inflight' = inflight \ {e}
    /\ \/ /\ sends[e.id] = NoRequest
          /\ UNCHANGED <<sends, told>>
       \/ /\ sends[e.id] # NoRequest
          /\ sends' = [sends EXCEPT ![e.id] = NoRequest]
          /\ told' = told \cup {sends[e.id]}
    /\ UNCHANGED <<sendId, closed, sent>>

\* libuv has completed every request when it closes the handle.
_onclose ==
    /\ ~closed /\ inflight = {}
    /\ closed' = TRUE
    /\ sends' = [id \in Ids |-> NoRequest]
    /\ UNCHANGED <<sendId, inflight, sent, told>>

Next == _send \/ (\E e \in inflight : _onsend(e)) \/ _onclose

Spec == Init /\ [][Next]_vars

-----------------------------------------------------------------------------
(* Properties *)

\* Fields hold values of their kinds.
TypeOK ==
    /\ sendId \in Ids
    /\ sends \in [Ids -> 0..sent]
    /\ inflight \subseteq [id : Ids, request : 1..sent]
    /\ closed \in BOOLEAN
    /\ sent \in Nat
    /\ told \subseteq 1..sent

\* The id that a completion brings back is that of its own request, however
\* often the ids have wrapped and whatever gaps refused requests have left: no
\* request in flight was given the id of another.
OwnRequest ==
    \A e \in inflight : sends[e.id] = e.request

\* So every request is either in flight or was reported, and _sends holds none
\* but those in flight, to the end.
AllTold ==
    /\ told = 1..sent \ {e.request : e \in inflight}
    /\ \A id \in Ids : sends[id] # NoRequest => \E e \in inflight : e.id = id

=============================================================================
