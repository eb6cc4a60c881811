--------------------------- MODULE DgramSocketInv ---------------------------
(***************************************************************************)
(* The inductive invariant behind the safety properties of DgramSocket:    *)
(* what they rely on and do not say themselves is how the bits of _state   *)
(* follow the flags of the handle and the phases of libuv.                 *)
(***************************************************************************)
EXTENDS DgramSocket

\* The socket closes only with its handle, and the handle without the socket
\* only if the environment exits, when no JavaScript runs any more.
Lifecycle ==
    /\ "CLOSING" \in state => h.closing
    /\ "CLOSED" \in state => h.loop = "closed"
    /\ h.closing => h.loop # "active"
    /\ h.loop # "active" => h.closing \/ h.exiting
    /\ h.loop = "closing" /\ ~h.exiting => "CLOSING" \in state
    /\ h.loop = "closed" /\ ~h.exiting => "CLOSED" \in state
    /\ h.exiting => h.loop # "active"
    /\ h.exiting \/ h.loop = "aborted" => stack = <<>> /\ micro = <<>>

UnboundFrame == [kind : (UserKinds \cup FlushKinds) \ {"bound"}, fns : Seq(Fn)]

\* What connects the socket runs on a socket that was bound.
ConnectBound ==
    "connect" \in lookups \/ stack \notin Seq(UnboundFrame) =>
        "BOUND" \in state \/ Closing(state)

Inductive ==
    /\ TypeOK
    /\ StateBits
    /\ Lifecycle
    /\ ConnectBound
    /\ ~LookupThrows => BindingHasOwner
    /\ ~OsFaults => PendingHasFlusher
    /\ "resume" \notin Calls /\ ~LateAccept => NoRevival

-----------------------------------------------------------------------------
(* What the socket believes of its handle: relative to Inductive, these are *)
(* inductive together.                                                      *)

\* Only a handle without a descriptor adopts one, which no bound socket has.
Attached == "BOUND" \in state /\ ~h.exiting => h.sock = "bound"

\* Before a bind nothing reads.
NotReading ==
    "BOUND" \notin state /\ ~Closing(state) /\ ~h.exiting =>
        "READING" \notin state /\ ~h.reading

Synced ==
    /\ Attached
    /\ PauseHeeded
    /\ ~PeerFd => ConnectedSync
    /\ ~OsFaults => NotReading /\ ReadingSync

-----------------------------------------------------------------------------
(* Where the requests are: relative to the two above, these are inductive   *)
(* together.  Unlike Places they do not count, and they take the places as  *)
(* arguments, as a step takes a request from one before it adds it to the   *)
(* next.                                                                    *)

InFns(fns, q) == \E i \in DOMAIN fns : fns[i] = q
InStack(s, q) == \E k \in DOMAIN s : InFns(s[k].fns, q)

OnceFns(fns, q) == \A i, j \in DOMAIN fns : fns[i] = q /\ fns[j] = q => i = j
OnceStack(s, q) ==
    /\ \A k \in DOMAIN s : OnceFns(s[k].fns, q)
    /\ \A k, l \in DOMAIN s : InFns(s[k].fns, q) /\ InFns(s[l].fns, q) => k = l

Somewhere(p, s, l, b, d, q) == InFns(p, q) \/ InStack(s, q) \/ q \in l \/ q \in b \/ q \in d

AtMostOne(p, s, l, b, d, q) ==
    /\ OnceFns(p, q) /\ OnceStack(s, q)
    /\ InFns(p, q) => ~InStack(s, q) /\ q \notin l /\ q \notin b /\ q \notin d
    /\ InStack(s, q) => q \notin l /\ q \notin b /\ q \notin d
    /\ q \in l => q \notin b /\ q \notin d
    /\ q \in b => q \notin d

\* Nothing throws that the socket calls in the middle of its work.
Reliable == ~Throws /\ ~LookupThrows /\ ~OsFaults

\* The requests i are in one place each, and no other is anywhere.
PlacedIn(p, s, l, b, d, i) ==
    \A q \in Req :
        /\ AtMostOne(p, s, l, b, d, q)
        /\ Somewhere(p, s, l, b, d, q) => q \in i
        /\ Reliable /\ q \in i => Somewhere(p, s, l, b, d, q)

Placed == PlacedIn(pending, stack, lookups, sends, settled, issued)

Elements(queue) == {queue[i] : i \in DOMAIN queue}
Distinct(queue) == \A i, j \in DOMAIN queue : queue[i] = queue[j] => i = j

\* _sends is the queue of the handle, in which no request is twice.
Matched == ~h.exiting => sends = Elements(h.queue) /\ Distinct(h.queue)

\* Only a flush has functions to call, and of a closed socket only that of _onclose.
TidyFrame == {f \in Frame : f.kind \in UserKinds => f.fns = <<>>}
LastFrame == {f \in Frame : f.kind # "closed" => f.fns = <<>>}

\* A socket that has closed has nothing left to tell but in that flush.
LastFlush ==
    "CLOSED" \in state => pending = <<>> /\ sends = {} /\ stack \in Seq(LastFrame)

Traced == Placed /\ Matched /\ stack \in Seq(TidyFrame) /\ LastFlush

\* Relative to all of these: where the function of connect is, or its lookup.
HasConnect(p, s, l) == InFns(p, "connect") \/ InStack(s, "connect") \/ "connect" \in l

ConnectOwned == Reliable /\ "CONNECTING" \in state => HasConnect(pending, stack, lookups)

=============================================================================
