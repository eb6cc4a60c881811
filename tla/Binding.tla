------------------------------- MODULE Binding -------------------------------
(***************************************************************************)
(* The native half of a socket (binding.c) over its libuv UDP handle.      *)
(* A handle is a record; every binding call is an operator from the handle *)
(* to the set of results it may return, so that one turn of JavaScript can *)
(* make several native calls.  What libuv itself does is external to the   *)
(* repository and is modelled from the way binding.c and the tests use it. *)
(***************************************************************************)
EXTENDS Sequences

CONSTANTS
    Req,       \* the send requests of the program
    Deferred,  \* TRUE: created with type null, so libuv opens no descriptor yet
    PeerFd,    \* TRUE: a descriptor the program adopts may be connected already
    OsFaults   \* TRUE: getsockname, SO_*BUF and starting to read may fail

ASSUME BindingAssumption ==
    /\ Deferred \in BOOLEAN
    /\ PeerFd \in BOOLEAN
    /\ OsFaults \in BOOLEAN

(***************************************************************************)
(* loop     where uv_close and the event loop have taken the handle;       *)
(*          "aborted" is a failed libuv assertion                          *)
(* sock     the descriptor: absent, opened, or bound (or adopted)          *)
(* conn     UV_HANDLE_UDP_CONNECTED                                        *)
(* reading  the handle is polled for input                                 *)
(* queue    send requests libuv has accepted and not completed             *)
(* closing, exiting   the two flags of bare_dgram_t                        *)
(* ref      the handle keeps the loop alive                                *)
(***************************************************************************)
Handle ==
    [loop : {"active", "closing", "closed", "aborted"},
     sock : {"none", "open", "bound"},
     conn : BOOLEAN, reading : BOOLEAN, queue : Seq(Req),
     closing : BOOLEAN, exiting : BOOLEAN, ref : BOOLEAN]

\* uv_udp_init_ex opens the descriptor at once unless the family is unspecified.
bare_dgram_init ==
    [loop |-> "active", sock |-> IF Deferred THEN "none" ELSE "open",
     conn |-> FALSE, reading |-> FALSE, queue |-> <<>>,
     closing |-> FALSE, exiting |-> FALSE, ref |-> TRUE]

Ok(x) == [err |-> FALSE, h |-> x]
Failed(x) == [err |-> TRUE, h |-> x]
Result == [err : BOOLEAN, h : Handle]

-----------------------------------------------------------------------------
(* Calls made from JavaScript *)

\* A bind may always fail, before or after libuv has opened the descriptor;
\* a descriptor can be bound only once.
bare_dgram_bind(x) ==
    {Failed(x), Failed([x EXCEPT !.sock = IF @ = "none" THEN "open" ELSE @])}
    \cup (IF x.sock = "bound" THEN {} ELSE {Ok([x EXCEPT !.sock = "bound"])})

\* uv_udp_open refuses a handle that has a descriptor, and takes over whether
\* the adopted one is connected.
bare_dgram_open(x) ==
    {Failed(x)}
    \cup (IF x.sock # "none" THEN {}
          ELSE {Ok([x EXCEPT !.sock = "bound", !.conn = c]) : c \in {FALSE, PeerFd}})

bare_dgram_connect(x) ==
    {Failed(x)} \cup (IF x.conn THEN {} ELSE {Ok([x EXCEPT !.conn = TRUE])})

bare_dgram_disconnect(x) ==
    {Failed(x)} \cup (IF x.conn THEN {Ok([x EXCEPT !.conn = FALSE])} ELSE {})

\* libuv rejects a destination on a connected handle and a missing one on an
\* unconnected handle; any send may also fail before it is queued.
bare_dgram_send(x, r, addressed) ==
    {Failed(x)}
    \cup (IF x.conn = addressed THEN {} ELSE {Ok([x EXCEPT !.queue = Append(@, r)])})

\* Reading needs a descriptor: libuv opens and binds one if there is none, also
\* when there is none because the handle is closing.
bare_dgram_resume(x) ==
    IF x.reading THEN {Ok(x)}
    ELSE {Ok([x EXCEPT !.reading = TRUE, !.sock = IF @ = "none" THEN "bound" ELSE @])}
         \cup (IF OsFaults THEN {Failed(x)} ELSE {})

bare_dgram_pause(x) == [x EXCEPT !.reading = FALSE]

\* The option setters, which open a missing descriptor like a read does.
bare_dgram_set_option(x) ==
    {Failed(x), Ok([x EXCEPT !.sock = IF @ = "none" THEN "bound" ELSE @])}

bare_dgram_ref(x) == [x EXCEPT !.ref = TRUE]
bare_dgram_unref(x) == [x EXCEPT !.ref = FALSE]

\* libuv asserts that a handle is closed once; it stops polling and gives up
\* the descriptor at once.
uv_close(x) ==
    IF x.loop # "active" THEN [x EXCEPT !.loop = "aborted"]
    ELSE [x EXCEPT !.loop = "closing", !.sock = "none", !.reading = FALSE]

\* Mutant: a handle without a descriptor is taken to have nothing to close.
bare_dgram_close_unopened(x) ==
    IF x.closing THEN x
    ELSE IF x.sock = "none" THEN [x EXCEPT !.closing = TRUE]
    ELSE uv_close([x EXCEPT !.closing = TRUE])

bare_dgram_close(x) ==
    IF x.closing THEN x ELSE uv_close([x EXCEPT !.closing = TRUE])

-----------------------------------------------------------------------------
(* Calls made by the event loop *)

\* The environment is torn down around a handle that was not closed.
bare_dgram__on_teardown(x) ==
    IF x.closing THEN [x EXCEPT !.exiting = TRUE]
    ELSE uv_close([x EXCEPT !.exiting = TRUE])

\* A closing handle that got a descriptor again.
Revived(x) == x.loop = "closing" /\ x.sock # "none"

CanReceive(x) ==
    /\ x.loop = "active" /\ x.reading
    /\ ~x.closing /\ ~x.exiting

\* Requests complete in order; the ones left when the handle closes are
\* cancelled after libuv has asserted that the handle has no descriptor.
CanCompleteSend(x) ==
    /\ x.loop \in {"active", "closing"} /\ ~Revived(x)
    /\ x.queue # <<>>

bare_dgram__on_send(x) == [x EXCEPT !.queue = Tail(@)]

\* The close callback comes after every request has been completed.
CanClose(x) == x.loop = "closing" /\ (Revived(x) \/ x.queue = <<>>)

bare_dgram__on_close(x) ==
    [x EXCEPT !.loop = IF Revived(x) THEN "aborted" ELSE "closed"]

=============================================================================
