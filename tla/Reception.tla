------------------------------ MODULE Reception ------------------------------
(***************************************************************************)
(* How datagrams get from the operating system to the program: libuv reads *)
(* a few of them per poll into the one read buffer of the socket, and      *)
(* calls binding.c after each, which calls _onmessage, which copies the    *)
(* datagram and emits it.  The listener may pause, resume or close the     *)
(* socket before libuv reads the next one into the same buffer.            *)
(*                                                                         *)
(* The socket is bound; what leads there is in DgramSocket.  The bytes of  *)
(* a datagram are named after its place in the order of arrival.           *)
(***************************************************************************)
EXTENDS Naturals, Sequences

CONSTANTS
    ReadBufferSize, \* of the socket
    Lengths,        \* the lengths of the datagrams that arrive
    Burst,          \* the datagrams libuv reads at most in one poll
    Capacity,       \* bound: the datagrams the operating system buffers
    MaxArrivals     \* bound: the datagrams that arrive

ASSUME ReceptionAssumption ==
    /\ ReadBufferSize \in Nat \ {0}
    /\ Lengths \subseteq Nat
    /\ Burst \in Nat \ {0}
    /\ Capacity \in Nat
    /\ MaxArrivals \in Nat

VARIABLES
    arrived,  \* what the operating system buffered, in order, for good
    taken,    \* how much of it recvmsg has taken
    buffer,   \* _buffer: the datagram whose bytes it starts with, 0 at first
    paused,   \* _paused
    reading,  \* the bit READING
    polled,   \* libuv polls the handle for input
    closed,   \* the handle was closed
    poll,     \* how many datagrams libuv may still read in this poll
    control,  \* who runs: the event loop, or user code called by it
    reported  \* the events the program got, in order, each with what it keeps

vars == <<arrived, taken, buffer, paused, reading, polled, closed, poll, control, reported>>

\* What arrives is a datagram or, on a connected socket, an error.
Arrival == [len : Lengths, fault : BOOLEAN]

\* A message holds bytes of its own, or aliases the read buffer.
Shared == 0
Event == [error : BOOLEAN, len : Nat, bytes : Nat]

Init ==
    /\ arrived = <<>> /\ taken = 0
    /\ buffer = 0
    /\ paused \in BOOLEAN
    /\ reading = ~paused /\ polled = ~paused
    /\ closed = FALSE
    /\ poll = 0 /\ control = "loop"
    /\ reported = <<>>

Buffered == taken < Len(arrived)

-----------------------------------------------------------------------------
(* The operating system and libuv *)

Arrive(d) ==
    /\ ~closed
    /\ Len(arrived) < MaxArrivals /\ Len(arrived) - taken < Capacity
    /\ arrived' = Append(arrived, d)
    /\ UNCHANGED <<taken, buffer, paused, reading, polled, closed, poll, control, reported>>

\* libuv finds the handle readable and enters its loop.
Poll ==
    /\ control = "loop" /\ poll = 0
    /\ polled /\ Buffered
    /\ poll' = Burst
    /\ UNCHANGED <<arrived, taken, buffer, paused, reading, polled, closed, control, reported>>

\* Mutant: the message is a view of the read buffer.
onmessageShared(len, bytes) == [error |-> FALSE, len |-> len, bytes |-> Shared]

\* _onmessage copies the bytes that were read before anything else is.
onmessage(len, bytes) == [error |-> FALSE, len |-> len, bytes |-> bytes]

\* A datagram that did not fit in the buffer is an error, like a failed read.
on_message(d, bytes) ==
    IF d.fault \/ d.len > ReadBufferSize THEN <<[error |-> TRUE, len |-> 0, bytes |-> 0]>>
    ELSE <<onmessage(d.len, bytes)>>

\* recvmsg fills the buffer from the start; a failed read ends the poll.
Receive ==
    /\ control = "loop" /\ poll > 0
    /\ polled /\ Buffered
    /\ LET n == taken + 1
           d == arrived[n]
       IN /\ taken' = n
          /\ buffer' = IF d.fault \/ d.len = 0 THEN buffer ELSE n
          /\ poll' = IF d.fault THEN 0 ELSE poll - 1
          /\ reported' = reported \o on_message(d, buffer')
    /\ control' = "listener"
    /\ UNCHANGED <<arrived, paused, reading, polled, closed>>

\* The poll ends when a listener stopped it, or when recvmsg has nothing left
\* to read, which on_message is told of and ignores.
Leave ==
    /\ control = "loop" /\ poll > 0
    /\ ~(polled /\ Buffered)
    /\ poll' = 0
    /\ UNCHANGED <<arrived, taken, buffer, paused, reading, polled, closed, control, reported>>

-----------------------------------------------------------------------------
(* The program *)

UserTurn ==
    /\ control = "loop" /\ poll = 0
    /\ control' = "turn"
    /\ UNCHANGED <<arrived, taken, buffer, paused, reading, polled, closed, poll, reported>>

Return ==
    /\ control # "loop"
    /\ control' = "loop"
    /\ UNCHANGED <<arrived, taken, buffer, paused, reading, polled, closed, poll, reported>>

\* Mutant: pause leaves READING set, so that resume finds nothing to do.
pauseReading ==
    /\ control # "loop"
    /\ paused' = TRUE
    /\ polled' = FALSE
    /\ UNCHANGED <<arrived, taken, buffer, reading, closed, poll, control, reported>>

\* Mutant: pause takes effect at the next poll.
pauseLazily ==
    /\ control # "loop"
    /\ paused' = TRUE
    /\ reading' = FALSE
    /\ polled' = (polled /\ poll > 0)
    /\ UNCHANGED <<arrived, taken, buffer, closed, poll, control, reported>>

\* A closed socket only remembers that it is paused: its handle is polled no more.
pause ==
    /\ control # "loop"
    /\ paused' = TRUE
    /\ reading' = FALSE /\ polled' = FALSE
    /\ UNCHANGED <<arrived, taken, buffer, closed, poll, control, reported>>

resume ==
    /\ control # "loop"
    /\ paused' = FALSE
    /\ \/ /\ closed \/ reading
          /\ UNCHANGED <<reading, polled>>
       \/ /\ ~closed /\ ~reading
          /\ reading' = TRUE /\ polled' = TRUE
    /\ UNCHANGED <<arrived, taken, buffer, closed, poll, control, reported>>

close ==
    /\ control # "loop" /\ ~closed
    /\ closed' = TRUE
    /\ reading' = FALSE /\ polled' = FALSE
    /\ UNCHANGED <<arrived, taken, buffer, paused, poll, control, reported>>

-----------------------------------------------------------------------------
Next ==
    \/ \E d \in Arrival : Arrive(d)
    \/ Poll \/ Receive \/ Leave
    \/ UserTurn \/ Return
    \/ pause \/ resume \/ close

Spec == Init /\ [][Next]_vars

(***************************************************************************)
(* The loop goes on, and polls the handle once per iteration, whatever     *)
(* turns the program takes in between; user code returns.  The program     *)
(* need not pause, resume or close, and nothing need arrive.               *)
(***************************************************************************)
FairSpec ==
    /\ Spec
    /\ SF_vars(Poll) /\ WF_vars(Receive) /\ WF_vars(Leave)
    /\ WF_vars(Return)

-----------------------------------------------------------------------------
(* Properties *)

\* The fields hold values of their kinds, and libuv reads no further than what
\* has arrived.
TypeOK ==
    /\ arrived \in Seq(Arrival)
    /\ taken \in 0..Len(arrived)
    /\ buffer \in Nat
    /\ {paused, reading, polled, closed} \subseteq BOOLEAN
    /\ poll \in 0..Burst
    /\ control \in {"loop", "listener", "turn"}
    /\ reported \in Seq(Event)

\* The bytes a message shows now: those of a copy stay, those of the buffer go.
Bytes(m) == IF m.bytes = Shared THEN buffer ELSE m.bytes

\* An event tells of the nth arrival: its length and bytes, of which an empty
\* datagram has none, or an error in place of what could not be read whole.
Tells(e, n) ==
    LET d == arrived[n] IN
    IF d.fault \/ d.len > ReadBufferSize THEN e.error
    ELSE ~e.error /\ e.len = d.len /\ (d.len > 0 => Bytes(e) = n)

\* Every datagram that was read gave one event, in the order of arrival, and
\* each message the program kept still holds the bytes of its own datagram, no
\* matter how many were read into the one buffer since or whether the listener
\* paused or closed the socket in the middle of a poll.
NothingLost ==
    /\ Len(reported) = taken
    /\ \A n \in DOMAIN reported : Tells(reported[n], n)

\* From pause() and close() on the program gets no datagram, be it the next of
\* the poll that called the listener which paused.
SilentWhenPaused == [][paused \/ closed => reported' = reported]_vars

\* What pausing held back is delivered after resume(), and everything else that
\* arrives, unless the program pauses again or closes the socket.
Delivered ==
    \A n \in 1..MaxArrivals :
        Len(arrived) >= n ~> Len(reported) >= n \/ paused \/ closed

=============================================================================
