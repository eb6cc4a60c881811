--------------------------- MODULE SocketLifecycle ---------------------------
(***************************************************************************)
(* What a program may rely on of the four getters of a socket, whatever    *)
(* its calls, the lookups and the callbacks of the loop do in between:     *)
(* bound only turns true, connected is true of bound sockets alone, and a  *)
(* socket that closes is neither again.                                    *)
(***************************************************************************)
VARIABLES bound, connected, closing, closed

vars == <<bound, connected, closing, closed>>

Init == ~bound /\ ~connected /\ ~closing /\ ~closed

\* The bind of the program, or the one that connect, send or resume start.
Bind ==
    /\ ~bound /\ ~closing /\ ~closed
    /\ bound' = TRUE
    /\ UNCHANGED <<connected, closing, closed>>

Connect ==
    /\ bound /\ ~connected
    /\ connected' = TRUE
    /\ UNCHANGED <<bound, closing, closed>>

Disconnect ==
    /\ connected
    /\ connected' = FALSE
    /\ UNCHANGED <<bound, closing, closed>>

Close ==
    /\ ~closing /\ ~closed
    /\ closing' = TRUE
    /\ bound' = FALSE /\ connected' = FALSE
    /\ closed' = closed

Closed ==
    /\ closing
    /\ closing' = FALSE /\ closed' = TRUE
    /\ UNCHANGED <<bound, connected>>

Next == Bind \/ Connect \/ Disconnect \/ Close \/ Closed

Spec == Init /\ [][Next]_vars

=============================================================================
