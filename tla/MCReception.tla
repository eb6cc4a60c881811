----------------------------- MODULE MCReception -----------------------------
(***************************************************************************)
(* Constants of the run of Reception.                                      *)
(***************************************************************************)
EXTENDS Reception

\* Empty, just fitting, and one byte too long.
AroundTheBuffer == {0, ReadBufferSize, ReadBufferSize + 1}

=============================================================================
