---------------------------- MODULE MCDgramSocket ----------------------------
(***************************************************************************)
(* Constants of the runs of DgramSocket: what the program calls.           *)
(***************************************************************************)
EXTENDS DgramSocketRefinement, DgramSocketInv

AllCalls ==
    {"bind", "connect", "disconnect", "send", "pause", "resume", "close",
     "setOption", "ref", "ipcAccept", "teardown"}

\* Without resume, whose queued function may reach a closing handle.
CallsButResume == AllCalls \ {"resume"}

\* The calls whose effects outlive them, which something must end.
LastingCalls == {"bind", "connect", "disconnect", "send", "close"}

BindAndSend == {"bind", "send", "close"}

BindAndResume == {"bind", "send", "resume", "close"}

=============================================================================
