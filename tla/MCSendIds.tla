------------------------------ MODULE MCSendIds ------------------------------
(***************************************************************************)
(* Constants of the run of SendIds.                                        *)
(***************************************************************************)
EXTENDS SendIds

\* As many ids as sends may be in flight, so that each wraps into its own.
Ids4 == 4

\* The ids wrap several times.
ThreeRounds == 3 * Ids4

=============================================================================
