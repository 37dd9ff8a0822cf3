----------------------------- MODULE MCSniProxy -----------------------------
(* The instance of SniProxy that TLC checks: two slots, four clients, and   *)
(* hosts that grant as much as the slots need, or less.                     *)
EXTENDS SniProxy

CONSTANTS c1, c2, c3, c4

FourConns == {c1, c2, c3, c4}

\* Four descriptors for each slot, one more, and hardly any.
Descriptors == {3, 8, 9}

\* Two threads for each slot, too few where a finished one is not gone yet,
\* and one more, too few where two are not.
ThreadCounts == {4, 5}
=============================================================================
