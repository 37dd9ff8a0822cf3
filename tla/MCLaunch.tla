------------------------------ MODULE MCLaunch ------------------------------
(* The instances of Launch that TLC checks. *)
EXTENDS Launch

\* Every process may be killed.
AllFaults == {"parent", "child", "pasta", "proxy"}
=============================================================================
