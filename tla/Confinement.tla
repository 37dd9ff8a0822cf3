---------------------------- MODULE Confinement ----------------------------
(***************************************************************************)
(* What a filtered launch promises: the agent starts only in a namespace   *)
(* that was sealed before an uplink was attached to it and, where :443 is  *)
(* inspected, after the inspecting proxy was in place.  Nothing takes a    *)
(* seal away again.                                                        *)
(***************************************************************************)
CONSTANT NeedGuard  \* the launch has a proxy (a Boolean)

VARIABLES
    sealed,   \* the namespace has its output-drop filter
    linked,   \* an uplink was attached to it
    guarded,  \* the proxy was ready
    agent     \* "setup", "running" or "ended"

vars == <<sealed, linked, guarded, agent>>

Init == sealed = FALSE /\ linked = FALSE /\ guarded = FALSE /\ agent = "setup"

Seal ==
    /\ sealed' = TRUE
    /\ UNCHANGED <<linked, guarded, agent>>

\* The connection from outside comes after the seal.
Link ==
    /\ sealed /\ linked' = TRUE
    /\ UNCHANGED <<sealed, guarded, agent>>

\* The proxy reports only once it could reach its upstreams.
Guard ==
    /\ linked /\ guarded' = TRUE
    /\ UNCHANGED <<sealed, linked, agent>>

Start ==
    /\ agent = "setup"
    /\ sealed /\ linked /\ (NeedGuard => guarded)
    /\ agent' = "running"
    /\ UNCHANGED <<sealed, linked, guarded>>

End ==
    /\ agent' = "ended"
    /\ UNCHANGED <<sealed, linked, guarded>>

Next == Seal \/ Link \/ Guard \/ Start \/ End

Spec == Init /\ [][Next]_vars
=============================================================================
