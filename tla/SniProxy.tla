------------------------------ MODULE SniProxy ------------------------------
(***************************************************************************)
(* The accept loop of the SNI proxy and the life of the connections it     *)
(* serves, from the start of its process (the module SelfSandbox): one     *)
(* acceptor thread, one handler thread per connection, and one more thread *)
(* per spliced connection.  The cap on connections is a shared counter     *)
(* that the acceptor increments before its check and a handler decrements  *)
(* after its sockets are closed.                                           *)
(*                                                                         *)
(* Descriptors and threads are counted: beyond its limits the kernel       *)
(* refuses one or the other, and a thread that cannot be spawned panics,   *)
(* which ends the whole process (panic = "abort"), as the filter does when *)
(* a thread makes a call that is not on its list.  A thread is one of the  *)
(* process until the kernel has done with it, which is after its last step *)
(* in the code: its slot is free before it is gone.                        *)
(***************************************************************************)
EXTENDS SelfSandbox, FiniteSets

CONSTANTS
    Conns,         \* the connections clients make
    MaxConns,      \* MAX_CONNS
    FdLimits,      \* descriptors a process may have open for connections
    ThreadLimits   \* threads it may have besides the acceptor

ASSUME ProxyAssumption ==
    /\ IsFiniteSet(Conns)
    /\ MaxConns \in Nat \ {0}
    /\ FdLimits \subseteq Nat /\ ThreadLimits \subseteq Nat

VARIABLES
    apc,     \* the acceptor: "accept", "check", "undo" or "spawn"
    held,    \* the connections (one or none) in the acceptor's hands
    active,  \* the shared counter
    conn,    \* the life of each connection
    leaving, \* the threads past their last step that are not gone yet
    dead,    \* the process has aborted
    limits   \* what the host grants the process: [fds, threads]

loopVars == <<apc, held, active, conn, leaving, dead, limits>>
vars == <<loopVars, startVars>>

\* A connection is in "relay" while both its pipes run, in "half" when the
\* pipe of the second thread is over, and in "joining" when the handler's is.
Phases == {"idle", "backlog", "accepted", "peek", "dial", "replay", "splice", "relay",
           "half", "joining", "ending", "closed", "refused"}

\* The phases in which a handler thread exists; in "ending" handle() has
\* returned, its sockets are closed, and the decrement is still to come.
Handled == {"peek", "dial", "replay", "splice", "relay", "half", "joining", "ending"}
Serving == Handled \ {"ending"}

In(phases) == {c \in Conns : conn[c] \in phases}

\* The client's socket; upstream's; and the clones of both, of which each
\* pipe closes two.
Fds ==
    Cardinality(In({"accepted", "peek", "dial"}))
      + 2 * Cardinality(In({"replay", "splice", "half", "joining"}))
      + 4 * Cardinality(In({"relay"}))

\* The phases in which the second thread of a connection runs.
Paired == {"relay", "joining"}

Threads == Cardinality(In(Handled)) + Cardinality(In(Paired)) + leaving

Init ==
    /\ StartInit
    /\ apc = "accept" /\ held = {} /\ active = 0
    /\ conn = [c \in Conns |-> "idle"]
    /\ leaving = 0 /\ dead = FALSE
    /\ limits \in [fds : FdLimits, threads : ThreadLimits]

Piping == {"setsockopt", "recvfrom", "sendto", "futex", "clock_gettime", "shutdown", "close"}

\* What the threads call in each phase, the acceptor's included.
Calls ==
    [accept |-> {"accept4"}, spawn |-> {"mmap", "mprotect", "rt_sigprocmask", "clone"},
     peek |-> {"clock_gettime", "setsockopt", "recvfrom"},
     dial |-> {"socket_inet", "setsockopt", "connect", "poll", "getsockopt", "ioctl"},
     replay |-> {"sendto"}, splice |-> {"fcntl", "clock_gettime", "mmap", "mprotect", "clone"},
     relay |-> Piping, half |-> Piping, joining |-> Piping,
     ending |-> {"close"}, leaving |-> {"sigaltstack", "munmap", "exit"}]

Move(c, to) == conn' = [conn EXCEPT ![c] = to]

Connect(c) ==
    /\ conn[c] = "idle" /\ up = "serving"
    /\ Move(c, IF dead THEN "refused" ELSE "backlog")
    /\ UNCHANGED <<apc, held, active, leaving, dead, limits, startVars>>

\* The process aborts: the kernel closes everything it had.
Abort ==
    /\ dead' = TRUE
    /\ conn' = [c \in Conns |->
                    IF conn[c] \in {"idle", "closed", "refused"} THEN conn[c] ELSE "refused"]
    /\ apc' = "accept" /\ held' = {} /\ active' = 0 /\ leaving' = 0
    /\ UNCHANGED <<limits, startVars>>

-----------------------------------------------------------------------------
(* The acceptor.                                                           *)

\* Mutant: the acceptor waits for a slot instead of accepting and closing.
MayAccept_Slot == Fds < limits.fds /\ active < MaxConns

\* Without a free descriptor accept fails and the loop tries again.
MayAccept == Fds < limits.fds

Accept(c) ==
    /\ ~dead /\ apc = "accept" /\ conn[c] = "backlog" /\ MayAccept
    /\ IF Permits(Calls.accept)
       THEN /\ Move(c, "accepted")
            /\ held' = {c} /\ apc' = "check"
            /\ UNCHANGED <<active, leaving, dead, limits, startVars>>
       ELSE Abort

\* Mutant: one connection more than the cap.
Full_OffByOne == active > MaxConns

Full == active >= MaxConns

\* fetch_add, whose old value is compared with the cap.
Check ==
    /\ ~dead /\ apc = "check"
    /\ active' = active + 1
    /\ apc' = IF Full THEN "undo" ELSE "spawn"
    /\ UNCHANGED <<held, conn, leaving, dead, limits, startVars>>

\* Mutant: the count of a refused connection is not taken back.
Uncounted_Forgotten == active

Uncounted == active - 1

Undo(c) ==
    /\ ~dead /\ apc = "undo" /\ c \in held
    /\ active' = Uncounted
    /\ Move(c, "refused")
    /\ held' = {} /\ apc' = "accept"
    /\ UNCHANGED <<leaving, dead, limits, startVars>>

Spawn(c) ==
    /\ ~dead /\ apc = "spawn" /\ c \in held
    /\ IF Threads < limits.threads /\ Permits(Calls.spawn)
       THEN /\ Move(c, "peek")
            /\ held' = {} /\ apc' = "accept"
            /\ UNCHANGED <<active, leaving, dead, limits, startVars>>
       ELSE Abort

Acceptor == Check \/ \E c \in Conns : Accept(c) \/ Undo(c) \/ Spawn(c)

-----------------------------------------------------------------------------
(* The handler of a connection.                                            *)

\* A phase is over, and with it so many (none or one) of the connection's
\* threads.
Advance(c, from, to, over) ==
    /\ ~dead /\ conn[c] = from
    /\ IF Permits(Calls[from])
       THEN /\ Move(c, to) /\ leaving' = leaving + over
            /\ UNCHANGED <<apc, held, active, dead, limits, startVars>>
       ELSE Abort

\* A complete ClientHello with an allowlisted name.
Peeked(c) == Advance(c, "peek", "dial", 0)

\* A connected socket, if there is a descriptor for one, with the mark that
\* CAP_NET_ADMIN lets the proxy set.
Dialled(c) == Fds < limits.fds /\ "net_admin" \in proc.eff /\ Advance(c, "dial", "replay", 0)

Replayed(c) == Advance(c, "replay", "splice", 0)

\* Two try_clones and the second pipe's thread.
Spliced(c) ==
    /\ ~dead /\ conn[c] = "splice"
    /\ Fds + 2 <= limits.fds
    /\ IF Threads < limits.threads /\ Permits(Calls.splice)
       THEN /\ Move(c, "relay")
            /\ UNCHANGED <<apc, held, active, leaving, dead, limits, startVars>>
       ELSE Abort

\* Mutant: the peek has no deadline.
EarlyReturns_NoPeekDeadline == {"dial", "replay", "splice"}

EarlyReturns == {"peek", "dial", "replay", "splice"}

\* No ClientHello within the deadline, a name not allowlisted, no upstream,
\* a failed replay or clone: every early return closes the connection.
GivesUp(c) ==
    \E from \in EarlyReturns : Advance(c, from, "ending", 0)

\* One direction is over (the module SniRelay), the upstream's, which the
\* second thread serves, or the client's.
SecondOver(c) == Advance(c, "relay", "half", 1)

OwnOver(c) == Advance(c, "relay", "joining", 0)

\* The other is, and the join returns: it may return before the kernel has
\* done with the thread joined.
RelayOver(c) == Advance(c, "half", "ending", 0) \/ Advance(c, "joining", "ending", 1)

\* fetch_sub, the last step of the handler's closure.
Release(c) ==
    /\ ~dead /\ conn[c] = "ending"
    /\ IF Permits(Calls.ending)
       THEN /\ active' = active - 1 /\ leaving' = leaving + 1
            /\ Move(c, "closed")
            /\ UNCHANGED <<apc, held, dead, limits, startVars>>
       ELSE Abort

\* A thread that has nothing left to do unmaps its stack and exits.
ThreadGone ==
    /\ ~dead /\ leaving > 0
    /\ IF Permits(Calls.leaving)
       THEN leaving' = leaving - 1 /\ UNCHANGED <<apc, held, active, conn, dead, limits, startVars>>
       ELSE Abort

\* What the handler does of itself; a hello and a connect that succeed in
\* time are the doing of the two peers.
Handler(c) == Replayed(c) \/ Spliced(c) \/ GivesUp(c) \/ Release(c)

Peers(c) == Peeked(c) \/ Dialled(c) \/ SecondOver(c) \/ OwnOver(c) \/ RelayOver(c)

-----------------------------------------------------------------------------
Next ==
    \/ (Start \/ StartFails) /\ UNCHANGED loopVars
    \/ Acceptor
    \/ ThreadGone
    \/ \E c \in Conns : Connect(c) \/ Handler(c) \/ Peers(c)

Spec == Init /\ [][Next]_vars

\* Threads run whenever they can, the peers need not.  The peek and the
\* dials have deadlines whose expiry is GivesUp, the replay a socket that
\* takes a hello of its size (the module Connection says when it does not);
\* nothing ends a relay whose two sides keep talking, and nothing here
\* depends on how soon a finished thread is gone.
FairSpec ==
    Spec /\ WF_vars(Start /\ UNCHANGED loopVars) /\ WF_vars(Acceptor)
         /\ \A c \in Conns : WF_vars(Handler(c))

-----------------------------------------------------------------------------
TypeOK ==
    /\ StartTypeOK
    /\ apc \in {"accept", "check", "undo", "spawn"}
    /\ held \subseteq Conns
    /\ active \in Nat /\ leaving \in Nat /\ conn \in [Conns -> Phases] /\ dead \in BOOLEAN
    /\ limits \in [fds : FdLimits, threads : ThreadLimits]

\* Never more than MAX_CONNS connections are being served.
CapHeld == Cardinality(In(Serving)) <= MaxConns

\* The counter is exactly the handlers that have not given their slot back,
\* plus the connection the acceptor is counting: no early return of handle()
\* loses a slot or frees one twice.
CountExact ==
    active = Cardinality(In(Handled)) + IF apc \in {"undo", "spawn"} THEN 1 ELSE 0

\* sni_proxy.rs:86, "a flood must not exhaust the proxy": it aborts only for
\* lack of a thread, on a host that does not grant two for each slot and one
\* for each thread whose slot is free again, or whose pipe is joined, and
\* that is not gone yet.  Two for each slot are not enough.
Survives == [][dead' /\ ~dead => limits.threads < 2 * MaxConns + leaving]_vars

\* A connection in the backlog is taken up, even with every slot busy, where
\* there is one descriptor more than the four that each slot needs.
BacklogServed ==
    \A c \in Conns :
        conn[c] = "backlog" /\ limits.fds > 4 * MaxConns ~> conn[c] # "backlog"

\* A handler splices its connection or gives its slot back: a client that
\* sends nothing holds no slot for ever.
SlotReturned ==
    \A c \in Conns : conn[c] = "peek" ~> conn[c] \in {"relay", "closed", "refused"}
=============================================================================
