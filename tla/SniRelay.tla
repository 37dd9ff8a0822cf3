------------------------------ MODULE SniRelay ------------------------------
(***************************************************************************)
(* One spliced connection of the SNI proxy: two threads, each copying one  *)
(* direction, that share a clock of the last activity.  A thread that      *)
(* reads nothing for a while (RELAY_IDLE_CHECK) looks at the shared clock  *)
(* and ends when it stands still for longer than RELAY_IDLE_LIMIT; a write *)
(* that makes no progress for as long as a check fails.                    *)
(*                                                                         *)
(* Clocks are ages in ticks of arbitrary length, capped just beyond the    *)
(* largest value they are compared with, so that time can go on for ever.  *)
(***************************************************************************)
EXTENDS Naturals

CONSTANTS
    Limit,    \* RELAY_IDLE_LIMIT, in ticks
    Check,    \* RELAY_IDLE_CHECK, in ticks
    MaxSend   \* units each side sends, at most

\* What the constants are; the module that uses this one assumes it.
Parameters ==
    /\ Check \in Nat \ {0} /\ Limit \in Nat /\ Limit >= Check
    /\ MaxSend \in Nat

Dirs == {"up", "down"}

VARIABLES
    pc,         \* of each direction's thread
    waited,     \* age of its current read or write
    age,        \* age of the shared clock `last`
    silence,    \* age of each direction's own last read
    avail,      \* units the source socket holds
    sent,       \* units the source's peer has sent
    eof,        \* the source's peer has closed its sending side
    stalled,    \* the destination's peer has stopped reading
    delivered,  \* units written to the destination
    ending      \* why the thread left its loop

peerVars == <<sent, eof, stalled>>
vars == <<pc, waited, age, silence, avail, delivered, ending, peerVars>>

Set(f, d, x) == [f EXCEPT ![d] = x]

Init ==
    /\ pc = [d \in Dirs |-> "read"] /\ waited = [d \in Dirs |-> 0]
    /\ age = 0 /\ silence = [d \in Dirs |-> 0]
    /\ avail = [d \in Dirs |-> 0] /\ sent = [d \in Dirs |-> 0]
    /\ delivered = [d \in Dirs |-> 0]
    /\ eof = [d \in Dirs |-> FALSE] /\ stalled = [d \in Dirs |-> FALSE]
    /\ ending = [d \in Dirs |-> "none"]

-----------------------------------------------------------------------------
(* The two peers.                                                          *)

Send(d) ==
    /\ ~eof[d] /\ sent[d] < MaxSend
    /\ sent' = Set(sent, d, sent[d] + 1)
    /\ avail' = Set(avail, d, avail[d] + 1)
    /\ UNCHANGED <<pc, waited, age, silence, delivered, ending, eof, stalled>>

SendEof(d) ==
    /\ ~eof[d]
    /\ eof' = Set(eof, d, TRUE)
    /\ UNCHANGED <<pc, waited, age, silence, avail, delivered, ending, sent, stalled>>

StopReading(d) ==
    /\ ~stalled[d]
    /\ stalled' = Set(stalled, d, TRUE)
    /\ UNCHANGED <<pc, waited, age, silence, avail, delivered, ending, sent, eof>>

-----------------------------------------------------------------------------
(* The thread of direction d.                                              *)

Leave(d, why) ==
    /\ pc' = Set(pc, d, "ended") /\ ending' = Set(ending, d, why)

Begin(d, what) ==
    /\ pc' = Set(pc, d, what) /\ waited' = Set(waited, d, 0)

\* Mutant: only the client's direction refreshes the shared clock.
Touched_OneSided(d) == IF d = "up" THEN 0 ELSE age

\* The shared clock after a read of direction d.
Touched(d) == 0

\* A read that returns bytes refreshes the clock both threads look at.
Read(d) ==
    /\ pc[d] = "read" /\ avail[d] > 0
    /\ avail' = Set(avail, d, avail[d] - 1)
    /\ age' = Touched(d) /\ silence' = Set(silence, d, 0)
    /\ Begin(d, "write")
    /\ UNCHANGED <<delivered, ending, peerVars>>

ReadEof(d) ==
    /\ pc[d] = "read" /\ avail[d] = 0 /\ eof[d]
    /\ Leave(d, "eof")
    /\ UNCHANGED <<waited, age, silence, avail, delivered, peerVars>>

\* The read timed out: end if the connection has been idle past the limit.
ReadTimeout(d) ==
    /\ pc[d] = "read" /\ avail[d] = 0 /\ ~eof[d] /\ waited[d] >= Check
    /\ \/ age > Limit /\ Leave(d, "idle") /\ UNCHANGED waited
       \/ age <= Limit /\ Begin(d, "read") /\ UNCHANGED ending
    /\ UNCHANGED <<age, silence, avail, delivered, peerVars>>

Write(d) ==
    /\ pc[d] = "write" /\ ~stalled[d]
    /\ delivered' = Set(delivered, d, delivered[d] + 1)
    /\ Begin(d, "read")
    /\ UNCHANGED <<ending, age, silence, avail, peerVars>>

\* Mutant: the write side has no timeout.
WriteExpired_Never(d) == FALSE

\* The write timeout set on the destination.
WriteExpired(d) == stalled[d] /\ waited[d] >= Check

WriteTimeout(d) ==
    /\ pc[d] = "write" /\ WriteExpired(d)
    /\ Leave(d, "write")
    /\ UNCHANGED <<waited, age, silence, avail, delivered, peerVars>>

\* A connection that was reset: the read or the write fails.
Fails(d) ==
    /\ pc[d] # "ended"
    /\ Leave(d, "error")
    /\ UNCHANGED <<waited, age, silence, avail, delivered, peerVars>>

Pipe(d) == Read(d) \/ ReadEof(d) \/ ReadTimeout(d) \/ Write(d) \/ WriteTimeout(d)

-----------------------------------------------------------------------------
(* Time.  It does not run past a thread that has something to do.          *)

Grow(x, cap) == IF x < cap THEN x + 1 ELSE x

Tick ==
    /\ \A d \in Dirs : pc[d] # "ended" => waited[d] < Check
    /\ waited' = [d \in Dirs |-> Grow(waited[d], Check)]
    /\ age' = Grow(age, Limit + 1)
    /\ silence' = [d \in Dirs |-> Grow(silence[d], Limit + 1)]
    /\ UNCHANGED <<pc, avail, delivered, ending, peerVars>>

Next == Tick \/ \E d \in Dirs : Pipe(d) \/ Fails(d) \/ Send(d) \/ SendEof(d) \/ StopReading(d)

Spec == Init /\ [][Next]_vars

-----------------------------------------------------------------------------
TypeOK ==
    /\ pc \in [Dirs -> {"read", "write", "ended"}]
    /\ waited \in [Dirs -> 0..Check]
    /\ age \in 0..(Limit + 1) /\ silence \in [Dirs -> 0..(Limit + 1)]
    /\ avail \in [Dirs -> Nat] /\ sent \in [Dirs -> Nat] /\ delivered \in [Dirs -> Nat]
    /\ eof \in [Dirs -> BOOLEAN] /\ stalled \in [Dirs -> BOOLEAN]
    /\ ending \in [Dirs -> {"none", "eof", "idle", "write", "error"}]

\* sni_proxy.rs:526: a direction is closed for idleness only when both have
\* been silent past the limit, so a one-way stream is never cut.
ClosesOnlyIdle ==
    [][\A d \in Dirs : ending'[d] = "idle" /\ ending[d] # "idle" =>
            \A e \in Dirs : silence[e] > Limit]_vars

\* A direction that ended with its source's end of file has passed on
\* everything the source sent.
EofAfterAll == \A d \in Dirs : ending[d] = "eof" => delivered[d] = sent[d]

=============================================================================
