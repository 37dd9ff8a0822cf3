------------------------------ MODULE PtyRelay ------------------------------
(***************************************************************************)
(* The relay loop of pty.rs between the host's stdin/stdout and the pty of *)
(* the agent.  Output is a sequence of units, numbered as the agent prints *)
(* them, of which one read(2) takes at most ReadMax (a pty gives 4095      *)
(* bytes to the 8192-byte buffer).  Input is a sequence of reads of stdin; *)
(* a read either ends in a newline ("line") or not ("part").               *)
(*                                                                         *)
(* The pty itself is the kernel's: a line discipline in canonical mode,    *)
(* which hands text to the reader only once a newline or ^D commits it,    *)
(* and two bounded buffers that block their writer when full.  The relay   *)
(* is one thread: blocked on a full input queue it does not read the       *)
(* output, and an agent blocked on that does not read its input.  poll(2), *)
(* the kernel's too, reports POLLHUP alone on a pipe nobody writes to any  *)
(* more, and POLLIN on a file or /dev/null at its end.                     *)
(***************************************************************************)
EXTENDS Integers, Sequences

CONSTANTS
    Input,       \* what the host's stdin holds before its end of file
    Banner,      \* units the agent may print before it reads anything
    Gain,        \* units the agent prints for each text it reads
    ReadMax,     \* units one read of the master takes
    InCap,       \* texts the pty holds for the agent
    OutCap,      \* units the pty holds for the relay
    StdoutFails, \* the host's stdout may be closed
    StdinPipe    \* the host's stdin is a pipe, not a file

ASSUME RelayAssumption ==
    /\ Input \in Seq({"line", "part"})
    /\ Banner \in Nat /\ Gain \in Nat
    /\ ReadMax \in Nat \ {0} /\ InCap \in Nat \ {0} /\ OutCap \in Nat \ {0}
    /\ StdoutFails \in BOOLEAN /\ StdinPipe \in BOOLEAN

VARIABLES
    pc,         \* where the relay is in its loop
    revents,    \* what the last poll reported
    stdinOpen,  \* stdin is still polled
    host,       \* the reads of stdin still to come
    chunk,      \* the read of stdin in hand
    hand,       \* what is left to write of the last read of the master
    lastRead,   \* size of the last read of the master
    delivered,  \* what was written to stdout, from the first unit on
    out,        \* what the pty holds for the relay
    inq,        \* committed input in the pty, for the agent
    partial,    \* the pty holds text no newline has committed
    agent,      \* "running", or "closed": no slave side is open
    owed,       \* units the agent will print before its next read
    produced,   \* units the agent has printed
    sawEof      \* the agent read an end of file

outVars == <<hand, lastRead, delivered, out, produced>>
inVars == <<stdinOpen, host, chunk, inq, partial, sawEof>>
vars == <<pc, revents, outVars, inVars, agent, owed>>

Ended == {"done", "error"}

Init ==
    /\ pc = "poll" /\ revents = {} /\ stdinOpen = TRUE
    /\ host = Input /\ chunk = "none"
    /\ hand = <<>> /\ lastRead = 0 /\ delivered = <<>>
    /\ out = <<>> /\ inq = <<>> /\ partial = FALSE
    /\ agent = "running" /\ owed \in 0..Banner /\ produced = 0 /\ sawEof = FALSE

-----------------------------------------------------------------------------
(* The pty.                                                                *)

Room == Len(inq) < InCap

\* A newline commits the line; text without one waits in the discipline.
Accept(c) ==
    /\ inq' = IF c = "line" THEN Append(inq, "text") ELSE inq
    /\ partial' = (c = "part")

\* ^D commits the unfinished line, or reads as end of file when there is none.
AcceptEofChar ==
    /\ inq' = Append(inq, IF partial THEN "text" ELSE "eof")
    /\ partial' = FALSE

-----------------------------------------------------------------------------
(* The relay.                                                              *)

Events == {"in", "hup", "stdin", "stdinHup"}

\* Mutant: after the end of stdin the master is the one no longer polled.
Ready_WrongFd ==
    {e \in Events :
        \/ e = "in" /\ out # <<>> /\ stdinOpen
        \/ e = "hup" /\ agent = "closed" /\ stdinOpen
        \/ e = "stdin" /\ (host # <<>> \/ ~StdinPipe)
        \/ e = "stdinHup" /\ host = <<>> /\ StdinPipe}

Ready ==
    {e \in Events :
        \/ e = "in" /\ out # <<>>
        \/ e = "hup" /\ agent = "closed"
        \/ e = "stdin" /\ stdinOpen /\ (host # <<>> \/ ~StdinPipe)
        \/ e = "stdinHup" /\ stdinOpen /\ host = <<>> /\ StdinPipe}

\* The host may be slow to write, or to close, its stdin.
Poll ==
    /\ pc = "poll" /\ pc' = "master"
    /\ revents' \in {Ready, Ready \ {"stdin", "stdinHup"}} /\ revents' # {}
    /\ UNCHANGED <<outVars, inVars, agent, owed>>

\* Mutant: what a hung-up pty still holds is not read.
Drains_AfterHup == "in" \in revents /\ "hup" \notin revents

Drains == "in" \in revents

\* What one read takes; it may be short while the agent is printing.
Takes(n) ==
    /\ n \in 1..ReadMax /\ n <= Len(out)
    /\ agent = "closed" => n = Len(out) \/ n = ReadMax

\* One read of what the pty has, if the poll saw any.  Only the relay reads
\* the master, so the read finds what the poll saw: never EOF or EIO.
ReadMaster ==
    /\ pc = "master"
    /\ \/ /\ Drains
          /\ \E n \in 1..OutCap :
                /\ Takes(n) /\ lastRead' = n
                /\ hand' = SubSeq(out, 1, n) /\ out' = SubSeq(out, n + 1, Len(out))
          /\ pc' = "stdout"
       \/ ~Drains /\ pc' = "stdin" /\ UNCHANGED <<hand, lastRead, out>>
    /\ UNCHANGED <<revents, delivered, produced, inVars, agent, owed>>

\* Mutant: what a short write leaves is forgotten (write for write_all).
Rest_Dropped(n) == <<>>

Rest(n) == SubSeq(hand, n + 1, Len(hand))

\* One write of write_all to stdout, which may take less than it is given;
\* the loop goes on with the rest.  An error ends the relay.
WriteStdout ==
    /\ pc = "stdout"
    /\ \/ \E n \in 1..Len(hand) :
             /\ delivered' = delivered \o SubSeq(hand, 1, n)
             /\ hand' = Rest(n)
             /\ pc' = IF hand' = <<>> THEN "stdin" ELSE "stdout"
       \/ StdoutFails /\ pc' = "error" /\ UNCHANGED <<delivered, hand>>
    /\ UNCHANGED <<revents, lastRead, out, produced, inVars, agent, owed>>

\* Mutant: end of file on stdin ends the relay.
AfterEof_Ends == "done"
\* Mutant: end of file is not passed on.
AfterEof_Silent == "hup"

AfterEof == "eofChar"

\* One read of stdin, if the poll saw any: a chunk, or end of file.
ReadStdin ==
    /\ pc = "stdin"
    /\ \/ "stdin" \notin revents /\ pc' = "hup" /\ UNCHANGED <<host, chunk, stdinOpen>>
       \/ /\ "stdin" \in revents /\ host = <<>>
          /\ stdinOpen' = FALSE /\ pc' = AfterEof
          /\ UNCHANGED <<host, chunk>>
       \/ /\ "stdin" \in revents /\ host # <<>>
          /\ chunk' = Head(host) /\ host' = Tail(host) /\ pc' = "feed"
          /\ UNCHANGED stdinOpen
    /\ UNCHANGED <<revents, outVars, inq, partial, sawEof, agent, owed>>

\* write_all to the master: blocks while the pty is full, and fails with
\* EIO, which ends the relay, once no slave side is open.
Feed ==
    /\ pc = "feed"
    /\ \/ agent = "running" /\ Room /\ Accept(chunk) /\ pc' = "hup"
       \/ agent = "closed" /\ pc' = "error" /\ UNCHANGED <<inq, partial>>
    /\ UNCHANGED <<revents, outVars, stdinOpen, host, chunk, sawEof, agent, owed>>

\* The ^D that stands for the end of file; its write error is ignored.
WriteEofChar ==
    /\ pc = "eofChar" /\ pc' = "hup"
    /\ \/ agent = "running" /\ Room /\ AcceptEofChar
       \/ agent = "closed" /\ UNCHANGED <<inq, partial>>
    /\ UNCHANGED <<revents, outVars, stdinOpen, host, chunk, sawEof, agent, owed>>

\* Mutant: hang-up does not end the loop.
HungUp_Never == FALSE

HungUp == "hup" \in revents

\* The hang-up the poll reported ends the loop.
CheckHup ==
    /\ pc = "hup"
    /\ pc' = IF HungUp THEN "done" ELSE "poll"
    /\ UNCHANGED <<revents, outVars, inVars, agent, owed>>

Relay ==
    \/ Poll \/ ReadMaster \/ WriteStdout \/ ReadStdin \/ Feed
    \/ WriteEofChar \/ CheckHup

-----------------------------------------------------------------------------
(* The agent: it prints what it owes, then reads.                          *)

AgentWrites ==
    /\ agent = "running" /\ owed > 0 /\ Len(out) < OutCap
    /\ out' = Append(out, produced + 1) /\ owed' = owed - 1 /\ produced' = produced + 1
    /\ UNCHANGED <<pc, revents, hand, lastRead, delivered, inVars, agent>>

AgentReads ==
    /\ agent = "running" /\ owed = 0 /\ inq # <<>>
    /\ inq' = Tail(inq)
    /\ \/ Head(inq) = "text" /\ owed' = Gain /\ UNCHANGED sawEof
       \/ Head(inq) = "eof" /\ sawEof' = TRUE /\ UNCHANGED owed
    /\ UNCHANGED <<pc, revents, outVars, stdinOpen, host, chunk, partial, agent>>

\* The agent ends, whatever it was doing; the pty keeps what was printed.
AgentCloses ==
    /\ agent = "running" /\ agent' = "closed"
    /\ UNCHANGED <<pc, revents, outVars, inVars, owed>>

Next == Relay \/ AgentWrites \/ AgentReads \/ AgentCloses

Spec == Init /\ [][Next]_vars

\* The relay and the agent run whenever they can.  The agent need not end.
FairSpec == Spec /\ WF_vars(Relay) /\ WF_vars(AgentWrites \/ AgentReads)

-----------------------------------------------------------------------------
(* Properties.                                                             *)

TypeOK ==
    /\ pc \in {"poll", "master", "stdout", "stdin", "feed", "eofChar", "hup"} \cup Ended
    /\ revents \subseteq Events
    /\ stdinOpen \in BOOLEAN /\ partial \in BOOLEAN /\ sawEof \in BOOLEAN
    /\ host \in Seq({"line", "part"}) /\ inq \in Seq({"text", "eof"})
    /\ Len(inq) <= InCap
    /\ chunk \in {"none", "line", "part"}
    /\ hand \in Seq(Nat) /\ out \in Seq(Nat) /\ delivered \in Seq(Nat)
    /\ Len(hand) <= ReadMax /\ lastRead \in 0..ReadMax /\ Len(out) <= OutCap
    /\ owed \in Nat /\ produced \in Nat
    /\ agent \in {"running", "closed"}

\* The loop ends normally only after the agent's side is closed: the end of
\* stdin, however early, never ends it (pty.rs:245).
RelayOutlivesStdin == pc = "done" => agent = "closed"

\* Output left behind by a normal end is what did not fit the last read of a
\* hung-up pty: an end with a backlog of at most one read loses nothing.
LossOnlyBeyondOneRead == pc = "done" /\ out # <<>> => lastRead = ReadMax

Printed == [i \in 1..produced |-> i]

\* What the agent printed is on stdout, in the relay's hand between its read
\* and the end of its write_all, or in the pty, in the order of printing,
\* nothing lost and nothing twice, whatever a read takes and a write leaves.
Conserved == delivered \o hand \o out = Printed

\* pty.rs:246, "the child's output still has to drain": after a normal end
\* everything the agent printed has reached stdout.
OutputDrained == pc = "done" => delivered = Printed

\* The relay ends once the agent's side is closed, with output and input
\* pending or not.
RelayEnds == agent = "closed" ~> pc \in Ended

\* The relay waits for the agent to read, and the agent for the relay to.
Stuck ==
    /\ pc \in {"feed", "eofChar"} /\ ~Room
    /\ agent = "running" /\ owed > 0 /\ Len(out) = OutCap

\* pty.rs:284, "deliver EOF to the child": the end of the host's stdin
\* reaches an agent that keeps reading, but for the mutual wait.
EofDelivered == ~stdinOpen ~> sawEof \/ agent = "closed" \/ pc \in Ended \/ Stuck

\* The same, from the moment poll(2) has told the relay of the end.
EndNoticed == "stdinHup" \in revents ~> sawEof \/ agent = "closed" \/ pc \in Ended \/ Stuck

\* pty.rs:247, "keep relaying master->stdout until the master closes":
\* whatever the agent prints reaches stdout unless the relay has ended, or
\* input that the pty does not hold has made the two wait for each other.
KeepsRelaying ==
    \A n \in 1..(Banner + Gain * Len(Input)) :
        produced >= n ~> Len(delivered) >= n \/ pc \in Ended \/ Stuck
=============================================================================
