----------------------------- MODULE Connection -----------------------------
(***************************************************************************)
(* One connection of the SNI proxy from its first byte to its end: the     *)
(* handler reads until it has a ClientHello, looks its name up, dials one  *)
(* of the addresses the name was resolved to at launch, sends on what it   *)
(* had read, and splices the two sockets (the module SniRelay).            *)
(***************************************************************************)
EXTENDS ClientHello

CONSTANTS
    MaxPeekReads,  \* MAX_PEEK_READS
    Chunk,         \* the size of one read, 4096 in the code
    SendBuffer,    \* what a fresh upstream socket takes without its peer
    Allow,         \* cfg.allow: from names to sequences of addresses
    Streams,       \* what a client may send before it is answered
    Limit, Check, MaxSend  \* see SniRelay

VARIABLES
    phase,     \* "scan", "read", "lookup", "dial", "replay", "splice", "relay", "closed"
    cause,     \* why it was closed
    stream,    \* the client's first bytes, all that it sends before the relay
    buf,       \* buf of peek_sni: what was read of them
    reads,     \* reads of peek_sni: how many it made
    sni,       \* the name that was found
    tried,     \* while dialling: addresses that did not answer
    replayed   \* what upstream was sent before the relay

VARIABLES pc, waited, age, silence, avail, sent, eof, stalled, delivered, ending

Relay == INSTANCE SniRelay

\* The hellos of which a stream has a byte.
HellosIn(s) == {s[i][2] : i \in {i \in DOMAIN s : s[i][1] = "body"}}

ASSUME ConnectionAssumption ==
    /\ MaxPeekReads \in Nat /\ Chunk \in Nat \ {0} /\ SendBuffer \in Nat
    /\ \A s \in Streams :
          /\ IsSequence(s) /\ HellosIn(s) \subseteq DOMAIN Hellos
          /\ \A i \in DOMAIN s : s[i][1] = "hs" => s[i][3] \in Nat
    /\ \A name \in DOMAIN Allow : Len(Allow[name]) \in Nat \ {0}
    /\ Relay!Parameters

relayVars == <<pc, waited, age, silence, avail, delivered, ending, sent, eof, stalled>>
peekVars == <<stream, buf, reads>>
vars == <<phase, cause, peekVars, sni, tried, replayed, relayVars>>

Init ==
    /\ phase = "scan" /\ cause = "none"
    /\ stream \in Streams
    /\ buf = <<>> /\ reads = 0 /\ sni = NoName /\ tried = 0 /\ replayed = <<>>
    /\ Relay!Init

Close(why) == phase' = "closed" /\ cause' = why
GoTo(p) == phase' = p /\ UNCHANGED cause

-----------------------------------------------------------------------------
(* peek_sni.                                                               *)

\* One read more would be one too many.
Exhausted == reads + 1 > MaxPeekReads

ScanBuffer ==
    /\ phase = "scan"
    /\ LET scan == Scan(buf) IN
       \/ /\ scan.verdict = "done" /\ scan.name # NoName
          /\ sni' = scan.name /\ reads' = 0 /\ GoTo("lookup")
       \/ /\ scan.verdict = "done" /\ scan.name = NoName
          /\ Close("nameless") /\ UNCHANGED <<reads, sni>>
       \/ /\ scan.verdict = "invalid"
          /\ Close("invalid") /\ UNCHANGED <<reads, sni>>
       \/ /\ scan.verdict = "incomplete" /\ (Len(buf) >= MaxPeek \/ Exhausted)
          /\ Close("exhausted") /\ UNCHANGED <<reads, sni>>
       \/ /\ scan.verdict = "incomplete" /\ Len(buf) < MaxPeek /\ ~Exhausted
          /\ reads' = reads + 1 /\ GoTo("read") /\ UNCHANGED sni
    /\ UNCHANGED <<stream, buf, tried, replayed, relayVars>>

\* A read returns some of what the client has sent.
ReadSome ==
    /\ phase = "read"
    /\ \E n \in 1..Min({MaxPeek - Len(buf), Chunk, Len(stream) - Len(buf)}) :
          buf' = SubSeq(stream, 1, Len(buf) + n)
    /\ GoTo("scan")
    /\ UNCHANGED <<stream, reads, sni, tried, replayed, relayVars>>

ReadEof ==
    /\ phase = "read" /\ buf = stream /\ eof["up"]
    /\ Close("eof")
    /\ UNCHANGED <<peekVars, sni, tried, replayed, relayVars>>

\* The deadline has passed, or the client's connection was reset.
ReadFails ==
    /\ phase = "read"
    /\ Close("late")
    /\ UNCHANGED <<peekVars, sni, tried, replayed, relayVars>>

-----------------------------------------------------------------------------
(* handle, after the peek.                                                 *)

Lookup ==
    /\ phase = "lookup"
    /\ IF sni \in DOMAIN Allow THEN GoTo("dial") ELSE Close("unlisted")
    /\ UNCHANGED <<peekVars, sni, tried, replayed, relayVars>>

\* dial_one on the next address: it connects, or fails within its time-out.
Dial ==
    /\ phase = "dial"
    /\ \/ GoTo("replay") /\ tried' = 0
       \/ /\ tried' = tried + 1
          /\ IF tried' < Len(Allow[sni]) THEN GoTo("dial") ELSE Close("unreachable")
    /\ UNCHANGED <<peekVars, sni, replayed, relayVars>>

\* Mutant: the last read alone is sent on.
Hello_LastRead == SubSeq(buf, Len(buf), Len(buf))

\* What is sent on.
Hello == buf

\* write_all blocks when upstream does not read and the hello is large.
Replay ==
    /\ phase = "replay"
    /\ \/ /\ Len(buf) <= SendBuffer \/ ~stalled["up"]
          /\ replayed' = Hello /\ GoTo("splice")
       \/ Close("unreachable") /\ UNCHANGED replayed
    /\ UNCHANGED <<peekVars, sni, tried, relayVars>>

\* The two pipes start, on what the client has sent since; or a clone of a
\* socket fails.
Splice ==
    /\ phase = "splice"
    /\ \/ /\ GoTo("relay")
          /\ LET rest == Len(stream) - Len(buf) IN
             avail' = Relay!Set(avail, "up", rest) /\ sent' = Relay!Set(sent, "up", rest)
       \/ Close("unreachable") /\ UNCHANGED <<avail, sent>>
    /\ UNCHANGED <<peekVars, sni, tried, replayed, pc, waited, age, silence, delivered, ending,
                   eof, stalled>>

RelayStep(step) == phase = "relay" /\ step /\ UNCHANGED <<phase, cause, peekVars, sni, tried, replayed>>

Over ==
    /\ phase = "relay" /\ \A d \in Relay!Dirs : pc[d] = "ended"
    /\ Close("over")
    /\ UNCHANGED <<peekVars, sni, tried, replayed, relayVars>>

\* The peers before the relay: the client ends its stream, upstream hangs.
Peers ==
    /\ phase \notin {"relay", "closed"}
    /\ Relay!SendEof("up") \/ Relay!StopReading("up")
    /\ UNCHANGED <<phase, cause, peekVars, sni, tried, replayed>>

Handler ==
    ScanBuffer \/ ReadSome \/ ReadEof \/ ReadFails \/ Lookup \/ Dial \/ Splice \/ Over

Next == Handler \/ Replay \/ Peers \/ RelayStep(Relay!Next)

Spec == Init /\ [][Next]_vars

\* The handler and its threads run, deadlines expire and time passes; the
\* peers may do nothing at all, and nothing ends a write before the relay.
FairSpec ==
    /\ Spec /\ WF_vars(Handler)
    /\ WF_vars(phase = "replay" /\ (Len(buf) <= SendBuffer \/ ~stalled["up"]) /\ Replay)
    /\ WF_vars(RelayStep(Relay!Tick))
    /\ \A d \in Relay!Dirs : WF_vars(RelayStep(Relay!Pipe(d)))

-----------------------------------------------------------------------------
TypeOK ==
    /\ phase \in {"scan", "read", "lookup", "dial", "replay", "splice", "relay", "closed"}
    /\ stream \in Streams /\ IsPrefix(buf, stream) /\ IsPrefix(replayed, buf)
    /\ reads \in 0..MaxPeekReads /\ Len(buf) <= MaxPeek
    /\ tried \in Nat
    /\ Relay!TypeOK

\* sni_proxy.rs:460, "never from anything the client asserted", and
\* client_hello.rs:12: a connection goes to the addresses of a name only when
\* what was read is one ClientHello that a strict endpoint would also take
\* for that name.
UpstreamNamed ==
    phase \in {"dial", "replay"} =>
        /\ sni \in DOMAIN Allow /\ tried < Len(Allow[sni])
        /\ \E h \in HellosIn(buf) : Encodes(buf, h) /\ Names(Hellos[h], sni)

\* client_hello.rs:83: however the bytes of a proper ClientHello are cut into
\* records and reads, no prefix of it is refused, nor the whole, unless it is
\* past MAX_PEEK (client_hello.rs:16).
ProperAccepted ==
    cause \in {"invalid", "nameless", "eof"} =>
        ~\E h \in HellosIn(stream) :
            Encodes(stream, h) /\ Fits(h) /\ \E name \in NamesIn(Hellos[h]) : Names(Hellos[h], name)

\* sni_proxy.rs:14, "replays the buffered ClientHello and splices": upstream
\* gets the client's bytes, each once and in order; a direction that ended
\* with the client's end of file has passed on all of them.
NothingLost ==
    /\ phase \in {"splice", "relay"} => IsPrefix(replayed, stream)
    /\ ending["up"] = "eof" =>
          Len(replayed) + delivered["up"] = Len(buf) + sent["up"]
    /\ Relay!EofAfterAll

\* sni_proxy.rs:526: a direction is closed for idleness only when both have
\* been silent past the limit, so a one-way stream is never cut.
ClosesOnlyIdle == Relay!ClosesOnlyIdle

\* A connection is always given back: a client that sends nothing, a peer
\* that says nothing more or stops reading hold its threads for ever only
\* in the replay of a ClientHello that upstream's socket does not take.
Reclaimed ==
    <>(phase = "closed" \/ (phase = "replay" /\ stalled["up"] /\ Len(buf) > SendBuffer))
=============================================================================
