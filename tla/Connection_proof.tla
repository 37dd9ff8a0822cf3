-------------------------- MODULE Connection_proof --------------------------
(***************************************************************************)
(* Proofs about one connection of the SNI proxy, for any stream, any       *)
(* segmentation and any time limits.  The bytes of a direction are in the  *)
(* buffer, in the socket, in the thread's hands or delivered; the shared   *)
(* clock is never older than a direction has been silent.                  *)
(***************************************************************************)
EXTENDS Connection, ClientHello_proof

\* What was read is a beginning of the stream.
Peeked ==
    /\ stream \in Streams /\ Len(buf) \in Nat /\ Len(buf) <= Len(stream)
    /\ buf = SubSeq(stream, 1, Len(buf))
    /\ Len(buf) <= MaxPeek /\ reads \in 0..MaxPeekReads /\ tried \in Nat
    /\ phase \in {"scan", "read", "lookup", "dial", "replay", "splice", "relay", "closed"}

\* Nothing is sent on before the replay, and then all that was read.
Resent ==
    /\ phase \in {"scan", "read", "lookup", "dial", "replay"} => replayed = <<>>
    /\ phase \in {"splice", "relay"} \/ ending["up"] # "none" => replayed = buf
    /\ replayed \in {<<>>, buf}

\* The threads of the relay have not started.
NotYet ==
    phase \notin {"relay", "closed"} =>
        \A d \in Relay!Dirs :
            pc[d] = "read" /\ avail[d] = 0 /\ sent[d] = 0 /\ delivered[d] = 0

\* Where the bytes of each direction are.
Flow ==
    \A d \in Relay!Dirs :
        /\ pc[d] # "ended" => ending[d] = "none"
        /\ pc[d] = "read" => sent[d] = delivered[d] + avail[d]
        /\ pc[d] = "write" => sent[d] = delivered[d] + avail[d] + 1
        /\ ending[d] = "eof" => eof[d] /\ sent[d] = delivered[d]

\* Each read is newer than the clock says, or as old.
Clock == \A d \in Relay!Dirs : age <= silence[d]

RelayInv == Relay!TypeOK /\ Flow /\ Clock

\* What the handler knows of the bytes it has read: the scan waits for more,
\* or has the name by which the handler goes on, or is the cause of the end.
Scanned ==
    /\ phase # "closed" => cause = "none"
    /\ phase = "read" => Scan(buf).verdict = "incomplete"
    /\ phase \in {"lookup", "dial", "replay"} =>
          Scan(buf).verdict = "done" /\ Scan(buf).name = sni /\ sni # NoName
    /\ phase \in {"scan", "read", "lookup"} => tried = 0
    /\ phase \in {"dial", "replay"} => sni \in DOMAIN Allow /\ tried < Len(Allow[sni])
    /\ cause = "invalid" => Scan(buf).verdict = "invalid"
    /\ cause = "nameless" => Scan(buf).verdict = "done" /\ Scan(buf).name = NoName
    /\ cause = "eof" => Scan(buf).verdict = "incomplete" /\ buf = stream

IInv == Peeked /\ Resent /\ NotYet /\ RelayInv /\ Scanned

LEMMA Constants ==
    /\ Check \in Nat \ {0} /\ Limit \in Nat /\ Limit >= Check
    /\ MaxPeek \in Nat /\ MaxPeekReads \in Nat /\ Chunk \in Nat
  BY ConnectionAssumption, HelloAssumption DEF Relay!Parameters

-----------------------------------------------------------------------------
(* The relay.                                                              *)

\* Sending, ending a stream and ceasing to read do not touch the threads.
LEMMA PeerSteps ==
    ASSUME RelayInv, NEW d \in Relay!Dirs,
           Relay!Send(d) \/ Relay!SendEof(d) \/ Relay!StopReading(d)
    PROVE  RelayInv'
  <1>1. UNCHANGED <<pc, waited, age, silence, delivered, ending>>
    BY DEF Relay!Send, Relay!SendEof, Relay!StopReading
  <1>2. CASE Relay!Send(d)
    <2>1. /\ ~eof[d] /\ sent' = [sent EXCEPT ![d] = sent[d] + 1]
          /\ avail' = [avail EXCEPT ![d] = avail[d] + 1] /\ UNCHANGED <<eof, stalled>>
      BY <1>2 DEF Relay!Send, Relay!Set
    <2>2. Relay!TypeOK'
      BY <1>1, <2>1 DEF RelayInv, Relay!TypeOK
    <2>3. Flow'
      BY <1>1, <2>1 DEF RelayInv, Relay!TypeOK, Flow
    <2> QED BY <1>1, <2>2, <2>3 DEF RelayInv, Clock
  <1>3. CASE Relay!SendEof(d)
    <2>1. eof' = [eof EXCEPT ![d] = TRUE] /\ UNCHANGED <<avail, sent, stalled>>
      BY <1>3 DEF Relay!SendEof, Relay!Set
    <2>2. Relay!TypeOK' /\ Flow'
      BY <1>1, <2>1 DEF RelayInv, Relay!TypeOK, Flow
    <2> QED BY <1>1, <2>2 DEF RelayInv, Clock
  <1>4. CASE Relay!StopReading(d)
    <2>1. stalled' = [stalled EXCEPT ![d] = TRUE] /\ UNCHANGED <<avail, sent, eof>>
      BY <1>4 DEF Relay!StopReading, Relay!Set
    <2>2. Relay!TypeOK' /\ Flow'
      BY <1>1, <2>1 DEF RelayInv, Relay!TypeOK, Flow
    <2> QED BY <1>1, <2>2 DEF RelayInv, Clock
  <1> QED BY <1>2, <1>3, <1>4

LEMMA ReadSteps ==
    ASSUME RelayInv, NEW d \in Relay!Dirs, Relay!Read(d)
    PROVE  RelayInv'
  <1>1. /\ pc[d] = "read" /\ avail[d] > 0 /\ avail' = [avail EXCEPT ![d] = avail[d] - 1]
        /\ age' = 0 /\ silence' = [silence EXCEPT ![d] = 0]
        /\ pc' = [pc EXCEPT ![d] = "write"] /\ waited' = [waited EXCEPT ![d] = 0]
        /\ UNCHANGED <<delivered, ending, sent, eof, stalled>>
    BY DEF Relay!Read, Relay!Set, Relay!Begin, Relay!Touched, Relay!peerVars
  <1>2. Relay!TypeOK'
    BY <1>1, Constants DEF RelayInv, Relay!TypeOK
  <1>3. Flow'
    BY <1>1 DEF RelayInv, Relay!TypeOK, Flow
  <1>4. Clock'
    BY <1>1, Constants DEF RelayInv, Relay!TypeOK, Clock
  <1> QED BY <1>2, <1>3, <1>4 DEF RelayInv

LEMMA ReadTimeoutSteps ==
    ASSUME RelayInv, NEW d \in Relay!Dirs, Relay!ReadTimeout(d)
    PROVE  RelayInv'
  <1>1. /\ pc[d] = "read" /\ UNCHANGED <<age, silence, avail, delivered, sent, eof, stalled>>
        /\ \/ /\ pc' = [pc EXCEPT ![d] = "ended"] /\ ending' = [ending EXCEPT ![d] = "idle"]
              /\ UNCHANGED waited
           \/ /\ pc' = [pc EXCEPT ![d] = "read"] /\ waited' = [waited EXCEPT ![d] = 0]
              /\ UNCHANGED ending
    BY DEF Relay!ReadTimeout, Relay!Set, Relay!Begin, Relay!Leave, Relay!peerVars
  <1>2. Relay!TypeOK'
    BY <1>1, Constants DEF RelayInv, Relay!TypeOK
  <1>3. Flow' /\ Clock'
    BY <1>1 DEF RelayInv, Relay!TypeOK, Flow, Clock
  <1> QED BY <1>2, <1>3 DEF RelayInv

LEMMA WriteSteps ==
    ASSUME RelayInv, NEW d \in Relay!Dirs, Relay!Write(d)
    PROVE  RelayInv'
  <1>1. /\ pc[d] = "write" /\ delivered' = [delivered EXCEPT ![d] = delivered[d] + 1]
        /\ pc' = [pc EXCEPT ![d] = "read"] /\ waited' = [waited EXCEPT ![d] = 0]
        /\ UNCHANGED <<ending, age, silence, avail, sent, eof, stalled>>
    BY DEF Relay!Write, Relay!Set, Relay!Begin, Relay!peerVars
  <1>2. Relay!TypeOK'
    BY <1>1, Constants DEF RelayInv, Relay!TypeOK
  <1>3. Flow'
    BY <1>1 DEF RelayInv, Relay!TypeOK, Flow
  <1>4. Clock'
    BY <1>1 DEF RelayInv, Clock
  <1> QED BY <1>2, <1>3, <1>4 DEF RelayInv

\* The ends of a direction that no timer decides.
LEMMA LeaveSteps ==
    ASSUME RelayInv, NEW d \in Relay!Dirs,
           Relay!ReadEof(d) \/ Relay!WriteTimeout(d) \/ Relay!Fails(d)
    PROVE  RelayInv'
  <1>1. PICK why \in {"eof", "write", "error"} :
            /\ pc' = [pc EXCEPT ![d] = "ended"] /\ ending' = [ending EXCEPT ![d] = why]
            /\ why = "eof" => pc[d] = "read" /\ avail[d] = 0 /\ eof[d]
    BY DEF Relay!ReadEof, Relay!WriteTimeout, Relay!Fails, Relay!Leave, Relay!Set
  <1>2. UNCHANGED <<waited, age, silence, avail, delivered, sent, eof, stalled>>
    BY DEF Relay!ReadEof, Relay!WriteTimeout, Relay!Fails, Relay!peerVars
  <1>3. Relay!TypeOK'
    BY <1>1, <1>2 DEF RelayInv, Relay!TypeOK
  <1>4. Flow'
    BY <1>1, <1>2 DEF RelayInv, Relay!TypeOK, Flow
  <1>5. Clock'
    BY <1>2 DEF RelayInv, Clock
  <1> QED BY <1>3, <1>4, <1>5 DEF RelayInv

LEMMA TickSteps == ASSUME RelayInv, Relay!Tick PROVE RelayInv'
  <1>1. /\ waited' = [d \in Relay!Dirs |-> IF waited[d] < Check THEN waited[d] + 1 ELSE waited[d]]
        /\ age' = IF age < Limit + 1 THEN age + 1 ELSE age
        /\ silence' = [d \in Relay!Dirs |->
                           IF silence[d] < Limit + 1 THEN silence[d] + 1 ELSE silence[d]]
        /\ UNCHANGED <<pc, avail, delivered, ending, sent, eof, stalled>>
    BY DEF Relay!Tick, Relay!Grow, Relay!peerVars
  <1>2. waited' \in [Relay!Dirs -> 0..Check]
    BY <1>1, Constants DEF RelayInv, Relay!TypeOK
  <1>3. age' \in 0..(Limit + 1) /\ silence' \in [Relay!Dirs -> 0..(Limit + 1)]
    BY <1>1, Constants DEF RelayInv, Relay!TypeOK
  <1>4. Relay!TypeOK'
    BY <1>1, <1>2, <1>3 DEF RelayInv, Relay!TypeOK
  <1>5. Flow'
    BY <1>1 DEF RelayInv, Flow
  <1>6. Clock'
    BY <1>1, Constants DEF RelayInv, Relay!TypeOK, Clock
  <1> QED BY <1>4, <1>5, <1>6 DEF RelayInv

LEMMA RelaySteps == ASSUME RelayInv, Relay!Next PROVE RelayInv'
  BY PeerSteps, ReadSteps, ReadTimeoutSteps, WriteSteps, LeaveSteps, TickSteps
     DEF Relay!Next, Relay!Pipe

-----------------------------------------------------------------------------
(* The handler.                                                            *)

\* A longer beginning of the stream.
LEMMA BeginningOf ==
    ASSUME NEW B, NEW s \in Seq(B), NEW n \in Nat, n <= Len(s)
    PROVE  /\ Len(SubSeq(s, 1, n)) = n
           /\ IsPrefix(SubSeq(s, 1, n), s)
           /\ IsPrefix(SubSeq(s, 1, n), SubSeq(s, 1, n)) /\ IsPrefix(<<>>, SubSeq(s, 1, n))
           /\ IsPrefix(<<>>, s)
  <1> DEFINE p == SubSeq(s, 1, n)
  <1>1. p \in Seq(B) /\ Len(p) = n
    OBVIOUS
  <1>2. SubSeq(p, 1, n) = p
    BY <1>1
  <1>3. <<>> \in Seq(B) /\ Len(<<>>) = 0
    OBVIOUS
  <1>4. SubSeq(<<>>, 1, 0) = <<>> /\ SubSeq(p, 1, 0) = <<>> /\ SubSeq(s, 1, 0) = <<>>
    BY <1>1
  <1> HIDE DEF p
  <1>5. IsPrefix(p, s)
    BY <1>1, <1>2 DEF IsPrefix, p
  <1>6. IsPrefix(p, p)
    BY <1>1 DEF IsPrefix
  <1>7. IsPrefix(<<>>, p) /\ IsPrefix(<<>>, s)
    BY <1>1, <1>3, <1>4 DEF IsPrefix
  <1> QED BY <1>1, <1>5, <1>6, <1>7 DEF p

\* What Peeked and Resent say of the three sequences.
LEMMA Beginnings ==
    ASSUME Peeked, Resent
    PROVE  IsPrefix(buf, stream) /\ IsPrefix(replayed, buf) /\ IsPrefix(replayed, stream)
  <1>1. stream \in Seq({stream[i] : i \in DOMAIN stream})
    BY ConnectionAssumption DEF Peeked, IsSequence
  <1> DEFINE B == {stream[i] : i \in DOMAIN stream}
  <1> HIDE DEF B
  <1>2. stream \in Seq(B)
    BY <1>1 DEF B
  <1>3. buf = SubSeq(stream, 1, Len(buf)) /\ Len(buf) \in Nat /\ Len(buf) <= Len(stream)
    BY DEF Peeked
  <1> DEFINE n == Len(buf)
  <1> HIDE DEF n
  <1>4. n \in Nat /\ n <= Len(stream) /\ buf = SubSeq(stream, 1, n)
    BY <1>3 DEF n
  <1>5. /\ IsPrefix(SubSeq(stream, 1, n), stream)
        /\ IsPrefix(SubSeq(stream, 1, n), SubSeq(stream, 1, n))
        /\ IsPrefix(<<>>, SubSeq(stream, 1, n)) /\ IsPrefix(<<>>, stream)
    BY <1>2, <1>4, BeginningOf
  <1>6. /\ IsPrefix(buf, stream) /\ IsPrefix(buf, buf)
        /\ IsPrefix(<<>>, buf) /\ IsPrefix(<<>>, stream)
    BY <1>4, <1>5
  <1>7. replayed = <<>> \/ replayed = buf
    BY DEF Resent
  <1> QED BY <1>6, <1>7

\* A read gives a longer beginning, within the limit.
LEMMA ReadSomeSteps == ASSUME IInv, ReadSome PROVE IInv'
  <1>1. /\ phase = "read" /\ phase' = "scan" /\ cause' = cause
        /\ UNCHANGED <<stream, reads, sni, tried, replayed, relayVars>>
    BY DEF ReadSome, GoTo
  <1> DEFINE most == {MaxPeek - Len(buf), Chunk, Len(stream) - Len(buf)}
  <1>2. PICK n \in 1..Min(most) : buf' = SubSeq(stream, 1, Len(buf) + n)
    BY DEF ReadSome
  <1>3. /\ Len(buf) \in Nat /\ Len(buf) <= Len(stream) /\ MaxPeek \in Nat /\ Chunk \in Nat
        /\ Len(stream) \in Nat /\ stream \in Seq({stream[i] : i \in DOMAIN stream})
    <2>1. stream \in Seq({stream[i] : i \in DOMAIN stream})
      BY ConnectionAssumption DEF IInv, Peeked, IsSequence
    <2>2. Len(stream) \in Nat
      <3> DEFINE B == {stream[i] : i \in DOMAIN stream}
      <3>1. stream \in Seq(B)
        BY <2>1
      <3> HIDE DEF B
      <3> QED BY <3>1
    <2> QED BY <2>1, <2>2, Constants DEF IInv, Peeked
  <1>4. n \in Nat /\ n <= MaxPeek - Len(buf) /\ n <= Len(stream) - Len(buf)
    <2>1. \E x \in most : \A y \in most : x =< y
      BY <1>3
    <2>2. Min(most) \in most /\ \A y \in most : Min(most) =< y
      BY <2>1 DEF Min
    <2> QED BY <1>3, <2>2
  <1> DEFINE m == Len(buf) + n
  <1>5. m \in Nat /\ m <= Len(stream) /\ m <= MaxPeek
    BY <1>3, <1>4
  <1> HIDE DEF m
  <1>6. buf' = SubSeq(stream, 1, m) /\ Len(buf') = m
    BY <1>2, <1>3, <1>5, BeginningOf DEF m
  <1>7. Peeked'
    BY <1>1, <1>5, <1>6 DEF IInv, Peeked
  <1>8. replayed = <<>> /\ ending["up"] = "none"
    BY <1>1 DEF IInv, Resent, NotYet, RelayInv, Flow, Relay!Dirs
  <1>9. Resent'
    BY <1>1, <1>8 DEF Resent, relayVars
  <1>10. NotYet' /\ RelayInv'
    BY <1>1 DEF IInv, NotYet, RelayInv, Relay!TypeOK, Flow, Clock, relayVars
  <1>11. Scanned'
    BY <1>1 DEF IInv, Scanned
  <1> QED BY <1>7, <1>9, <1>10, <1>11 DEF IInv

\* The handler goes by the name that the scan of the buffer has found, and
\* the address it tries is one of those of the name.
LEMMA ScannedSteps ==
    ASSUME Scanned, ScanBuffer \/ ReadEof \/ ReadFails \/ Lookup \/ Dial \/ Over
    PROVE  Scanned'
  <1>1. UNCHANGED <<stream, buf>>
    BY DEF ScanBuffer, ReadEof, ReadFails, Lookup, Dial, Over, peekVars
  <1>2. CASE ScanBuffer
    <2>1. phase = "scan" /\ cause = "none" /\ tried' = tried /\ tried = 0
      BY <1>2 DEF ScanBuffer, Scanned
    <2>2. \/ /\ Scan(buf).verdict = "done" /\ Scan(buf).name # NoName
             /\ sni' = Scan(buf).name /\ phase' = "lookup" /\ cause' = "none"
          \/ /\ phase' = "closed" /\ cause' \in {"nameless", "invalid", "exhausted"}
             /\ cause' = "nameless" => Scan(buf).verdict = "done" /\ Scan(buf).name = NoName
             /\ cause' = "invalid" => Scan(buf).verdict = "invalid"
          \/ Scan(buf).verdict = "incomplete" /\ phase' = "read" /\ cause' = "none"
      BY <1>2, <2>1 DEF ScanBuffer, Close, GoTo
    <2> QED BY <1>1, <2>1, <2>2 DEF Scanned
  <1>3. CASE ReadEof
    BY <1>1, <1>3 DEF ReadEof, Close, Scanned
  <1>4. CASE ReadFails \/ Over
    BY <1>1, <1>4 DEF ReadFails, Over, Close, Scanned
  <1>5. CASE Lookup
    <2>1. \A name \in DOMAIN Allow : Len(Allow[name]) \in Nat /\ 0 < Len(Allow[name])
      BY ConnectionAssumption
    <2>2. phase = "lookup" /\ sni' = sni /\ tried' = tried
      BY <1>5 DEF Lookup
    <2>3. \/ sni \in DOMAIN Allow /\ phase' = "dial" /\ cause' = cause
          \/ phase' = "closed" /\ cause' = "unlisted"
      BY <1>5 DEF Lookup, Close, GoTo
    <2> QED BY <1>1, <2>1, <2>2, <2>3 DEF Scanned
  <1>6. CASE Dial
    <2>1. \A name \in DOMAIN Allow : Len(Allow[name]) \in Nat /\ 0 < Len(Allow[name])
      BY ConnectionAssumption
    <2>2. phase = "dial" /\ sni' = sni
      BY <1>6 DEF Dial
    <2>3. \/ phase' = "replay" /\ cause' = cause /\ tried' = 0
          \/ phase' = "dial" /\ cause' = cause /\ tried' < Len(Allow[sni])
          \/ phase' = "closed" /\ cause' = "unreachable"
      BY <1>6 DEF Dial, Close, GoTo
    <2> QED BY <1>1, <2>1, <2>2, <2>3 DEF Scanned
  <1> QED BY <1>2, <1>3, <1>4, <1>5, <1>6

\* The steps that change neither what was read nor what was sent on.
LEMMA HandlerSteps ==
    ASSUME IInv, ScanBuffer \/ ReadEof \/ ReadFails \/ Lookup \/ Dial \/ Over
    PROVE  IInv'
  <1>1. UNCHANGED <<stream, buf, replayed, relayVars>>
    BY DEF ScanBuffer, ReadEof, ReadFails, Lookup, Dial, Over, peekVars
  <1>2. /\ phase \in {"scan", "read", "lookup", "dial", "relay"}
        /\ phase' \in {"read", "lookup", "dial", "replay", "closed"}
        /\ phase = "relay" => phase' = "closed"
    BY DEF ScanBuffer, ReadEof, ReadFails, Lookup, Dial, Over, Close, GoTo
  <1>3. reads' \in 0..MaxPeekReads
    <2>1. reads \in 0..MaxPeekReads /\ MaxPeekReads \in Nat
      BY Constants DEF IInv, Peeked
    <2>2. \/ reads' \in {reads, 0}
          \/ ~Exhausted /\ reads' = reads + 1
      BY DEF ScanBuffer, ReadEof, ReadFails, Lookup, Dial, Over, peekVars
    <2> QED BY <2>1, <2>2 DEF Exhausted
  <1>4. tried' \in Nat
    BY DEF ScanBuffer, ReadEof, ReadFails, Lookup, Dial, Over, IInv, Peeked
  <1>5. Peeked'
    BY <1>1, <1>2, <1>3, <1>4 DEF IInv, Peeked
  <1>6. Resent'
    BY <1>1, <1>2 DEF IInv, Resent, relayVars
  <1>7. NotYet' /\ RelayInv'
    BY <1>1, <1>2 DEF IInv, NotYet, RelayInv, Relay!TypeOK, Flow, Clock, relayVars
  <1>8. Scanned'
    BY <1>1, ScannedSteps DEF IInv
  <1> QED BY <1>5, <1>6, <1>7, <1>8 DEF IInv

LEMMA ReplaySteps == ASSUME IInv, Replay PROVE IInv'
  <1>1. /\ phase = "replay" /\ UNCHANGED <<peekVars, sni, tried, relayVars>>
        /\ \/ replayed' = buf /\ phase' = "splice"
           \/ phase' = "closed" /\ replayed' = replayed
    BY DEF Replay, Hello, GoTo, Close
  <1>2. replayed = <<>> /\ ending["up"] = "none"
    BY <1>1 DEF IInv, Resent, NotYet, RelayInv, Flow, Relay!Dirs
  <1>3. Peeked' /\ Resent'
    BY <1>1, <1>2 DEF IInv, Peeked, Resent, peekVars, relayVars
  <1>4. NotYet' /\ RelayInv'
    BY <1>1 DEF IInv, NotYet, RelayInv, Relay!TypeOK, Flow, Clock, relayVars
  <1>5. Scanned'
    <2>1. /\ UNCHANGED <<stream, buf>>
          /\ \/ phase' = "splice" /\ cause' = cause
             \/ phase' = "closed" /\ cause' = "unreachable"
      BY DEF Replay, GoTo, Close, peekVars
    <2> QED BY <1>1, <2>1 DEF IInv, Scanned
  <1> QED BY <1>3, <1>4, <1>5 DEF IInv

LEMMA SpliceSteps == ASSUME IInv, Splice PROVE IInv'
  <1> DEFINE rest == Len(stream) - Len(buf)
  <1>1. /\ phase = "splice"
        /\ UNCHANGED <<peekVars, sni, tried, replayed, pc, waited, age, silence, delivered, ending,
                        eof, stalled>>
        /\ \/ /\ phase' = "relay" /\ avail' = [avail EXCEPT !["up"] = rest]
              /\ sent' = [sent EXCEPT !["up"] = rest]
           \/ phase' = "closed" /\ UNCHANGED <<avail, sent>>
    BY DEF Splice, GoTo, Close, Relay!Set
  <1>2. rest \in Nat
    BY ConnectionAssumption DEF IInv, Peeked
  <1> HIDE DEF rest
  <1>3. Peeked' /\ Resent' /\ NotYet'
    BY <1>1 DEF IInv, Peeked, Resent, NotYet, peekVars
  <1>4. Relay!TypeOK'
    BY <1>1, <1>2 DEF IInv, RelayInv, Relay!TypeOK
  <1>5. Flow'
    BY <1>1, <1>2 DEF IInv, NotYet, RelayInv, Relay!TypeOK, Flow
  <1>6. Clock'
    BY <1>1 DEF IInv, RelayInv, Clock
  <1>7. Scanned'
    <2>1. /\ UNCHANGED <<stream, buf>>
          /\ \/ phase' = "relay" /\ cause' = cause
             \/ phase' = "closed" /\ cause' = "unreachable"
      BY DEF Splice, GoTo, Close, peekVars
    <2> QED BY <1>1, <2>1 DEF IInv, Scanned
  <1> QED BY <1>3, <1>4, <1>5, <1>6, <1>7 DEF IInv, RelayInv

\* The peers before the relay and the relay itself.
LEMMA TrafficSteps ==
    ASSUME IInv, Peers \/ RelayStep(Relay!Next)
    PROVE  IInv'
  <1>1. UNCHANGED <<phase, cause, peekVars, sni, tried, replayed>> /\ phase # "closed"
    BY DEF Peers, RelayStep
  <1>2. RelayInv'
    <2>1. "up" \in Relay!Dirs
      BY DEF Relay!Dirs
    <2> QED BY <2>1, PeerSteps, RelaySteps DEF Peers, RelayStep, IInv
  <1>3. Peeked'
    BY <1>1 DEF IInv, Peeked, peekVars
  <1>4. NotYet' /\ (phase # "relay" => ending' = ending)
    BY <1>1 DEF Peers, RelayStep, Relay!SendEof, Relay!StopReading, IInv, NotYet
  <1>5. Resent'
    BY <1>1, <1>4 DEF IInv, Resent, peekVars
  <1>6. Scanned'
    BY <1>1 DEF IInv, Scanned, peekVars
  <1> QED BY <1>2, <1>3, <1>4, <1>5, <1>6 DEF IInv

-----------------------------------------------------------------------------
(* The theorems.                                                           *)

LEMMA Steps == ASSUME IInv, [Next]_vars PROVE IInv'
  <1>1. CASE Next
    BY <1>1, ReadSomeSteps, HandlerSteps, ReplaySteps, SpliceSteps, TrafficSteps DEF Next, Handler
  <1>2. CASE UNCHANGED vars
    BY <1>2 DEF IInv, Peeked, Resent, NotYet, RelayInv, Relay!TypeOK, Flow, Clock, Scanned, vars,
                peekVars, relayVars
  <1> QED BY <1>1, <1>2

\* The inductive invariant of a connection.
THEOREM Invariant == Spec => []IInv
  <1>1. Init => IInv
    <2> SUFFICES ASSUME Init PROVE IInv
      OBVIOUS
    <2>1. /\ phase = "scan" /\ stream \in Streams /\ buf = <<>> /\ reads = 0 /\ tried = 0
          /\ replayed = <<>> /\ Relay!Init
      BY DEF Init
    <2>2. RelayInv /\ NotYet
      BY <2>1, Constants DEF RelayInv, Relay!Init, Relay!TypeOK, Flow, Clock, NotYet
    <2>3. stream \in Seq({stream[i] : i \in DOMAIN stream})
      BY <2>1, ConnectionAssumption DEF IsSequence
    <2>4. Len(buf) = 0 /\ buf = SubSeq(stream, 1, 0) /\ Len(stream) \in Nat
      BY <2>1, <2>3
    <2>5. Peeked
      BY <2>1, <2>4, Constants DEF Peeked
    <2>6. Resent
      BY <2>1 DEF Resent, Relay!Init, Relay!Dirs
    <2>7. Scanned
      BY <2>1 DEF Init, Scanned
    <2> QED BY <2>2, <2>5, <2>6, <2>7 DEF IInv
  <1> QED BY <1>1, Steps, PTL DEF Spec

\* Types, and what was sent on is a beginning of what was read.
THEOREM TypeCorrect == Spec => []TypeOK
  <1>1. IInv => TypeOK
    BY Beginnings, Constants DEF IInv, Peeked, RelayInv, TypeOK
  <1> QED BY <1>1, Invariant, PTL

\* Upstream gets the client's bytes, each once and in order.
THEOREM Lossless == Spec => []NothingLost
  <1>1. IInv => NothingLost
    <2> SUFFICES ASSUME IInv PROVE NothingLost
      OBVIOUS
    <2>1. IsPrefix(replayed, stream)
      BY Beginnings DEF IInv
    <2>2. \A d \in Relay!Dirs : ending[d] = "eof" => delivered[d] = sent[d]
      BY DEF IInv, RelayInv, Flow
    <2>3. ending["up"] = "eof" => replayed = buf
      BY DEF IInv, Resent
    <2>4. ending["up"] = "eof" => Len(replayed) + delivered["up"] = Len(buf) + sent["up"]
      BY <2>2, <2>3 DEF Relay!Dirs
    <2> QED BY <2>1, <2>2, <2>4 DEF NothingLost, Relay!EofAfterAll
  <1> QED BY <1>1, Invariant, PTL

\* A direction is closed for idleness only when both have been silent.
THEOREM IdleOnly == Spec => ClosesOnlyIdle
  <1> DEFINE Cut ==
        \A d \in Relay!Dirs : ending'[d] = "idle" /\ ending[d] # "idle" =>
            \A e \in Relay!Dirs : silence[e] > Limit
  <1>1. IInv /\ [Next]_vars => [Cut]_Relay!vars
    <2> SUFFICES ASSUME IInv, [Next]_vars, ending' # ending PROVE Cut
      BY DEF Relay!vars
    <2>1. RelayStep(Relay!Next)
      BY DEF Next, Handler, ScanBuffer, ReadSome, ReadEof, ReadFails, Lookup, Dial, Splice, Over,
             Replay, Peers, Relay!SendEof, Relay!StopReading, vars, relayVars
    <2>2. PICK d \in Relay!Dirs : Relay!Pipe(d) \/ Relay!Fails(d)
      BY <2>1 DEF RelayStep, Relay!Next, Relay!Tick, Relay!Send, Relay!SendEof, Relay!StopReading
    <2>3. CASE Relay!ReadTimeout(d)
      <3>1. age > Limit
        BY <2>3 DEF Relay!ReadTimeout
      <3>2. \A e \in Relay!Dirs : silence[e] > Limit
        BY <3>1, Constants DEF IInv, RelayInv, Clock, Relay!TypeOK
      <3> QED BY <3>2
    <2>4. CASE ~Relay!ReadTimeout(d)
      <3>1. PICK why \in {"eof", "write", "error"} : ending' = [ending EXCEPT ![d] = why]
        BY <2>2, <2>4 DEF Relay!Pipe, Relay!Read, Relay!ReadEof, Relay!Write, Relay!WriteTimeout,
                          Relay!Fails, Relay!Leave, Relay!Set
      <3>2. ending \in [Relay!Dirs -> {"none", "eof", "idle", "write", "error"}]
        BY DEF IInv, RelayInv, Relay!TypeOK
      <3> QED BY <3>1, <3>2
    <2> QED BY <2>3, <2>4
  <1>2. Spec => [][Cut]_Relay!vars
    BY <1>1, Invariant, PTL DEF Spec
  <1> QED BY <1>2 DEF ClosesOnlyIdle, Relay!ClosesOnlyIdle

\* What was read of the stream is a sequence of the stream's bytes.
LEMMA BufferOf ==
    ASSUME Peeked
    PROVE  /\ IsSequence(stream) /\ IsSequence(buf) /\ Len(buf) \in 0..Len(stream)
           /\ DOMAIN buf \subseteq DOMAIN stream /\ \A i \in DOMAIN buf : buf[i] = stream[i]
  <1> DEFINE B == {stream[i] : i \in DOMAIN stream}
             C == {buf[i] : i \in DOMAIN buf}
             n == Len(buf)
  <1>1. IsSequence(stream)
    BY ConnectionAssumption DEF Peeked
  <1>2. stream \in Seq(B)
    BY <1>1 DEF IsSequence
  <1>3. n \in Nat /\ n <= Len(stream) /\ buf = SubSeq(stream, 1, n)
    BY DEF Peeked
  <1>4. \A i \in DOMAIN buf : buf[i] \in C
    OBVIOUS
  <1> HIDE DEF B, C, n
  <1>5. Len(stream) \in Nat
    BY <1>2
  <1>6. DOMAIN buf = 1..n /\ DOMAIN stream = 1..Len(stream) /\ \A i \in 1..n : buf[i] = stream[i]
    BY <1>2, <1>3
  <1>7. buf = [i \in 1..n |-> buf[i]]
    BY <1>2, <1>3
  <1>8. buf \in Seq(C)
    BY <1>3, <1>4, <1>6, <1>7
  <1>9. IsSequence(buf)
    BY <1>8 DEF C, IsSequence
  <1>10. \A i \in 1..n : i \in 1..Len(stream)
    BY <1>3, <1>5
  <1> QED BY <1>1, <1>3, <1>5, <1>6, <1>9, <1>10 DEF n

\* The bytes of a stream are those of the hellos, and headers with a length.
LEMMA BytesOf ==
    ASSUME Peeked
    PROVE  /\ \A i \in DOMAIN stream : stream[i][1] = "body" => stream[i][2] \in HellosIn(stream)
           /\ HellosIn(stream) \subseteq DOMAIN Hellos
           /\ \A i \in DOMAIN stream : stream[i][1] = "hs" => stream[i][3] \in Nat
  BY ConnectionAssumption DEF Peeked, HellosIn

\* sni_proxy.rs:460: a connection goes to the addresses of a name only when
\* what was read is one whole ClientHello that names that host and no other.
THEOREM Named == Spec => []UpstreamNamed
  <1>1. IInv => UpstreamNamed
    <2> SUFFICES ASSUME IInv, phase \in {"dial", "replay"}
                 PROVE  /\ sni \in DOMAIN Allow /\ tried < Len(Allow[sni])
                        /\ \E h \in HellosIn(buf) : Encodes(buf, h) /\ Names(Hellos[h], sni)
      BY DEF UpstreamNamed
    <2>1. /\ Scan(buf).verdict = "done" /\ Scan(buf).name = sni /\ sni # NoName
          /\ sni \in DOMAIN Allow /\ tried < Len(Allow[sni])
      BY DEF IInv, Scanned
    <2>2. /\ IsSequence(buf)
          /\ \A i \in DOMAIN buf : buf[i][1] = "body" => buf[i][2] \in DOMAIN Hellos
          /\ \A i \in DOMAIN buf : buf[i][1] = "hs" => buf[i][3] \in Nat
      BY BufferOf, BytesOf DEF IInv
    <2>3. PICK h \in DOMAIN Hellos :
              /\ \E i \in DOMAIN buf : buf[i][1] = "body" /\ buf[i][2] = h
              /\ Encodes(buf, h) /\ Names(Hellos[h], sni)
      BY <2>1, <2>2, ScanSound
    <2>4. h \in HellosIn(buf)
      BY <2>3 DEF HellosIn
    <2> QED BY <2>1, <2>3, <2>4
  <1> QED BY <1>1, Invariant, PTL

\* client_hello.rs:83: however a proper ClientHello is cut into records and
\* reads, no beginning of it is refused, nor the whole.
THEOREM Accepted == Spec => []ProperAccepted
  <1>1. IInv => ProperAccepted
    <2> SUFFICES ASSUME IInv, cause \in {"invalid", "nameless", "eof"},
                        NEW h \in HellosIn(stream), Encodes(stream, h), Fits(h),
                        NEW name, Names(Hellos[h], name)
                 PROVE  FALSE
      BY DEF ProperAccepted
    <2>1. h \in DOMAIN Hellos /\ IsSequence(stream) /\ Len(buf) \in 0..Len(stream)
          /\ Len(buf) <= MaxPeek /\ buf = SubSeq(stream, 1, Len(buf))
      BY BufferOf, BytesOf DEF IInv, Peeked
    <2>2. Scan(buf) = IF Len(buf) < Len(stream) THEN [verdict |-> "incomplete", name |-> NoName]
                      ELSE [verdict |-> "done", name |-> name]
      BY <2>1, ScanComplete
    <2>3. name # NoName
      BY <2>1, ParserExact
    <2>4. \/ Scan(buf).verdict = "invalid"
          \/ Scan(buf).verdict = "done" /\ Scan(buf).name = NoName
          \/ Scan(buf).verdict = "incomplete" /\ buf = stream
      BY DEF IInv, Scanned
    <2>5. ~(Len(stream) < Len(stream))
      <3>1. Len(stream) \in Nat
        <4> DEFINE B == {stream[i] : i \in DOMAIN stream}
        <4>1. stream \in Seq(B)
          BY <2>1 DEF IsSequence
        <4> HIDE DEF B
        <4> QED BY <4>1
      <3> QED BY <3>1
    <2> QED BY <2>2, <2>3, <2>4, <2>5
  <1> QED BY <1>1, Invariant, PTL
=============================================================================
