--------------------------- MODULE PtyRelay_proof ---------------------------
(***************************************************************************)
(* Proofs about the relay loop, for every input, every size of the pty and *)
(* of a read, and every agent.  What the last poll reported, and how big   *)
(* the last read was, must be tied to the state of the pty for the         *)
(* properties of the loop's end to be inductive.                           *)
(***************************************************************************)
EXTENDS PtyRelay, TLAPS

\* The relay holds output only between its read and its write.
HandHeld == pc \notin {"stdout", "error"} => hand = <<>>

\* A hang-up once reported is for good, and only one that was ends the loop.
HupForGood ==
    /\ "hup" \in revents => agent = "closed"
    /\ pc = "done" => "hup" \in revents

\* In the round that sees the hang-up: output still to be read was reported
\* with it, and after the read there is more only if the read was full.
LastRound ==
    "hup" \in revents =>
        /\ pc = "master" /\ out # <<>> => "in" \in revents
        /\ pc \notin {"poll", "master"} /\ out # <<>> => lastRead = ReadMax

\* Each read of stdin takes room in the pty once, and so does the ^D.
Fits ==
    /\ pc \in {"master", "stdout", "stdin"} /\ "stdin" \in revents => stdinOpen
    /\ (pc = "feed" => stdinOpen) /\ (pc = "eofChar" => ~stdinOpen)
    /\ Len(inq) + Len(host) + (IF pc = "feed" THEN 1 ELSE 0)
          + (IF stdinOpen \/ pc = "eofChar" THEN 1 ELSE 0) <= Len(Input) + 1

IInv == TypeOK /\ Conserved /\ HandHeld /\ HupForGood /\ LastRound /\ Fits

-----------------------------------------------------------------------------
(* Sequences cut and joined.                                               *)

LEMMA Concatenated ==
    ASSUME NEW a \in Seq(Nat), NEW b \in Seq(Nat)
    PROVE  /\ a \o b \in Seq(Nat) /\ Len(a \o b) = Len(a) + Len(b)
           /\ \A i \in 1..Len(a) : (a \o b)[i] = a[i]
           /\ \A i \in (Len(a) + 1)..(Len(a) + Len(b)) : (a \o b)[i] = b[i - Len(a)]
  OBVIOUS

LEMMA Regrouped ==
    ASSUME NEW a \in Seq(Nat), NEW b \in Seq(Nat), NEW c \in Seq(Nat)
    PROVE  (a \o b) \o c = a \o (b \o c)
  OBVIOUS

LEMMA WithEmpty ==
    ASSUME NEW a \in Seq(Nat)
    PROVE  a \o <<>> = a /\ <<>> \o a = a
  OBVIOUS

LEMMA Filled == \A a \in Seq(Nat) : a # <<>> => Len(a) # 0
  OBVIOUS

LEMMA OneMore ==
    ASSUME NEW a \in Seq(Nat), NEW b \in Seq(Nat), NEW x \in Nat
    PROVE  /\ a \o Append(b, x) = Append(a \o b, x)
           /\ Append(b, x) \in Seq(Nat) /\ Len(Append(b, x)) = Len(b) + 1
  OBVIOUS

LEMMA OnePrinted ==
    ASSUME NEW n \in Nat
    PROVE  [i \in 1..(n + 1) |-> i] = Append([i \in 1..n |-> i], n + 1)
  OBVIOUS

LEMMA Same ==
    ASSUME NEW a \in Seq(Nat), NEW b \in Seq(Nat), Len(a) = Len(b),
           \A i \in 1..Len(a) : a[i] = b[i]
    PROVE  a = b
  OBVIOUS

\* A sequence is its beginning and its rest.
LEMMA Cut ==
    ASSUME NEW s \in Seq(Nat), NEW n \in 0..Len(s)
    PROVE  /\ SubSeq(s, 1, n) \in Seq(Nat) /\ SubSeq(s, n + 1, Len(s)) \in Seq(Nat)
           /\ Len(SubSeq(s, 1, n)) = n /\ Len(SubSeq(s, n + 1, Len(s))) = Len(s) - n
           /\ SubSeq(s, 1, n) \o SubSeq(s, n + 1, Len(s)) = s
  <1> DEFINE a == SubSeq(s, 1, n)
             b == SubSeq(s, n + 1, Len(s))
  <1>1. a \in Seq(Nat) /\ Len(a) = n /\ \A i \in 1..n : a[i] = s[i]
    OBVIOUS
  <1>2. b \in Seq(Nat) /\ Len(b) = Len(s) - n /\ \A i \in 1..(Len(s) - n) : b[i] = s[i + n]
    OBVIOUS
  <1> HIDE DEF a, b
  <1>3. a \o b \in Seq(Nat) /\ Len(a \o b) = Len(s)
    BY <1>1, <1>2, Concatenated
  <1>4. ASSUME NEW i \in 1..Len(s) PROVE (a \o b)[i] = s[i]
    <2>1. CASE i <= n
      <3>1. i \in 1..Len(a)
        BY <1>1, <2>1
      <3> QED BY <1>1, <1>2, <3>1, Concatenated
    <2>2. CASE ~(i <= n)
      <3>1. i \in (Len(a) + 1)..(Len(a) + Len(b)) /\ i - n \in 1..(Len(s) - n) /\ (i - n) + n = i
        BY <1>1, <1>2, <2>2
      <3>2. (a \o b)[i] = b[i - n]
        BY <1>1, <1>2, <3>1, Concatenated
      <3> QED BY <1>2, <3>1, <3>2
    <2> QED BY <2>1, <2>2
  <1>5. a \o b = s
    BY <1>3, <1>4, Same
  <1> QED BY <1>1, <1>2, <1>5 DEF a, b

-----------------------------------------------------------------------------
(* Each step.                                                              *)

LEMMA PollSteps == ASSUME IInv, Poll PROVE IInv'
  <1>1. /\ pc = "poll" /\ pc' = "master" /\ UNCHANGED <<outVars, inVars, agent, owed>>
        /\ revents' \in {Ready, Ready \ {"stdin", "stdinHup"}}
    BY DEF Poll
  <1>2. /\ revents' \subseteq Events
        /\ "hup" \in revents' => agent = "closed"
        /\ out # <<>> => "in" \in revents'
        /\ "stdin" \in revents' => stdinOpen
    BY <1>1 DEF Ready, Events
  <1>3. TypeOK'
    BY <1>1, <1>2 DEF IInv, TypeOK, outVars, inVars
  <1>4. Conserved' /\ HandHeld'
    BY <1>1 DEF IInv, Conserved, Printed, HandHeld, outVars
  <1>5. HupForGood' /\ LastRound'
    BY <1>1, <1>2 DEF HupForGood, LastRound, outVars
  <1>6. Fits'
    BY <1>1, <1>2 DEF IInv, Fits, inVars
  <1> QED BY <1>3, <1>4, <1>5, <1>6 DEF IInv

\* A step of the output that leaves the input alone.
LEMMA FitsStays ==
    ASSUME Fits, UNCHANGED <<revents, inVars>>, pc' # "feed", pc # "feed",
           pc' # "eofChar", pc # "eofChar",
           pc' \in {"master", "stdout", "stdin"} => pc \in {"master", "stdout", "stdin"}
    PROVE  Fits'
  BY DEF Fits, inVars

LEMMA ReadMasterSteps == ASSUME IInv, ReadMaster PROVE IInv'
  <1>1. /\ pc = "master" /\ hand = <<>> /\ pc' \in {"stdout", "stdin"}
        /\ UNCHANGED <<revents, delivered, produced, inVars, agent, owed>>
    BY DEF ReadMaster, IInv, HandHeld
  <1>2. /\ out \in Seq(Nat) /\ Len(out) <= OutCap /\ delivered \in Seq(Nat)
        /\ ReadMax \in Nat \ {0} /\ OutCap \in Nat
    BY RelayAssumption DEF IInv, TypeOK
  <1>3. Fits' /\ HupForGood'
    BY <1>1, FitsStays DEF IInv, HupForGood
  <1>4. CASE Drains
    <2> PICK n \in 1..OutCap : /\ Takes(n) /\ lastRead' = n
                               /\ hand' = SubSeq(out, 1, n)
                               /\ out' = SubSeq(out, n + 1, Len(out))
      BY <1>4, Zenon DEF ReadMaster
    <2>1. /\ pc' = "stdout" /\ n \in 1..ReadMax /\ n <= Len(out) /\ n \in 0..Len(out)
          /\ agent = "closed" => n = Len(out) \/ n = ReadMax
      BY <1>1, <1>2, <1>4 DEF ReadMaster, Takes, Drains
    <2>2. /\ hand' \in Seq(Nat) /\ out' \in Seq(Nat) /\ Len(hand') = n /\ Len(out') = Len(out) - n
          /\ hand' \o out' = out
      BY <1>2, <2>1, Cut
    <2>3. Len(hand') <= ReadMax /\ lastRead' \in 0..ReadMax /\ Len(out') <= OutCap
      <3>1. Len(out) \in Nat /\ Len(hand') = n /\ Len(out') = Len(out) - n
        BY <1>2, <2>2
      <3>2. Len(out) <= OutCap /\ OutCap \in Nat /\ ReadMax \in Nat
        BY <1>2
      <3>3. n \in 1..ReadMax /\ n <= Len(out) /\ lastRead' = n
        BY <2>1
      <3> QED BY ONLY <3>1, <3>2, <3>3
    <2>4. TypeOK'
      BY <1>1, <2>1, <2>2, <2>3 DEF IInv, TypeOK, inVars
    <2>5. Conserved'
      <3>1. delivered' \o hand' \o out' = delivered \o (hand' \o out')
        BY <1>1, <1>2, <2>2, Regrouped
      <3>2. delivered \o hand \o out = delivered \o out
        BY <1>1, <1>2, WithEmpty
      <3>3. Printed' = Printed
        BY <1>1 DEF Printed
      <3> QED BY <2>2, <3>1, <3>2, <3>3 DEF IInv, Conserved
    <2>6. LastRound'
      <3>1. out' # <<>> => n # Len(out)
        <4>1. Len(out) \in Nat /\ Len(out') = Len(out) - n
          BY <1>2, <2>2
        <4>2. out' # <<>> => Len(out') # 0
          BY <2>2, Filled
        <4> QED BY ONLY <4>1, <4>2
      <3> QED BY <1>1, <2>1, <3>1 DEF IInv, HupForGood, LastRound
    <2>7. HandHeld'
      BY <2>1 DEF HandHeld
    <2> QED BY <1>3, <2>4, <2>5, <2>6, <2>7 DEF IInv
  <1>5. CASE ~Drains
    <2>1. pc' = "stdin" /\ UNCHANGED <<hand, lastRead, out>>
      BY <1>5 DEF ReadMaster
    <2>2. TypeOK'
      BY <1>1, <2>1 DEF IInv, TypeOK, inVars
    <2>3. Conserved' /\ HandHeld'
      BY <1>1, <2>1 DEF IInv, Conserved, Printed, HandHeld
    <2>4. LastRound'
      BY <1>1, <1>5, <2>1 DEF IInv, LastRound, Drains
    <2> QED BY <1>3, <2>2, <2>3, <2>4 DEF IInv
  <1> QED BY <1>4, <1>5

\* A write that takes part of what is in hand, and the loop's end.
LEMMA WriteStdoutSteps == ASSUME IInv, WriteStdout PROVE IInv'
  <1>1. /\ pc = "stdout" /\ UNCHANGED <<revents, lastRead, out, produced, inVars, agent, owed>>
        /\ pc' \in {"stdin", "stdout", "error"}
        /\ pc' = "stdin" => hand' = <<>>
    BY DEF WriteStdout
  <1>2. hand \in Seq(Nat) /\ delivered \in Seq(Nat) /\ out \in Seq(Nat) /\ Len(hand) <= ReadMax
        /\ ReadMax \in Nat
    BY RelayAssumption DEF IInv, TypeOK
  <1>3. /\ delivered' \in Seq(Nat) /\ hand' \in Seq(Nat) /\ Len(hand') <= ReadMax
        /\ delivered' \o hand' = delivered \o hand
    <2>1. CASE UNCHANGED <<delivered, hand>>
      BY <1>2, <2>1
    <2>2. CASE \E n \in 1..Len(hand) :
                  hand' = Rest(n) /\ delivered' = delivered \o SubSeq(hand, 1, n)
      <3> PICK n \in 1..Len(hand) :
                  hand' = Rest(n) /\ delivered' = delivered \o SubSeq(hand, 1, n)
        BY <2>2
      <3>1. n \in 0..Len(hand) /\ Len(hand) \in Nat
        BY <1>2
      <3>2. /\ SubSeq(hand, 1, n) \in Seq(Nat) /\ hand' \in Seq(Nat)
            /\ Len(hand') = Len(hand) - n /\ SubSeq(hand, 1, n) \o hand' = hand
        BY <1>2, <3>1, Cut DEF Rest
      <3>3. delivered' \in Seq(Nat)
        BY <1>2, <3>2, Concatenated
      <3>4. delivered' \o hand' = delivered \o (SubSeq(hand, 1, n) \o hand')
        BY <1>2, <3>2, Regrouped
      <3>5. Len(hand') <= ReadMax
        <4>1. /\ Len(hand') = Len(hand) - n /\ Len(hand) \in Nat /\ n \in 0..Len(hand)
              /\ Len(hand) <= ReadMax /\ ReadMax \in Nat
          BY <1>2, <3>1, <3>2
        <4> QED BY ONLY <4>1
      <3> QED BY <3>2, <3>3, <3>4, <3>5
    <2> QED BY <2>1, <2>2 DEF WriteStdout
  <1>4. TypeOK'
    BY <1>1, <1>2, <1>3 DEF IInv, TypeOK, inVars, Ended
  <1>5. Conserved'
    BY <1>1, <1>3 DEF IInv, Conserved, Printed
  <1>6. HandHeld' /\ HupForGood' /\ LastRound'
    BY <1>1 DEF IInv, HandHeld, HupForGood, LastRound
  <1>7. Fits'
    BY <1>1, FitsStays DEF IInv
  <1> QED BY <1>4, <1>5, <1>6, <1>7 DEF IInv

\* A step that touches neither the output nor what the poll reported.
LEMMA InputSteps ==
    ASSUME IInv, TypeOK', Fits', UNCHANGED <<revents, outVars, agent, owed>>,
           pc \notin {"poll", "master", "stdout"},
           pc' \in {"stdin", "feed", "eofChar", "hup", "poll", "error"}, pc # "error"
    PROVE  IInv'
  <1>1. Conserved' /\ HandHeld' /\ HupForGood' /\ LastRound'
    BY DEF IInv, Conserved, Printed, HandHeld, HupForGood, LastRound, outVars
  <1> QED BY <1>1 DEF IInv

LEMMA ReadStdinSteps == ASSUME IInv, ReadStdin PROVE IInv'
  <1>1. pc = "stdin" /\ UNCHANGED <<revents, outVars, inq, partial, sawEof, agent, owed>>
    BY DEF ReadStdin
  <1>2. pc' \in {"hup", "eofChar", "feed"} /\ stdinOpen' \in BOOLEAN
    BY DEF ReadStdin, AfterEof, IInv, TypeOK
  <1>3. host \in Seq({"line", "part"}) /\ chunk \in {"none", "line", "part"}
        /\ inq \in Seq({"text", "eof"}) /\ Input \in Seq({"line", "part"})
    BY RelayAssumption DEF IInv, TypeOK
  <1>4. host # <<>> => /\ Head(host) \in {"line", "part"} /\ Tail(host) \in Seq({"line", "part"})
                       /\ Len(Tail(host)) = Len(host) - 1
    BY <1>3
  <1>5. host' \in Seq({"line", "part"}) /\ chunk' \in {"none", "line", "part"}
    BY <1>3, <1>4 DEF ReadStdin
  <1>6. TypeOK'
    BY <1>1, <1>2, <1>5 DEF IInv, TypeOK, outVars
  <1>7. Fits'
    <2>1. Len(host) \in Nat /\ Len(inq) \in Nat /\ Len(Input) \in Nat
      BY <1>3
    <2>2. CASE "stdin" \notin revents
      BY <1>1, <2>2 DEF ReadStdin, IInv, Fits
    <2>3. CASE "stdin" \in revents /\ host = <<>>
      BY <1>1, <2>1, <2>3 DEF ReadStdin, AfterEof, IInv, Fits
    <2>4. CASE "stdin" \in revents /\ host # <<>>
      <3>1. host' = Tail(host) /\ pc' = "feed" /\ stdinOpen' = stdinOpen /\ stdinOpen
        BY <1>1, <2>4 DEF ReadStdin, IInv, Fits
      <3>2. Len(host') = Len(host) - 1 /\ inq' = inq
        BY <1>1, <1>4, <2>4, <3>1
      <3>3. Len(inq) + Len(host) + 0 + 1 <= Len(Input) + 1
        BY <1>1, <2>1, <3>1 DEF IInv, Fits
      <3>4. Len(inq') + Len(host') + 1 + 1 <= Len(Input) + 1
        BY <2>1, <3>2, <3>3
      <3> QED BY <3>1, <3>4 DEF Fits
    <2> QED BY <2>2, <2>3, <2>4
  <1> QED BY <1>1, <1>2, <1>6, <1>7, InputSteps

LEMMA FeedSteps == ASSUME IInv, Feed \/ WriteEofChar PROVE IInv'
  <1>1. /\ pc \in {"feed", "eofChar"} /\ pc' \in {"hup", "error"}
        /\ UNCHANGED <<revents, outVars, stdinOpen, host, chunk, sawEof, agent, owed>>
    BY DEF Feed, WriteEofChar
  <1>2. inq \in Seq({"text", "eof"}) /\ Len(inq) <= InCap /\ InCap \in Nat /\ partial \in BOOLEAN
    BY RelayAssumption DEF IInv, TypeOK
  <1>3. \A t \in {"text", "eof"} :
            /\ Append(inq, t) \in Seq({"text", "eof"}) /\ Len(Append(inq, t)) = Len(inq) + 1
            /\ Room => Len(Append(inq, t)) <= InCap
    BY <1>2 DEF Room
  <1>4. partial' \in BOOLEAN
    BY <1>2 DEF Feed, WriteEofChar, Accept, AcceptEofChar
  <1>5. inq' \in Seq({"text", "eof"}) /\ Len(inq') <= InCap
    BY <1>2, <1>3 DEF Feed, WriteEofChar, Accept, AcceptEofChar
  <1>6. TypeOK'
    BY <1>1, <1>4, <1>5 DEF IInv, TypeOK, outVars, Ended
  <1>7. Fits'
    <2>1. inq' = inq \/ Len(inq') = Len(inq) + 1
      BY <1>3 DEF Feed, WriteEofChar, Accept, AcceptEofChar
    <2>2. /\ Len(inq) \in Nat /\ Len(host) \in Nat /\ Len(inq') \in Nat /\ Len(Input) \in Nat
      BY <1>2, <1>5, RelayAssumption DEF IInv, TypeOK
    <2>3. pc = "eofChar" => ~stdinOpen'
      BY <1>1 DEF IInv, Fits
    <2> QED BY <1>1, <2>1, <2>2, <2>3 DEF IInv, Fits
  <1> QED BY <1>1, <1>6, <1>7, InputSteps

LEMMA CheckHupSteps == ASSUME IInv, CheckHup PROVE IInv'
  <1>1. /\ pc = "hup" /\ pc' = IF "hup" \in revents THEN "done" ELSE "poll"
        /\ UNCHANGED <<revents, outVars, inVars, agent, owed>>
    BY DEF CheckHup, HungUp
  <1>2. TypeOK'
    BY <1>1 DEF IInv, TypeOK, outVars, inVars, Ended
  <1>3. Conserved' /\ HandHeld' /\ HupForGood' /\ LastRound'
    BY <1>1 DEF IInv, Conserved, Printed, HandHeld, HupForGood, LastRound, outVars
  <1>4. Fits'
    BY <1>1, FitsStays DEF IInv
  <1> QED BY <1>2, <1>3, <1>4 DEF IInv

LEMMA AgentSteps == ASSUME IInv, AgentWrites \/ AgentReads \/ AgentCloses PROVE IInv'
  <1>1. /\ agent = "running" /\ "hup" \notin revents
        /\ UNCHANGED <<pc, revents, hand, lastRead, delivered, stdinOpen, host, chunk, partial>>
    BY DEF AgentWrites, AgentReads, AgentCloses, IInv, HupForGood, inVars, outVars
  <1>2. /\ out \in Seq(Nat) /\ Len(out) <= OutCap /\ OutCap \in Nat
        /\ owed \in Nat /\ produced \in Nat /\ Gain \in Nat
        /\ inq \in Seq({"text", "eof"}) /\ Len(inq) <= InCap /\ InCap \in Nat
        /\ delivered \in Seq(Nat) /\ hand \in Seq(Nat)
    BY RelayAssumption DEF IInv, TypeOK
  <1>3. agent' \in {"running", "closed"} /\ sawEof' \in BOOLEAN
    BY DEF AgentWrites, AgentReads, AgentCloses, IInv, TypeOK, inVars
  <1>4. \/ UNCHANGED <<out, produced>>
        \/ /\ out' = Append(out, produced + 1) /\ produced' = produced + 1 /\ Len(out) < OutCap
    BY DEF AgentWrites, AgentReads, AgentCloses, outVars
  <1>5. out' \in Seq(Nat) /\ Len(out') <= OutCap /\ owed' \in Nat /\ produced' \in Nat
    <2>1. /\ Append(out, produced + 1) \in Seq(Nat)
          /\ Len(Append(out, produced + 1)) = Len(out) + 1
      BY <1>2, OneMore
    <2>2. Len(out) \in Nat /\ OutCap \in Nat /\ (Len(out) < OutCap => Len(out) + 1 <= OutCap)
      BY <1>2
    <2>3. out' \in Seq(Nat) /\ Len(out') <= OutCap /\ produced' \in Nat
      <3>1. CASE UNCHANGED <<out, produced>>
        BY <1>2, <3>1
      <3>2. CASE out' = Append(out, produced + 1) /\ produced' = produced + 1 /\ Len(out) < OutCap
        <4>1. Len(out') <= OutCap
          BY <2>1, <2>2, <3>2
        <4>2. produced' \in Nat
          BY <1>2, <3>2
        <4> QED BY <2>1, <3>2, <4>1, <4>2
      <3> QED BY <1>4, <3>1, <3>2
    <2>4. owed' \in Nat
      BY <1>2 DEF AgentWrites, AgentReads, AgentCloses
    <2> QED BY <2>3, <2>4
  <1>6. inq' \in Seq({"text", "eof"}) /\ Len(inq') <= Len(inq)
    <2>1. Len(inq) \in Nat
      BY <1>2
    <2>2. CASE UNCHANGED inq
      BY <1>2, <2>1, <2>2
    <2>3. CASE inq # <<>> /\ inq' = Tail(inq)
      <3>1. inq' \in Seq({"text", "eof"}) /\ Len(inq') = Len(inq) - 1
        BY <1>2, <2>3
      <3> QED BY <2>1, <3>1
    <2> QED BY <2>2, <2>3 DEF AgentWrites, AgentReads, AgentCloses, inVars
  <1>7. Len(inq) \in Nat /\ Len(inq') \in Nat /\ Len(inq') <= InCap
    BY <1>2, <1>6
  <1>8. TypeOK'
    BY <1>1, <1>3, <1>5, <1>6, <1>7 DEF IInv, TypeOK
  <1>9. Conserved'
    <2>1. CASE UNCHANGED <<out, produced>>
      BY <1>1, <2>1 DEF IInv, Conserved, Printed
    <2>2. CASE out' = Append(out, produced + 1) /\ produced' = produced + 1
      <3>1. delivered \o hand \in Seq(Nat)
        BY <1>2, Concatenated
      <3>2. (delivered \o hand) \o Append(out, produced + 1)
              = Append((delivered \o hand) \o out, produced + 1)
        BY <1>2, <3>1, OneMore
      <3>3. Printed' = Append(Printed, produced + 1)
        BY <1>2, <2>2, OnePrinted DEF Printed
      <3> QED BY <1>1, <2>2, <3>2, <3>3 DEF IInv, Conserved
    <2> QED BY <1>4, <2>1, <2>2
  <1>10. HandHeld' /\ HupForGood' /\ LastRound'
    BY <1>1 DEF IInv, HandHeld, HupForGood, LastRound
  <1>11. Fits'
    <2>1. Len(host) \in Nat /\ Len(Input) \in Nat
      BY RelayAssumption DEF IInv, TypeOK
    <2> QED BY <1>1, <1>6, <1>7, <2>1 DEF IInv, Fits
  <1> QED BY <1>8, <1>9, <1>10, <1>11 DEF IInv

-----------------------------------------------------------------------------
(* The theorems.                                                           *)

\* The inductive invariant of the relay.
THEOREM Invariant == Spec => []IInv
  <1>1. Init => IInv
    <2> SUFFICES ASSUME Init PROVE IInv
      OBVIOUS
    <2>1. owed \in Nat
      BY RelayAssumption DEF Init
    <2>2. /\ host \in Seq({"line", "part"}) /\ inq \in Seq({"text", "eof"}) /\ Len(inq) = 0
          /\ hand \in Seq(Nat) /\ out \in Seq(Nat) /\ delivered \in Seq(Nat)
          /\ Len(hand) = 0 /\ Len(out) = 0
      BY RelayAssumption DEF Init
    <2>3. 0 <= ReadMax /\ lastRead \in 0..ReadMax /\ 0 <= OutCap /\ 0 <= InCap
      BY RelayAssumption DEF Init
    <2>4. TypeOK
      BY <2>1, <2>2, <2>3 DEF Init, TypeOK
    <2>5. Printed = <<>>
      BY DEF Init, Printed
    <2>6. Conserved /\ HandHeld /\ HupForGood /\ LastRound
      <3>1. <<>> \o <<>> \o <<>> = <<>>
        BY <2>2, WithEmpty DEF Init
      <3> QED BY <2>5, <3>1 DEF Init, Conserved, HandHeld, HupForGood, LastRound
    <2>7. Fits
      <3>1. Len(host) = Len(Input) /\ Len(Input) \in Nat
        BY RelayAssumption DEF Init
      <3> QED BY <2>2, <3>1 DEF Init, Fits
    <2> QED BY <2>4, <2>6, <2>7 DEF IInv
  <1>2. IInv /\ [Next]_vars => IInv'
    <2> SUFFICES ASSUME IInv, [Next]_vars PROVE IInv'
      OBVIOUS
    <2>1. CASE Relay
      BY <2>1, PollSteps, ReadMasterSteps, WriteStdoutSteps, ReadStdinSteps, FeedSteps,
         CheckHupSteps DEF Relay
    <2>2. CASE AgentWrites \/ AgentReads \/ AgentCloses
      BY <2>2, AgentSteps
    <2>3. CASE UNCHANGED vars
      <3>1. TypeOK'
        BY <2>3 DEF IInv, TypeOK, vars, outVars, inVars
      <3>2. Conserved' /\ HandHeld' /\ HupForGood' /\ LastRound'
        BY <2>3 DEF IInv, Conserved, Printed, HandHeld, HupForGood, LastRound, vars, outVars
      <3>3. Fits'
        BY <2>3 DEF IInv, Fits, vars, inVars
      <3> QED BY <3>1, <3>2, <3>3 DEF IInv
    <2> QED BY <2>1, <2>2, <2>3 DEF Next
  <1> QED BY <1>1, <1>2, PTL DEF Spec

\* Every state keeps its types; the pty is never given more than it holds.
THEOREM TypeCorrect == Spec => []TypeOK
  <1>1. IInv => TypeOK
    BY DEF IInv
  <1> QED BY <1>1, Invariant, PTL

\* What the agent printed is delivered in its order, nothing lost on its way
\* and nothing twice.
THEOREM Conservation == Spec => []Conserved
  <1>1. IInv => Conserved
    BY DEF IInv
  <1> QED BY <1>1, Invariant, PTL

\* The end of stdin never ends the relay.
THEOREM Outlives == Spec => []RelayOutlivesStdin
  <1>1. IInv => RelayOutlivesStdin
    BY DEF IInv, HupForGood, RelayOutlivesStdin
  <1> QED BY <1>1, Invariant, PTL

\* A normal end loses nothing of a backlog of one read.
THEOREM BoundedLoss == Spec => []LossOnlyBeyondOneRead
  <1>1. IInv => LossOnlyBeyondOneRead
    BY DEF IInv, HupForGood, LastRound, LossOnlyBeyondOneRead
  <1> QED BY <1>1, Invariant, PTL

\* Relay and agent wait for each other only where the input is more than the
\* pty holds, the ^D included.
THEOREM NeverStuck ==
    ASSUME Len(Input) < InCap
    PROVE  Spec => []~Stuck
  <1>1. IInv => ~Stuck
    <2> SUFFICES ASSUME IInv, pc \in {"feed", "eofChar"} PROVE Room
      BY DEF Stuck
    <2>1. Len(inq) \in Nat /\ Len(host) \in Nat /\ Len(Input) \in Nat /\ InCap \in Nat
      BY RelayAssumption DEF IInv, TypeOK
    <2> QED BY <2>1 DEF IInv, Fits, Room
  <1> QED BY <1>1, Invariant, PTL
=============================================================================
