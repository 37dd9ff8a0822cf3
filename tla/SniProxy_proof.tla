--------------------------- MODULE SniProxy_proof ---------------------------
(***************************************************************************)
(* Proofs about the SNI proxy for any number of clients, any cap and any   *)
(* limits of the host.  Two invariants carry them: what the process holds  *)
(* at each step of its start, and how the counter, the acceptor's hands    *)
(* and the phases of the connections go together.                          *)
(***************************************************************************)
EXTENDS SniProxy, FiniteSetTheorems, TLAPS

\* The rights of the process by the number of steps done.
Progress ==
    /\ at \in 0..11
    /\ up = "starting" => at < 11
    /\ up = "serving" => at = 11
    /\ up = "failed" => at < 5
    /\ (at >= 2 => proc.userns) /\ (at >= 3 => proc.netns)
    /\ at >= 2 => proc.eff = (IF at < 9 THEN Caps ELSE {"net_admin"})
    /\ at >= 2 => proc.perm = (IF at < 9 THEN Caps ELSE {"net_admin"})
    /\ at >= 8 => proc.bound = {"net_admin"}
    /\ at >= 6 => proc.nnp
    /\ at >= 7 => ~proc.dumpable
    /\ proc.filter => at >= 10
    /\ at >= 10 => proc.filter

\* The connection in the acceptor's hands is the one that is accepted.
Hands ==
    /\ apc = "accept" => held = {}
    /\ \A c \in Conns : conn[c] = "accepted" => c \in held
    /\ \A c \in held : conn[c] = "accepted" /\ held = {c}

\* CountExact alone is not inductive: the cap is decided from the counter.
Counting ==
    /\ CountExact
    /\ Cardinality(In(Handled)) <= MaxConns
    /\ apc = "spawn" => active <= MaxConns

IInv == TypeOK /\ Progress /\ Hands /\ Counting

-----------------------------------------------------------------------------
(* The start.                                                              *)

\* Whatever the filter is, the threads of the proxy only call what is on it.
LEMMA CallsPermitted == \A p \in DOMAIN Calls : Permits(Calls[p])
  BY DEF Calls, Piping, Permits, Allowed, Waits, Sockets

\* Each step finds what it needs and leaves what Progress says.
LEMMA StartSteps ==
    ASSUME StartTypeOK, Progress, Start
    PROVE  StartTypeOK' /\ Progress'
  <1> DEFINE step == Steps[at + 1]
  <1>1. at \in 0..10 /\ up = "starting" /\ Len(Steps) = 11
    BY DEF Start, Progress, Steps
  <1>2. Granted(step)
    <2>1. (step = "netns" => at = 2) /\ (step = "bound" => at = 7) /\ (step = "caps" => at = 8)
      BY <1>1 DEF Steps
    <2> QED BY <1>1, <2>1 DEF Granted, Progress, Caps
  <1>3. Permits(CallsOf(step))
    <2>1. at >= 10 => step = "announce"
      BY <1>1 DEF Steps
    <2>2. Permits({"write"})
      BY DEF Permits, Allowed
    <2>3. CallsOf("announce") = {"write"}
      BY DEF CallsOf
    <2> QED BY <2>1, <2>2, <2>3 DEF Permits, Progress
  <1>4. /\ at' = at + 1 /\ proc' = After(step)
        /\ up' = IF at + 1 = 11 THEN "serving" ELSE up
    BY <1>1, <1>2, <1>3 DEF Start
  <1>5. /\ step = "userns" <=> at = 1
        /\ step = "netns" <=> at = 2
        /\ step = "nnp" <=> at = 5
        /\ step = "dumpable" <=> at = 6
        /\ step = "bound" <=> at = 7
        /\ step = "caps" <=> at = 8
        /\ step = "filter" <=> at = 9
    BY <1>1 DEF Steps
  <1> HIDE DEF step
  <1>6. /\ proc.userns \/ step = "userns" => proc'.userns
        /\ proc.netns \/ step = "netns" => proc'.netns
        /\ proc.nnp \/ step = "nnp" => proc'.nnp
        /\ ~proc.dumpable \/ step = "dumpable" => ~proc'.dumpable
        /\ step = "filter" => proc'.filter
        /\ step # "filter" => proc'.filter = proc.filter
    BY <1>4 DEF After, StartTypeOK
  <1>7. /\ proc'.eff = IF step = "userns" THEN Caps
                       ELSE IF step = "caps" THEN {"net_admin"} ELSE proc.eff
        /\ proc'.perm = IF step = "userns" THEN Caps
                        ELSE IF step = "caps" THEN {"net_admin"} ELSE proc.perm
        /\ proc'.bound = IF step = "userns" THEN Caps
                         ELSE IF step = "bound" THEN {"net_admin"} ELSE proc.bound
    BY <1>4 DEF After, StartTypeOK
  <1>8. proc' \in [userns : BOOLEAN, netns : BOOLEAN, eff : SUBSET Caps, perm : SUBSET Caps,
                   bound : SUBSET Caps, nnp : BOOLEAN, dumpable : BOOLEAN, filter : BOOLEAN]
    <2>1. {"net_admin"} \in SUBSET Caps /\ Caps \in SUBSET Caps
      BY DEF Caps
    <2> QED BY <1>4, <2>1 DEF After, StartTypeOK
  <1>9. StartTypeOK'
    BY <1>1, <1>4, <1>8 DEF StartTypeOK
  <1>10. Progress'
    <2>1. /\ at' \in 0..11 /\ (up' = "starting" => at' < 11) /\ (up' = "serving" => at' = 11)
          /\ up' # "failed"
      BY <1>1, <1>4
    <2>2. /\ at' >= 2 => proc'.eff = (IF at' < 9 THEN Caps ELSE {"net_admin"})
          /\ at' >= 2 => proc'.perm = (IF at' < 9 THEN Caps ELSE {"net_admin"})
          /\ at' >= 8 => proc'.bound = {"net_admin"}
      BY <1>1, <1>4, <1>5, <1>7 DEF Progress
    <2>3. /\ at' >= 2 => proc'.userns
          /\ at' >= 3 => proc'.netns
          /\ at' >= 6 => proc'.nnp
          /\ at' >= 7 => ~proc'.dumpable
      BY <1>1, <1>4, <1>5, <1>6 DEF Progress
    <2>4. (proc'.filter => at' >= 10) /\ (at' >= 10 => proc'.filter)
      BY <1>1, <1>4, <1>5, <1>6 DEF Progress
    <2> QED BY <2>1, <2>2, <2>3, <2>4 DEF Progress
  <1> QED BY <1>9, <1>10

\* The first five steps are those that the host may fail.
LEMMA HostSteps == \A n \in 0..10 : Steps[n + 1] \in HostFails <=> n < 5
  BY DEF Steps, HostFails

LEMMA StartFailures ==
    ASSUME StartTypeOK, Progress, StartFails
    PROVE  StartTypeOK' /\ Progress'
  <1>1. at \in 0..10 /\ at < 5 /\ up' = "failed" /\ at' = at /\ proc' = proc
    BY HostSteps DEF StartFails, Progress
  <1>2. StartTypeOK'
    BY <1>1 DEF StartTypeOK
  <1>3. Progress'
    BY <1>1 DEF Progress
  <1> QED BY <1>2, <1>3

-----------------------------------------------------------------------------
(* Counting.                                                               *)

LEMMA InFinite ==
    ASSUME NEW S
    PROVE  IsFiniteSet(In(S)) /\ Cardinality(In(S)) \in Nat
  <1>1. IsFiniteSet(Conns) /\ In(S) \in SUBSET Conns
    BY ProxyAssumption DEF In
  <1> QED BY <1>1, FS_Subset, FS_CardinalityType

\* What a connection's move does to a set of phases.
LEMMA InMoved ==
    ASSUME NEW S, NEW c \in Conns, conn \in [Conns -> Phases], NEW to, Move(c, to)
    PROVE  In(S)' = IF to \in S THEN In(S) \cup {c} ELSE In(S) \ {c}
  <1>1. conn' = [conn EXCEPT ![c] = to]
    BY DEF Move
  <1>2. \A d \in Conns : conn'[d] = IF d = c THEN to ELSE conn[d]
    BY <1>1
  <1> QED BY <1>2 DEF In

\* The handlers a connection's move adds or takes away.
LEMMA HandledMoved ==
    ASSUME NEW c \in Conns, conn \in [Conns -> Phases], NEW to, Move(c, to)
    PROVE  Cardinality(In(Handled))' =
              IF to \in Handled
              THEN IF conn[c] \in Handled THEN Cardinality(In(Handled))
                   ELSE Cardinality(In(Handled)) + 1
              ELSE IF conn[c] \in Handled THEN Cardinality(In(Handled)) - 1
                   ELSE Cardinality(In(Handled))
  <1>1. c \in In(Handled) <=> conn[c] \in Handled
    BY DEF In
  <1>2. IsFiniteSet(In(Handled))
    BY InFinite
  <1>3. CASE to \in Handled
    <2>1. In(Handled)' = In(Handled) \cup {c}
      BY <1>3, InMoved
    <2>2. Cardinality(In(Handled) \cup {c}) =
              IF c \in In(Handled) THEN Cardinality(In(Handled)) ELSE Cardinality(In(Handled)) + 1
      BY <1>2, FS_AddElement
    <2> QED BY <1>1, <1>3, <2>1, <2>2
  <1>4. CASE to \notin Handled
    <2>1. In(Handled)' = In(Handled) \ {c}
      BY <1>4, InMoved
    <2>2. Cardinality(In(Handled) \ {c}) =
              IF c \in In(Handled) THEN Cardinality(In(Handled)) - 1 ELSE Cardinality(In(Handled))
      BY <1>2, FS_RemoveElement
    <2> QED BY <1>1, <1>4, <2>1, <2>2
  <1> QED BY <1>3, <1>4

\* A handler that has no second thread leaves its slot one to spawn.
LEMMA ThreadsBounded ==
    ASSUME leaving \in Nat, NEW c \in In(Handled), conn[c] \notin Paired
    PROVE  Threads <= 2 * Cardinality(In(Handled)) - 1 + leaving
  <1>1. In(Paired) \in SUBSET (In(Handled) \ {c})
    BY DEF In, Handled, Paired
  <1>2. IsFiniteSet(In(Handled) \ {c})
        /\ Cardinality(In(Handled) \ {c}) = Cardinality(In(Handled)) - 1
    BY InFinite, FS_RemoveElement
  <1>3. Cardinality(In(Paired)) <= Cardinality(In(Handled)) - 1
    BY <1>1, <1>2, FS_Subset
  <1>4. Cardinality(In(Paired)) \in Nat /\ Cardinality(In(Handled)) \in Nat
    BY InFinite
  <1> QED BY <1>3, <1>4 DEF Threads

LEMMA ThreadsTwice ==
    ASSUME leaving \in Nat
    PROVE  Threads \in Nat /\ Threads <= 2 * Cardinality(In(Handled)) + leaving
  <1>1. In(Paired) \in SUBSET In(Handled)
    BY DEF In, Handled, Paired
  <1>2. Cardinality(In(Paired)) <= Cardinality(In(Handled))
    BY <1>1, InFinite, FS_Subset
  <1>3. Cardinality(In(Paired)) \in Nat /\ Cardinality(In(Handled)) \in Nat
    BY InFinite
  <1> QED BY <1>2, <1>3 DEF Threads

-----------------------------------------------------------------------------
(* The steps.                                                              *)

\* An abort resets everything but what the clients still have to do.
LEMMA AbortSteps ==
    ASSUME IInv, Abort
    PROVE  IInv'
  <1>1. conn' \in [Conns -> Phases] /\ \A c \in Conns : conn'[c] \in {"idle", "closed", "refused"}
    BY DEF Abort, IInv, TypeOK, Phases
  <1>2. In(Handled)' = {}
    BY <1>1 DEF In, Handled
  <1>3. Cardinality(In(Handled))' = 0
    BY <1>2, FS_EmptySet
  <1>4. TypeOK'
    BY <1>1 DEF Abort, IInv, TypeOK, startVars, StartTypeOK
  <1>5. Hands'
    BY <1>1 DEF Abort, Hands
  <1>6. Counting'
    BY <1>3, ProxyAssumption DEF Abort, Counting, CountExact
  <1>7. Progress'
    BY DEF Abort, IInv, Progress, startVars
  <1> QED BY <1>4, <1>5, <1>6, <1>7 DEF IInv

\* A handler that advances within its life, where its calls are permitted.
LEMMA AdvanceSteps ==
    ASSUME IInv, NEW c \in Conns, NEW from \in Handled \ {"ending"},
           NEW to \in Handled, NEW over \in {0, 1}, Advance(c, from, to, over)
    PROVE  IInv'
  <1>1. /\ Move(c, to) /\ conn[c] = from /\ leaving' = leaving + over
        /\ UNCHANGED <<apc, held, active, dead, limits, startVars>>
    BY CallsPermitted DEF Advance, Calls, Handled
  <1>2. conn \in [Conns -> Phases] /\ from \in Handled
    BY DEF IInv, TypeOK
  <1>3. Cardinality(In(Handled))' = Cardinality(In(Handled))
    BY <1>1, <1>2, HandledMoved
  <1>4. conn' \in [Conns -> Phases] /\ \A d \in Conns : conn'[d] = IF d = c THEN to ELSE conn[d]
    BY <1>1, <1>2 DEF Move, Handled, Phases
  <1>5. TypeOK'
    BY <1>1, <1>4 DEF IInv, TypeOK, startVars, StartTypeOK
  <1>6. Progress'
    BY <1>1 DEF IInv, Progress, startVars
  <1>7. Hands'
    BY <1>1, <1>4 DEF IInv, Hands, Handled, TypeOK
  <1>8. Counting'
    BY <1>1, <1>3 DEF IInv, Counting, CountExact
  <1> QED BY <1>5, <1>6, <1>7, <1>8 DEF IInv

\* fetch_add and the comparison of its old value with the cap.
LEMMA CheckSteps ==
    ASSUME IInv, Check
    PROVE  IInv'
  <1>1. /\ active \in Nat /\ MaxConns \in Nat
        /\ Cardinality(In(Handled)) \in Nat /\ Cardinality(In(Handled)) <= MaxConns
    BY InFinite, ProxyAssumption DEF IInv, TypeOK, Counting
  <1>2. apc' = IF active >= MaxConns THEN "undo" ELSE "spawn"
    BY DEF Check, Full
  <1>3. active = Cardinality(In(Handled)) /\ active' = active + 1
    BY <1>1 DEF Check, IInv, Counting, CountExact
  <1>4. TypeOK'
    BY <1>1, <1>2, <1>3 DEF Check, IInv, TypeOK, startVars, StartTypeOK
  <1>5. Progress' /\ Hands'
    BY <1>2 DEF Check, IInv, Progress, Hands, startVars
  <1>6. Cardinality(In(Handled))' = Cardinality(In(Handled))
    BY DEF Check, In
  <1>7. Counting'
    BY <1>1, <1>2, <1>3, <1>6 DEF Check, Counting, CountExact
  <1> QED BY <1>4, <1>5, <1>7 DEF IInv

\* What the acceptor does keeps the counter and its hands in step.
LEMMA AcceptorSteps ==
    ASSUME IInv, NEW c \in Conns, Accept(c) \/ Undo(c) \/ Spawn(c)
    PROVE  IInv'
  <1>1. /\ conn \in [Conns -> Phases] /\ active \in Nat /\ MaxConns \in Nat
        /\ Cardinality(In(Handled)) \in Nat /\ Cardinality(In(Handled)) <= MaxConns
    BY InFinite, ProxyAssumption DEF IInv, TypeOK, Counting
  <1>2. Permits(Calls.accept) /\ Permits(Calls.spawn)
    BY CallsPermitted DEF Calls
  <1>3. CASE Accept(c)
    <2>1. /\ Move(c, "accepted") /\ conn[c] = "backlog" /\ held' = {c}
          /\ apc = "accept" /\ apc' = "check"
          /\ UNCHANGED <<active, leaving, dead, limits, startVars>>
      BY <1>2, <1>3 DEF Accept
    <2>2. conn' = [conn EXCEPT ![c] = "accepted"]
      BY <2>1 DEF Move
    <2>3. Cardinality(In(Handled))' = Cardinality(In(Handled))
      BY <1>1, <2>1, HandledMoved DEF Handled
    <2>4. TypeOK'
      BY <1>1, <2>1, <2>2 DEF IInv, TypeOK, Phases, startVars, StartTypeOK
    <2>5. Progress'
      BY <2>1 DEF IInv, Progress, startVars
    <2>6. Hands'
      BY <1>1, <2>1, <2>2 DEF IInv, Hands
    <2>7. Counting'
      BY <2>1, <2>3 DEF IInv, Counting, CountExact
    <2> QED BY <2>4, <2>5, <2>6, <2>7 DEF IInv
  <1>4. CASE Undo(c)
    <2>1. /\ Move(c, "refused") /\ c \in held /\ held' = {} /\ active' = active - 1
          /\ apc = "undo" /\ apc' = "accept" /\ UNCHANGED <<leaving, dead, limits, startVars>>
      BY <1>4 DEF Undo, Uncounted
    <2>2. conn' = [conn EXCEPT ![c] = "refused"] /\ conn[c] = "accepted" /\ held = {c}
      BY <2>1 DEF Move, IInv, Hands
    <2>3. Cardinality(In(Handled))' = Cardinality(In(Handled))
      BY <1>1, <2>1, <2>2, HandledMoved DEF Handled
    <2>4. active = Cardinality(In(Handled)) + 1
      BY <2>1 DEF IInv, Counting, CountExact
    <2>5. TypeOK'
      BY <1>1, <2>1, <2>2, <2>4 DEF IInv, TypeOK, Phases, startVars, StartTypeOK
    <2>6. Progress'
      BY <2>1 DEF IInv, Progress, startVars
    <2>7. Hands'
      BY <1>1, <2>1, <2>2 DEF IInv, Hands
    <2>8. Counting'
      BY <1>1, <2>1, <2>3, <2>4 DEF Counting, CountExact
    <2> QED BY <2>5, <2>6, <2>7, <2>8 DEF IInv
  <1>5. CASE Spawn(c)
    <2>1. apc = "spawn" /\ c \in held /\ active <= MaxConns
            /\ active = Cardinality(In(Handled)) + 1
      BY <1>5 DEF Spawn, IInv, Counting, CountExact
    <2>2. CASE Threads < limits.threads
      <3>1. /\ Move(c, "peek") /\ held' = {} /\ apc' = "accept"
            /\ UNCHANGED <<active, leaving, dead, limits, startVars>>
        BY <1>2, <1>5, <2>2 DEF Spawn
      <3>2. conn' = [conn EXCEPT ![c] = "peek"] /\ conn[c] = "accepted" /\ held = {c}
        BY <2>1, <3>1 DEF Move, IInv, Hands
      <3>3. Cardinality(In(Handled))' = Cardinality(In(Handled)) + 1
        BY <1>1, <3>1, <3>2, HandledMoved DEF Handled
      <3>4. TypeOK'
        BY <1>1, <3>1, <3>2 DEF IInv, TypeOK, Phases, startVars, StartTypeOK
      <3>5. Progress'
        BY <3>1 DEF IInv, Progress, startVars
      <3>6. Hands'
        BY <1>1, <3>1, <3>2 DEF IInv, Hands
      <3>7. Counting'
        BY <1>1, <2>1, <3>1, <3>3 DEF Counting, CountExact
      <3> QED BY <3>4, <3>5, <3>6, <3>7 DEF IInv
    <2>3. CASE ~(Threads < limits.threads)
      BY <1>5, <2>3, AbortSteps DEF Spawn
    <2> QED BY <2>2, <2>3
  <1> QED BY <1>3, <1>4, <1>5

\* The end of a handler, which is counted out, or its way there.
LEMMA EndingSteps ==
    ASSUME IInv, NEW c \in Conns, Release(c)
    PROVE  IInv'
  <1>1. /\ conn \in [Conns -> Phases] /\ active \in Nat /\ MaxConns \in Nat
        /\ Cardinality(In(Handled)) \in Nat /\ Cardinality(In(Handled)) <= MaxConns
    BY InFinite, ProxyAssumption DEF IInv, TypeOK, Counting
  <1>2. /\ Move(c, "closed") /\ conn[c] = "ending" /\ active' = active - 1
        /\ leaving' = leaving + 1 /\ UNCHANGED <<apc, held, dead, limits, startVars>>
    BY CallsPermitted DEF Release, Calls
  <1>3. conn' = [conn EXCEPT ![c] = "closed"]
    BY <1>2 DEF Move
  <1>4. Cardinality(In(Handled))' = Cardinality(In(Handled)) - 1
    BY <1>1, <1>2, HandledMoved DEF Handled
  <1>5. Cardinality(In(Handled))' \in Nat
    <2>1. c \in In(Handled)
      BY <1>2 DEF In, Handled
    <2>2. Cardinality(In(Handled)) # 0
      BY <2>1, InFinite, FS_EmptySet
    <2> QED BY <1>1, <1>4, <2>2
  <1>6. active' \in Nat /\ Counting'
    BY <1>1, <1>2, <1>4, <1>5 DEF IInv, Counting, CountExact
  <1>7. TypeOK'
    BY <1>1, <1>2, <1>3, <1>6 DEF IInv, TypeOK, Phases, startVars, StartTypeOK
  <1>8. Progress'
    BY <1>2 DEF IInv, Progress, startVars
  <1>9. Hands'
    BY <1>1, <1>2, <1>3 DEF IInv, Hands
  <1> QED BY <1>6, <1>7, <1>8, <1>9 DEF IInv

\* The spawn of the second thread of a connection.
LEMMA SplicedSteps ==
    ASSUME IInv, NEW c \in Conns, Spliced(c)
    PROVE  IInv'
  <1>1. CASE Threads < limits.threads
    <2>1. leaving \in Nat
      BY DEF IInv, TypeOK
    <2>2. Advance(c, "splice", "relay", 0)
      BY <1>1, <2>1, CallsPermitted DEF Spliced, Advance, Calls
    <2> QED BY <2>2, AdvanceSteps DEF Handled
  <1>2. CASE ~(Threads < limits.threads)
    BY <1>2, AbortSteps DEF Spliced
  <1> QED BY <1>1, <1>2

\* The end of a thread touches nothing else.
LEMMA GoneSteps ==
    ASSUME IInv, ThreadGone
    PROVE  IInv'
  <1>1. /\ leaving' = leaving - 1 /\ leaving > 0
        /\ UNCHANGED <<apc, held, active, conn, dead, limits, startVars>>
    BY CallsPermitted DEF ThreadGone, Calls
  <1>2. TypeOK'
    BY <1>1 DEF IInv, TypeOK, startVars, StartTypeOK
  <1>3. Progress' /\ Hands' /\ Counting'
    BY <1>1 DEF IInv, Progress, Hands, Counting, CountExact, In, startVars
  <1> QED BY <1>2, <1>3 DEF IInv

LEMMA ConnectSteps ==
    ASSUME IInv, NEW c \in Conns, Connect(c)
    PROVE  IInv'
  <1>1. conn \in [Conns -> Phases]
    BY DEF IInv, TypeOK
  <1> DEFINE to == IF dead THEN "refused" ELSE "backlog"
  <1>2. /\ Move(c, to) /\ conn[c] = "idle" /\ to \in {"refused", "backlog"}
        /\ UNCHANGED <<apc, held, active, leaving, dead, limits, startVars>>
    BY DEF Connect
  <1> HIDE DEF to
  <1>3. conn' = [conn EXCEPT ![c] = to]
    BY <1>2 DEF Move
  <1>4. Cardinality(In(Handled))' = Cardinality(In(Handled))
    BY <1>1, <1>2, HandledMoved DEF Handled
  <1>5. TypeOK'
    BY <1>1, <1>2, <1>3 DEF IInv, TypeOK, Phases, startVars, StartTypeOK
  <1>6. Progress'
    BY <1>2 DEF IInv, Progress, startVars
  <1>7. Hands'
    BY <1>1, <1>2, <1>3 DEF IInv, Hands
  <1>8. Counting'
    BY <1>2, <1>4 DEF IInv, Counting, CountExact
  <1> QED BY <1>5, <1>6, <1>7, <1>8 DEF IInv

-----------------------------------------------------------------------------
(* The theorems.                                                           *)

\* The inductive invariant of the proxy.
THEOREM Invariant == Spec => []IInv
  <1>1. Init => IInv
    <2> SUFFICES ASSUME Init PROVE IInv
      OBVIOUS
    <2>1. StartTypeOK
      BY DEF Init, StartInit, StartTypeOK, Caps, Steps
    <2>2. TypeOK
      BY <2>1 DEF Init, TypeOK, Phases
    <2>3. Progress
      BY DEF Init, StartInit, Progress
    <2>4. Hands
      BY DEF Init, Hands
    <2>5. In(Handled) = {}
      BY DEF Init, In, Handled
    <2>6. Counting
      BY <2>5, FS_EmptySet, ProxyAssumption DEF Init, Counting, CountExact
    <2> QED BY <2>2, <2>3, <2>4, <2>6 DEF IInv
  <1>2. IInv /\ [Next]_vars => IInv'
    <2> SUFFICES ASSUME IInv, [Next]_vars PROVE IInv'
      OBVIOUS
    <2>1. CASE (Start \/ StartFails) /\ UNCHANGED loopVars
      <3>1. StartTypeOK' /\ Progress'
        BY <2>1, StartSteps, StartFailures DEF IInv, TypeOK
      <3>2. TypeOK'
        BY <2>1, <3>1 DEF IInv, TypeOK, loopVars
      <3>3. Hands' /\ Counting'
        BY <2>1 DEF IInv, Hands, Counting, CountExact, In, loopVars
      <3> QED BY <3>1, <3>2, <3>3 DEF IInv
    <2>2. CASE Acceptor
      BY <2>2, CheckSteps, AcceptorSteps DEF Acceptor
    <2>3. ASSUME NEW c \in Conns, Connect(c) \/ Handler(c) \/ Peers(c)
          PROVE  IInv'
      <3>1. CASE Connect(c)
        BY <3>1, ConnectSteps
      <3>2. CASE Replayed(c)
        BY <3>2, AdvanceSteps DEF Replayed, Handled
      <3>3. CASE Spliced(c)
        BY <3>3, SplicedSteps
      <3>4. CASE GivesUp(c)
        BY <3>4, AdvanceSteps DEF GivesUp, EarlyReturns, Handled
      <3>5. CASE Release(c)
        BY <3>5, EndingSteps
      <3>6. CASE Peeked(c)
        BY <3>6, AdvanceSteps DEF Peeked, Handled
      <3>7. CASE Dialled(c)
        BY <3>7, AdvanceSteps DEF Dialled, Handled
      <3>8. CASE SecondOver(c)
        BY <3>8, AdvanceSteps DEF SecondOver, Handled
      <3>9. CASE OwnOver(c)
        BY <3>9, AdvanceSteps DEF OwnOver, Handled
      <3>10. CASE RelayOver(c)
        BY <3>10, AdvanceSteps DEF RelayOver, Handled
      <3> QED BY <2>3, <3>1, <3>2, <3>3, <3>4, <3>5, <3>6, <3>7, <3>8, <3>9, <3>10
          DEF Handler, Peers
    <2>4. CASE UNCHANGED vars
      <3>1. TypeOK' /\ Progress' /\ Hands'
        BY <2>4 DEF IInv, TypeOK, StartTypeOK, Progress, Hands, vars, loopVars, startVars
      <3>2. Counting'
        BY <2>4 DEF IInv, Counting, CountExact, In, vars, loopVars
      <3> QED BY <3>1, <3>2 DEF IInv
    <2>5. CASE ThreadGone
      BY <2>5, GoneSteps
    <2> QED BY <2>1, <2>2, <2>3, <2>4, <2>5 DEF Next
  <1> QED BY <1>1, <1>2, PTL DEF Spec

\* Every state keeps its types.
THEOREM TypeCorrect == Spec => []TypeOK
  <1>1. IInv => TypeOK
    BY DEF IInv
  <1> QED BY <1>1, Invariant, PTL

\* Never more than MAX_CONNS connections are being served.
THEOREM Capped == Spec => []CapHeld
  <1>1. IInv => CapHeld
    <2> SUFFICES ASSUME IInv PROVE CapHeld
      OBVIOUS
    <2>1. In(Serving) \in SUBSET In(Handled)
      BY DEF In, Serving
    <2>2. Cardinality(In(Serving)) <= Cardinality(In(Handled))
      BY <2>1, InFinite, FS_Subset
    <2> QED BY <2>2, InFinite, ProxyAssumption DEF IInv, Counting, CapHeld
  <1> QED BY <1>1, Invariant, PTL

\* No interleaving loses a slot or frees one twice.
THEOREM Counted == Spec => []CountExact
  <1>1. IInv => CountExact
    BY DEF IInv, Counting
  <1> QED BY <1>1, Invariant, PTL

\* The filter never ends the proxy, nor does a lack of threads on a host
\* that grants two for each slot and one for each thread that is not gone.
THEOREM Survival == Spec => Survives
  <1> DEFINE enough == dead' /\ ~dead => limits.threads < 2 * MaxConns + leaving
  <1>1. IInv /\ [Next]_vars => [enough]_vars
    <2> SUFFICES ASSUME IInv, Next, dead', ~dead
                 PROVE  limits.threads < 2 * MaxConns + leaving
      BY DEF vars
    <2>1. PICK c \in Conns : (Spawn(c) \/ Spliced(c)) /\ ~(Threads < limits.threads)
      <3>1. ~((Start \/ StartFails) /\ UNCHANGED loopVars) /\ ~Check /\ ~ThreadGone
        BY CallsPermitted DEF loopVars, Check, ThreadGone, Calls
      <3>2. ASSUME NEW d \in Conns, NEW from, NEW to, NEW over, from \in Handled,
                   Advance(d, from, to, over)
            PROVE  FALSE
        BY <3>2, CallsPermitted DEF Advance, Calls, Handled
      <3>3. ASSUME NEW d \in Conns
            PROVE  /\ ~Connect(d) /\ ~Accept(d) /\ ~Undo(d) /\ ~Release(d)
                   /\ ~Replayed(d) /\ ~GivesUp(d) /\ ~Peers(d)
        <4>1. ~Connect(d) /\ ~Accept(d) /\ ~Undo(d) /\ ~Release(d)
          BY CallsPermitted DEF Connect, Accept, Undo, Release, Calls
        <4>2. ~Replayed(d) /\ ~GivesUp(d) /\ ~Peers(d)
          BY <3>2 DEF Replayed, GivesUp, EarlyReturns, Peers, Peeked, Dialled, SecondOver,
                      OwnOver, RelayOver, Handled
        <4> QED BY <4>1, <4>2
      <3>4. PICK d \in Conns : Spawn(d) \/ Spliced(d)
        BY <3>1, <3>3 DEF Next, Acceptor, Handler
      <3>5. ~(Threads < limits.threads)
        BY <3>4, CallsPermitted DEF Spawn, Spliced, Calls
      <3> QED BY <3>4, <3>5
    <2>2. /\ limits.threads \in Nat /\ MaxConns \in Nat /\ leaving \in Nat
          /\ Cardinality(In(Handled)) \in Nat /\ Cardinality(In(Handled)) <= MaxConns
      BY InFinite, ProxyAssumption DEF IInv, TypeOK, Counting
    <2>3. Threads \in Nat /\ Threads <= 2 * Cardinality(In(Handled)) + leaving
      BY <2>2, ThreadsTwice
    <2>4. CASE Spawn(c)
      <3>1. Cardinality(In(Handled)) + 1 <= MaxConns
        BY <2>2, <2>4 DEF Spawn, IInv, Counting, CountExact
      <3> QED BY <2>1, <2>2, <2>3, <3>1
    <2>5. CASE Spliced(c)
      <3>1. Threads <= 2 * Cardinality(In(Handled)) - 1 + leaving
        BY <2>2, <2>5, ThreadsBounded DEF Spliced, In, Handled, Paired
      <3> QED BY <2>1, <2>2, <2>3, <3>1
    <2> QED BY <2>1, <2>4, <2>5
  <1> QED BY <1>1, Invariant, PTL DEF Spec, Survives

\* A proxy that serves has given up everything that serving does not need.
THEOREM Containment == Spec => []Contained
  <1>1. IInv => Contained
    <2> SUFFICES ASSUME IInv, up = "serving" PROVE Contained
      BY DEF Contained
    <2>1. /\ proc.userns /\ proc.netns /\ proc.nnp /\ ~proc.dumpable /\ proc.filter
          /\ proc.eff = {"net_admin"} /\ proc.perm = {"net_admin"} /\ proc.bound = {"net_admin"}
      BY DEF IInv, Progress
    <2>2. \A call \in {"open", "openat", "openat2", "execve", "execveat", "ptrace", "mount",
                       "setns", "seccomp", "capset", "prctl", "socket_netlink", "socket_unix"} :
             call \notin Allowed
      BY DEF Allowed, Waits, Sockets
    <2> QED BY <2>1, <2>2 DEF Contained, Permits
  <1> QED BY <1>1, Invariant, PTL

\* Each step of harden() finds the rights it needs.
THEOREM ComesUp == Spec => []OnlyHostFails
  <1>1. IInv => OnlyHostFails
    BY HostSteps DEF IInv, Progress, OnlyHostFails
  <1> QED BY <1>1, Invariant, PTL
=============================================================================
