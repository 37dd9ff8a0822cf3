---------------------------- MODULE Launch_proof ----------------------------
(***************************************************************************)
(* Proofs about Launch, for every number of polls and of kills, with and   *)
(* without a proxy.  The safety properties of Launch are not inductive: a  *)
(* byte in a pipe, or a program counter, stands for what the other process *)
(* had done before.  IInv says what each of them stands for.               *)
(***************************************************************************)
EXTENDS Launch, TLAPS

\* What the child has set up, by where it is.
ChildProgress ==
    /\ cpc \notin {"forked", "userns", "exited"} => "userns" \in net
    /\ cpc \notin {"forked", "userns", "maps", "exited"} => "maps" \in net
    /\ cpc \notin {"forked", "userns", "maps", "netns", "exited"} =>
            {"netns", "netadmin"} \subseteq net
    /\ cpc \notin {"forked", "userns", "maps", "netns", "lo", "exited"} => "lo" \in net
    /\ cpc \notin {"forked", "userns", "maps", "netns", "lo", "nft", "exited"} =>
            "filter" \in net

\* The ready byte, and all that follows from it, stand for a sealed netns.
ReadyMeansSealed ==
    /\ ready => Sealed
    /\ ppc = "spawnPasta" => Sealed
    /\ pasta # "none" => Sealed
    /\ "route" \in net => Sealed

\* What the proxy has set up, by where it is.
ProxyProgress ==
    /\ proxy = "route" => "joined" \in prx
    /\ proxy = "bind" => {"joined", "routed"} \subseteq prx
    /\ proxy = "harden" => {"joined", "routed", "bound"} \subseteq prx
    /\ proxy = "announce" => ProxyFacts \subseteq prx
    /\ announced => proxy # "none" /\ ProxyFacts \subseteq prx
    /\ proxy # "none" => pasta # "none"

\* What the go byte stands for.
Released == pasta # "none" /\ (Sni => announced)

PastGate == {"route", "exec", "agent"}

BeforeGo == {"forked", "readReady", "spawnPasta", "pollPasta", "spawnProxy",
             "sendConfig", "awaitListening", "writeGo"}

GoMeansReleased ==
    /\ ppc \in {"pollPasta", "spawnProxy", "sendConfig", "awaitListening", "writeGo"} =>
            pasta # "none"
    /\ ppc = "writeGo" => Released
    /\ go \/ cpc \in PastGate => Released
    /\ ppc \in BeforeGo => ~go /\ cpc \notin PastGate

\* Where the parent's exit is decided, the child is over or will never pass;
\* after a launch error, not even if the parent is killed before it returns.
ExitMeansOver ==
    /\ ppc \in {"restore", "kill", "reap", "returned"} /\ exit # "noSigwinch" =>
            cpc = "exited" \/ (~go /\ cpc \notin PastGate)
    /\ exit \in LaunchErrors =>
            ppc \in {"kill", "reap", "returned", "killed"} /\ ~go /\ cpc \notin PastGate

\* Every support process that is alive is in the parent's hands.
Owned ==
    /\ ppc \in {"forked", "readReady", "spawnPasta"} => pasta = "none"
    /\ ppc \in {"forked", "readReady", "spawnPasta", "pollPasta", "spawnProxy"} =>
            proxy = "none"
    /\ "pasta" \in support => pasta # "none"
    /\ "proxy" \in support => proxy # "none"
    /\ PastaAlive /\ ~ParentGone => "pasta" \in support
    /\ ProxyAlive /\ ~ParentGone /\ ppc \notin {"sendConfig", "awaitListening"} =>
            "proxy" \in support
    /\ ppc = "reap" => ~PastaAlive /\ ~ProxyAlive

RawMeansGuarded ==
    raw => ppc \in {"sigwinch", "relay", "sendTerm", "wait", "restore", "killed"}

\* The polling of pasta ends within its bound.
PollsBounded ==
    /\ ppc \in {"forked", "readReady", "spawnPasta"} => polls = 0
    /\ ppc = "pollPasta" => polls < PastaPolls

Safe ==
    /\ ChildProgress
    /\ ReadyMeansSealed
    /\ ProxyProgress
    /\ GoMeansReleased
    /\ ExitMeansOver
    /\ Owned
    /\ RawMeansGuarded
    /\ OnlyGoFailureLeaks

IInv == TypeOK /\ PollsBounded /\ Safe

-----------------------------------------------------------------------------
(* Type correctness. *)

\* Every step keeps the variables in their types and the polls in bounds.
LEMMA TypeStep == ASSUME TypeOK, PollsBounded, Next PROVE TypeOK' /\ PollsBounded'
<1> USE SniAssumption, PollsAssumption, FaultsAssumption
    DEF TypeOK, ParentTypeOK, ChildTypeOK, SupportTypeOK, WorldTypeOK, PollsBounded,
        Ends, ParentPcs, ChildPcs, NetFacts, ProxyPcs, ProxyFacts, PastaPcs, Errors, LaunchErrors,
        Statuses, parentVars, childVars, proxyVars
<1>1. CASE DropPreExec
  BY <1>1 DEF DropPreExec
<1>2. CASE ReadReady
  <2> USE <1>2 DEF ReadReady, Return
  <2>1. CASE ready
    <3>1. ParentTypeOK' BY <2>1
    <3>2. ChildTypeOK' BY <2>1
    <3>3. SupportTypeOK' BY <2>1
    <3>4. WorldTypeOK' BY <2>1
    <3>5. PollsBounded' BY <2>1
    <3> QED BY <3>1, <3>2, <3>3, <3>4, <3>5
  <2>2. CASE ~ready
    <3>1. ParentTypeOK' BY <2>2
    <3>2. ChildTypeOK' BY <2>2
    <3>3. SupportTypeOK' BY <2>2
    <3>4. WorldTypeOK' BY <2>2
    <3>5. PollsBounded' BY <2>2
    <3> QED BY <3>1, <3>2, <3>3, <3>4, <3>5
  <2> QED BY <2>1, <2>2
<1>3. CASE SpawnPasta
  <2> USE <1>3 DEF SpawnPasta, Return
  <2>1. ParentTypeOK' OBVIOUS
  <2>2. ChildTypeOK' OBVIOUS
  <2>3. SupportTypeOK' OBVIOUS
  <2>4. WorldTypeOK' OBVIOUS
  <2>5. PollsBounded' OBVIOUS
  <2> QED BY <2>1, <2>2, <2>3, <2>4, <2>5
<1>4. CASE PollPasta
  <2> USE <1>4 DEF PollPasta, Abort, AfterPasta
  <2>1. CASE pasta = "dead"
    <3>1. ParentTypeOK' BY <2>1
    <3>2. ChildTypeOK' BY <2>1
    <3>3. SupportTypeOK' BY <2>1
    <3>4. WorldTypeOK' BY <2>1
    <3>5. PollsBounded' BY <2>1
    <3> QED BY <3>1, <3>2, <3>3, <3>4, <3>5
  <2>2. CASE pasta # "dead"
    <3>0. polls + 1 \in 0..PastaPolls BY <2>2
    <3>1. ParentTypeOK' BY <2>2, <3>0
    <3>2. ChildTypeOK' BY <2>2, <3>0
    <3>3. SupportTypeOK' BY <2>2, <3>0
    <3>4. WorldTypeOK' BY <2>2, <3>0
    <3>5. PollsBounded' BY <2>2, <3>0
    <3> QED BY <3>1, <3>2, <3>3, <3>4, <3>5
  <2> QED BY <2>1, <2>2
<1>5. CASE SpawnProxy
  <2> USE <1>5 DEF SpawnProxy, Abort
  <2>1. ParentTypeOK' OBVIOUS
  <2>2. ChildTypeOK' OBVIOUS
  <2>3. SupportTypeOK' OBVIOUS
  <2>4. WorldTypeOK' OBVIOUS
  <2>5. PollsBounded' OBVIOUS
  <2> QED BY <2>1, <2>2, <2>3, <2>4, <2>5
<1>6. CASE SendConfig
  <2> USE <1>6 DEF SendConfig, Abort
  <2>1. ParentTypeOK' OBVIOUS
  <2>2. ChildTypeOK' OBVIOUS
  <2>3. SupportTypeOK' OBVIOUS
  <2>4. WorldTypeOK' OBVIOUS
  <2>5. PollsBounded' OBVIOUS
  <2> QED BY <2>1, <2>2, <2>3, <2>4, <2>5
<1>7. CASE AwaitListening
  <2> USE <1>7 DEF AwaitListening, Abort
  <2>1. ParentTypeOK' OBVIOUS
  <2>2. ChildTypeOK' OBVIOUS
  <2>3. SupportTypeOK' OBVIOUS
  <2>4. WorldTypeOK' OBVIOUS
  <2>5. PollsBounded' OBVIOUS
  <2> QED BY <2>1, <2>2, <2>3, <2>4, <2>5
<1>8. CASE WriteGo
  <2> USE <1>8 DEF WriteGo, Return
  <2>1. ParentTypeOK' OBVIOUS
  <2>2. ChildTypeOK' OBVIOUS
  <2>3. SupportTypeOK' OBVIOUS
  <2>4. WorldTypeOK' OBVIOUS
  <2>5. PollsBounded' OBVIOUS
  <2> QED BY <2>1, <2>2, <2>3, <2>4, <2>5
<1>9. CASE RawMode
  BY <1>9 DEF RawMode
<1>10. CASE Sigwinch
  BY <1>10 DEF Sigwinch, LaunchErrors
<1>11. CASE RelayHangup
  BY <1>11 DEF RelayHangup
<1>12. CASE SendTerm
  BY <1>12 DEF SendTerm
<1>13. CASE Waitpid
  BY <1>13 DEF Waitpid, LaunchErrors, TypeOK, ChildTypeOK, Statuses
<1>14. CASE Restore
  <2> USE <1>14 DEF Restore
  <2>1. ParentTypeOK' OBVIOUS
  <2>2. ChildTypeOK' OBVIOUS
  <2>3. SupportTypeOK' OBVIOUS
  <2>4. WorldTypeOK' OBVIOUS
  <2>5. PollsBounded' OBVIOUS
  <2> QED BY <2>1, <2>2, <2>3, <2>4, <2>5
<1>15. CASE Kill
  BY <1>15 DEF Kill
<1>16. CASE Reap
  <2> USE <1>16 DEF Reap, Return
  <2>1. ParentTypeOK' OBVIOUS
  <2>2. ChildTypeOK' OBVIOUS
  <2>3. SupportTypeOK' OBVIOUS
  <2>4. WorldTypeOK' OBVIOUS
  <2>5. PollsBounded' OBVIOUS
  <2> QED BY <2>1, <2>2, <2>3, <2>4, <2>5
<1>17. CASE RelayEndsEarly
  BY <1>17 DEF RelayEndsEarly
<1>18. CASE RelayError
  BY <1>18 DEF RelayError
<1>19. CASE DropPostFork
  BY <1>19 DEF DropPostFork
<1>20. CASE UnshareUser
  BY <1>20 DEF UnshareUser, ChildStep
<1>21. CASE WriteMaps
  BY <1>21 DEF WriteMaps, ChildStep
<1>22. CASE UnshareNet
  BY <1>22 DEF UnshareNet, ChildStep
<1>23. CASE LoopbackUp
  BY <1>23 DEF LoopbackUp, ChildStep
<1>24. CASE LoadNft
  BY <1>24 DEF LoadNft, ChildStep
<1>25. CASE SignalReady
  <2> USE <1>25 DEF SignalReady, ChildEnds
  <2>1. ParentTypeOK' OBVIOUS
  <2>2. ChildTypeOK' OBVIOUS
  <2>3. SupportTypeOK' OBVIOUS
  <2>4. WorldTypeOK' OBVIOUS
  <2>5. PollsBounded' OBVIOUS
  <2> QED BY <2>1, <2>2, <2>3, <2>4, <2>5
<1>26. CASE ReadGo
  <2> USE <1>26 DEF ReadGo, ChildEnds
  <2>1. ParentTypeOK' OBVIOUS
  <2>2. ChildTypeOK' OBVIOUS
  <2>3. SupportTypeOK' OBVIOUS
  <2>4. WorldTypeOK' OBVIOUS
  <2>5. PollsBounded' OBVIOUS
  <2> QED BY <2>1, <2>2, <2>3, <2>4, <2>5
<1>27. CASE WaitRoute
  <2> USE <1>27 DEF WaitRoute, ChildEnds
  <2>1. ParentTypeOK' OBVIOUS
  <2>2. ChildTypeOK' OBVIOUS
  <2>3. SupportTypeOK' OBVIOUS
  <2>4. WorldTypeOK' OBVIOUS
  <2>5. PollsBounded' OBVIOUS
  <2> QED BY <2>1, <2>2, <2>3, <2>4, <2>5
<1>28. CASE Exec
  BY <1>28 DEF Exec, ChildEnds
<1>29. CASE ChildFails
  BY <1>29 DEF ChildFails, ChildEnds, ChildSetup
<1>30. CASE ChildTerminated
  BY <1>30 DEF ChildTerminated, ChildEnds
<1>31. CASE AgentExits
  BY <1>31 DEF AgentExits, ChildEnds
<1>32. CASE DieWithParent
  BY <1>32 DEF DieWithParent, ChildEnds
<1>33. CASE PastaConfigures
  BY <1>33 DEF PastaConfigures
<1>34. CASE PastaFails
  BY <1>34 DEF PastaFails
<1>35. CASE ProxyJoins
  BY <1>35 DEF ProxyJoins, ProxyStep
<1>36. CASE ProxySeesRoute
  BY <1>36 DEF ProxySeesRoute, ProxyStep
<1>37. CASE ProxyBinds
  BY <1>37 DEF ProxyBinds, ProxyStep
<1>38. CASE ProxyHardens
  BY <1>38 DEF ProxyHardens, ProxyStep
<1>39. CASE ProxyAnnounces
  BY <1>39 DEF ProxyAnnounces
<1>40. CASE ProxyFails
  BY <1>40 DEF ProxyFails
<1>41. CASE ChildKilled
  BY <1>41 DEF ChildKilled, Fault, ChildEnds
<1>42. CASE PastaKilled
  BY <1>42 DEF PastaKilled, Fault
<1>43. CASE ProxyKilled
  BY <1>43 DEF ProxyKilled, Fault
<1>44. CASE ParentKilled
  BY <1>44 DEF ParentKilled, Fault
<1>45. CASE Finished
  BY <1>45 DEF Finished, vars
<1> QED BY <1>1, <1>2, <1>3, <1>4, <1>5, <1>6, <1>7, <1>8, <1>9, <1>10, <1>11,
   <1>12, <1>13, <1>14, <1>15, <1>16, <1>17, <1>18, <1>19, <1>20, <1>21, <1>22,
   <1>23, <1>24, <1>25, <1>26, <1>27, <1>28, <1>29, <1>30, <1>31, <1>32, <1>33,
   <1>34, <1>35, <1>36, <1>37, <1>38, <1>39, <1>40, <1>41, <1>42, <1>43, <1>44,
   <1>45
       DEF Next, Parent, ParentSteps, Child, ChildSteps, Pasta, Proxy, Kills

\* Every variable of the launch keeps its type (any Sni, polls, kills).
THEOREM TypeCorrect == Spec => [](TypeOK /\ PollsBounded)
<1>1. Init => TypeOK /\ PollsBounded
  <2> SUFFICES ASSUME Init PROVE TypeOK /\ PollsBounded
    OBVIOUS
  <2> USE PollsAssumption, FaultsAssumption DEF Init
  <2>1. ppc \in ParentPcs BY DEF ParentPcs
  <2>2. pFds \subseteq Ends /\ cFds \subseteq Ends OBVIOUS
  <2>3. polls \in 0..PastaPolls OBVIOUS
  <2>4. support \subseteq {"pasta", "proxy"} OBVIOUS
  <2>5. exit \in Errors \cup Statuses /\ status \in Statuses BY DEF Statuses
  <2>6. raw \in BOOLEAN /\ announced \in BOOLEAN OBVIOUS
  <2>7. pasta \in PastaPcs BY DEF PastaPcs
  <2>8. proxy \in ProxyPcs BY DEF ProxyPcs
  <2>9. prx \subseteq ProxyFacts OBVIOUS
  <2>10. ParentTypeOK BY <2>1, <2>2, <2>3, <2>4, <2>5, <2>6 DEF ParentTypeOK
  <2>11. ChildTypeOK BY <2>2, <2>5 DEF ChildTypeOK, ChildPcs
  <2>12. SupportTypeOK BY <2>6, <2>7, <2>8, <2>9 DEF SupportTypeOK
  <2>13. WorldTypeOK
    <3>1. ready \in BOOLEAN /\ go \in BOOLEAN OBVIOUS
    <3>2. sigterm \in BOOLEAN OBVIOUS
    <3>3. faults \in 0..MaxFaults OBVIOUS
    <3> QED BY <3>1, <3>2, <3>3 DEF WorldTypeOK
  <2>14. PollsBounded BY DEF PollsBounded
  <2> QED BY <2>10, <2>11, <2>12, <2>13, <2>14 DEF TypeOK
<1>2. TypeOK /\ PollsBounded /\ [Next]_vars => TypeOK' /\ PollsBounded'
  <2> SUFFICES ASSUME TypeOK, PollsBounded, [Next]_vars PROVE TypeOK' /\ PollsBounded'
    OBVIOUS
  <2>1. CASE Next
    BY <2>1, TypeStep
  <2>2. CASE UNCHANGED vars
    BY <2>2 DEF TypeOK, ParentTypeOK, ChildTypeOK, SupportTypeOK, WorldTypeOK,
       PollsBounded, vars, parentVars, childVars, proxyVars
  <2> QED BY <2>1, <2>2
<1> QED BY <1>1, <1>2, PTL DEF Spec

-----------------------------------------------------------------------------
(* The inductive invariant. *)

\* Every step of the parent preserves the inductive invariant.
LEMMA ParentKeepsIInv == ASSUME IInv, Parent PROVE Safe'
<1> USE DEF IInv, Safe, ChildProgress, ReadyMeansSealed, ProxyProgress,
     GoMeansReleased, ExitMeansOver, Owned, RawMeansGuarded, OnlyGoFailureLeaks,
     Sealed, Released, PastGate, BeforeGo, PastaAlive, ProxyAlive, ParentGone,
     ProxyFacts, parentVars, childVars, proxyVars
<1>1. CASE DropPreExec
  BY <1>1 DEF DropPreExec
<1>2. CASE ReadReady
  BY <1>2 DEF ReadReady, Return
<1>3. CASE SpawnPasta
  BY <1>3 DEF SpawnPasta, Return
<1>4. CASE PollPasta
  BY <1>4 DEF PollPasta, Abort, AfterPasta
<1>5. CASE SpawnProxy
  BY <1>5 DEF SpawnProxy, Abort
<1>6. CASE SendConfig
  BY <1>6 DEF SendConfig, Abort
<1>7. CASE AwaitListening
  <2> USE <1>7 DEF AwaitListening, Abort
  <2>1. ChildProgress' OBVIOUS
  <2>2. ReadyMeansSealed' OBVIOUS
  <2>3. ProxyProgress' OBVIOUS
  <2>4. GoMeansReleased' OBVIOUS
  <2>5. ExitMeansOver' OBVIOUS
  <2>6. Owned' OBVIOUS
  <2>7. RawMeansGuarded' OBVIOUS
  <2>8. OnlyGoFailureLeaks' OBVIOUS
  <2> QED BY <2>1, <2>2, <2>3, <2>4, <2>5, <2>6, <2>7, <2>8
<1>8. CASE WriteGo
  BY <1>8 DEF WriteGo, Return
<1>9. CASE RawMode
  BY <1>9 DEF RawMode
<1>10. CASE Sigwinch
  BY <1>10 DEF Sigwinch, LaunchErrors
<1>11. CASE RelayHangup
  BY <1>11 DEF RelayHangup
<1>12. CASE SendTerm
  BY <1>12 DEF SendTerm
<1>13. CASE Waitpid
  BY <1>13 DEF Waitpid, LaunchErrors, TypeOK, ChildTypeOK, Statuses
<1>14. CASE Restore
  BY <1>14 DEF Restore
<1>15. CASE Kill
  BY <1>15 DEF Kill
<1>16. CASE Reap
  <2> USE <1>16 DEF Reap, Return
  <2>1. ChildProgress' OBVIOUS
  <2>2. ReadyMeansSealed' OBVIOUS
  <2>3. ProxyProgress' OBVIOUS
  <2>4. GoMeansReleased' OBVIOUS
  <2>5. ExitMeansOver' OBVIOUS
  <2>6. Owned' OBVIOUS
  <2>7. RawMeansGuarded' OBVIOUS
  <2>8. OnlyGoFailureLeaks' OBVIOUS
  <2> QED BY <2>1, <2>2, <2>3, <2>4, <2>5, <2>6, <2>7, <2>8
<1>17. CASE RelayEndsEarly
  BY <1>17 DEF RelayEndsEarly
<1>18. CASE RelayError
  BY <1>18 DEF RelayError
<1> QED BY <1>1, <1>2, <1>3, <1>4, <1>5, <1>6, <1>7, <1>8, <1>9, <1>10, <1>11,
   <1>12, <1>13, <1>14, <1>15, <1>16, <1>17, <1>18
       DEF Parent, ParentSteps

\* Every step of the child, the agent it becomes included, preserves it.
LEMMA ChildKeepsIInv == ASSUME IInv, Child PROVE Safe'
<1> USE DEF IInv, Safe, ChildProgress, ReadyMeansSealed, ProxyProgress,
     GoMeansReleased, ExitMeansOver, Owned, RawMeansGuarded, OnlyGoFailureLeaks,
     Sealed, Released, PastGate, BeforeGo, PastaAlive, ProxyAlive, ParentGone,
     ProxyFacts, parentVars, childVars, proxyVars
<1>1. CASE DropPostFork
  BY <1>1 DEF DropPostFork
<1>2. CASE UnshareUser
  BY <1>2 DEF UnshareUser, ChildStep
<1>3. CASE WriteMaps
  BY <1>3 DEF WriteMaps, ChildStep
<1>4. CASE UnshareNet
  BY <1>4 DEF UnshareNet, ChildStep
<1>5. CASE LoopbackUp
  BY <1>5 DEF LoopbackUp, ChildStep
<1>6. CASE LoadNft
  BY <1>6 DEF LoadNft, ChildStep
<1>7. CASE SignalReady
  BY <1>7 DEF SignalReady, ChildEnds
<1>8. CASE ReadGo
  BY <1>8 DEF ReadGo, ChildEnds
<1>9. CASE WaitRoute
  BY <1>9 DEF WaitRoute, ChildEnds
<1>10. CASE Exec
  BY <1>10 DEF Exec, ChildEnds
<1>11. CASE ChildFails
  BY <1>11 DEF ChildFails, ChildEnds, ChildSetup
<1>12. CASE ChildTerminated
  BY <1>12 DEF ChildTerminated, ChildEnds
<1>13. CASE AgentExits
  BY <1>13 DEF AgentExits, ChildEnds
<1>14. CASE DieWithParent
  BY <1>14 DEF DieWithParent, ChildEnds
<1> QED BY <1>1, <1>2, <1>3, <1>4, <1>5, <1>6, <1>7, <1>8, <1>9, <1>10, <1>11,
   <1>12, <1>13, <1>14
       DEF Child, ChildSteps

\* So does every step of pasta and of the proxy.
LEMMA SupportKeepsIInv == ASSUME IInv, Pasta \/ Proxy PROVE Safe'
<1> USE DEF IInv, Safe, ChildProgress, ReadyMeansSealed, ProxyProgress,
     GoMeansReleased, ExitMeansOver, Owned, RawMeansGuarded, OnlyGoFailureLeaks,
     Sealed, Released, PastGate, BeforeGo, PastaAlive, ProxyAlive, ParentGone,
     ProxyFacts, parentVars, childVars, proxyVars
<1>1. CASE PastaConfigures
  BY <1>1 DEF PastaConfigures
<1>2. CASE PastaFails
  BY <1>2 DEF PastaFails
<1>3. CASE ProxyJoins
  BY <1>3 DEF ProxyJoins, ProxyStep
<1>4. CASE ProxySeesRoute
  BY <1>4 DEF ProxySeesRoute, ProxyStep
<1>5. CASE ProxyBinds
  BY <1>5 DEF ProxyBinds, ProxyStep
<1>6. CASE ProxyHardens
  BY <1>6 DEF ProxyHardens, ProxyStep
<1>7. CASE ProxyAnnounces
  BY <1>7 DEF ProxyAnnounces
<1>8. CASE ProxyFails
  BY <1>8 DEF ProxyFails
<1> QED BY <1>1, <1>2, <1>3, <1>4, <1>5, <1>6, <1>7, <1>8
       DEF Pasta, Proxy

\* So does a kill of any of them.
LEMMA KillsKeepIInv == ASSUME IInv, Kills PROVE Safe'
<1> USE DEF IInv, Safe, ChildProgress, ReadyMeansSealed, ProxyProgress,
     GoMeansReleased, ExitMeansOver, Owned, RawMeansGuarded, OnlyGoFailureLeaks,
     Sealed, Released, PastGate, BeforeGo, PastaAlive, ProxyAlive, ParentGone,
     ProxyFacts, parentVars, childVars, proxyVars
<1>1. CASE ChildKilled
  BY <1>1 DEF ChildKilled, Fault, ChildEnds
<1>2. CASE PastaKilled
  BY <1>2 DEF PastaKilled, Fault
<1>3. CASE ProxyKilled
  BY <1>3 DEF ProxyKilled, Fault
<1>4. CASE ParentKilled
  BY <1>4 DEF ParentKilled, Fault
<1> QED BY <1>1, <1>2, <1>3, <1>4
       DEF Kills

\* The inductive invariant holds throughout every behaviour.
THEOREM Invariant == Spec => []IInv
<1>1. Init => Safe
  BY DEF Init, Safe, ChildProgress, ReadyMeansSealed, ProxyProgress, GoMeansReleased,
     ExitMeansOver, Owned, RawMeansGuarded, OnlyGoFailureLeaks, PastGate, BeforeGo,
     LaunchErrors, PastaAlive, ProxyAlive, ParentGone
<1>2. IInv /\ [Next]_vars => Safe'
  <2> SUFFICES ASSUME IInv, [Next]_vars PROVE Safe'
    OBVIOUS
  <2>1. CASE Parent
    BY <2>1, ParentKeepsIInv
  <2>2. CASE Child
    BY <2>2, ChildKeepsIInv
  <2>3. CASE Pasta \/ Proxy
    BY <2>3, SupportKeepsIInv
  <2>4. CASE Kills
    BY <2>4, KillsKeepIInv
  <2>5. CASE UNCHANGED vars
    BY <2>5 DEF IInv, Safe, ChildProgress, ReadyMeansSealed, ProxyProgress,
       GoMeansReleased, ExitMeansOver, Owned, RawMeansGuarded, OnlyGoFailureLeaks,
       Sealed, Released, PastaAlive, ProxyAlive, ParentGone,
       vars, parentVars, childVars, proxyVars
  <2> QED BY <2>1, <2>2, <2>3, <2>4, <2>5 DEF Next, Finished
<1>3. IInv <=> TypeOK /\ PollsBounded /\ Safe
  BY DEF IInv
<1> QED BY <1>1, <1>2, <1>3, TypeCorrect, PTL DEF Spec

-----------------------------------------------------------------------------
(* The properties of Launch. *)

\* The agent runs only in a sealed namespace and, with --allow-sni, behind
\* a proxy that had joined it and hardened itself.
THEOREM Confined == Spec => []AgentConfined
<1>1. IInv => AgentConfined
  BY DEF IInv, Safe, TypeOK, SupportTypeOK, ChildProgress, GoMeansReleased, ProxyProgress,
     ReadyMeansSealed, Released, PastGate, AgentConfined
<1> QED BY Invariant, <1>1, PTL

\* No uplink without a loaded filter.
THEOREM Filtered == Spec => []UplinkFiltered
<1>1. IInv => UplinkFiltered
  BY DEF IInv, Safe, ReadyMeansSealed, PastaAlive, UplinkFiltered
<1> QED BY Invariant, <1>1, PTL

\* The failed go write is the only return that leaves a support process alive.
THEOREM LeaksOnlyOnGo == Spec => []OnlyGoFailureLeaks
<1>1. IInv => OnlyGoFailureLeaks
  BY DEF IInv, Safe
<1> QED BY Invariant, <1>1, PTL

\* pty::run does not return over a child past the gate, except when the
\* SIGWINCH set-up failed.
THEOREM Supervised == Spec => []ChildSupervised
<1>1. IInv => ChildSupervised
  BY DEF IInv, Safe, ExitMeansOver, PastGate, ChildSupervised
<1> QED BY Invariant, <1>1, PTL

\* The host terminal is never left in raw mode by a return.
THEOREM Restored == Spec => []TerminalRestored
<1>1. IInv => TerminalRestored
  BY DEF IInv, Safe, RawMeansGuarded, TerminalRestored
<1> QED BY Invariant, <1>1, PTL

\* A launch the parent has given up never gets past the gate (AbortedNeverRuns).
THEOREM Gated == Spec => []AbortedNeverRuns
<1>1. IInv => AbortedNeverRuns
  BY DEF IInv, Safe, ExitMeansOver, PastGate, AbortedNeverRuns
<1> QED BY Invariant, <1>1, PTL

-----------------------------------------------------------------------------
(* Refinement. *)

\* The handshake implements Confinement: seal, then link, then guard, then start.
THEOREM Refines == Spec => KeepsPromise
<1>1. Init => Promise!Init
  BY DEF Init, Promise!Init, Sealed
<1>2. ASSUME IInv, [Next]_vars PROVE [Promise!Next]_(Promise!vars)
  <2> USE DEF Promise!Next, Promise!Seal, Promise!Link, Promise!Guard, Promise!Start,
         Promise!End, Promise!vars, ChildEnds, ChildStep, ProxyStep, parentVars, childVars,
         proxyVars
  <2>1. CASE Exec
    BY <2>1, <1>2 DEF Exec, Sealed, IInv, Safe, GoMeansReleased, Released, PastGate,
       ReadyMeansSealed
  <2>2. CASE LoadNft
    BY <2>2, <1>2 DEF LoadNft, Sealed
  <2>3. CASE SpawnPasta
    BY <2>3, <1>2 DEF SpawnPasta, Return, Sealed, IInv, Safe, ReadyMeansSealed
  <2>4. CASE ProxyAnnounces
    BY <2>4, <1>2 DEF ProxyAnnounces, Sealed, IInv, Safe, ProxyProgress
  <2>5. CASE DropPostFork \/ UnshareUser \/ WriteMaps \/ UnshareNet \/ LoopbackUp
    BY <2>5 DEF DropPostFork, UnshareUser, WriteMaps, UnshareNet, LoopbackUp, Sealed
  <2>6. CASE SignalReady \/ ReadGo \/ WaitRoute
    BY <2>6 DEF SignalReady, ReadGo, WaitRoute, Sealed
  <2>7. CASE ChildFails \/ ChildTerminated \/ AgentExits \/ DieWithParent \/ ChildKilled
    BY <2>7 DEF ChildFails, ChildTerminated, AgentExits, DieWithParent, ChildKilled, Sealed
  <2>8. CASE DropPreExec \/ ReadReady \/ PollPasta \/ SpawnProxy \/ SendConfig
             \/ AwaitListening \/ WriteGo
    BY <2>8 DEF DropPreExec, ReadReady, PollPasta, SpawnProxy, SendConfig,
       AwaitListening, WriteGo, Sealed
  <2>9. CASE RawMode \/ Sigwinch \/ RelayHangup \/ SendTerm \/ Waitpid \/ Restore
             \/ RelayEndsEarly \/ RelayError
    BY <2>9 DEF RawMode, Sigwinch, RelayHangup, SendTerm, Waitpid, Restore,
       RelayEndsEarly, RelayError, Sealed
  <2>10. CASE Kill \/ Reap
    BY <2>10, <1>2 DEF Kill, Reap, Sealed, PastaAlive, IInv, Safe, Owned
  <2>11. CASE PastaConfigures \/ PastaFails \/ PastaKilled
    BY <2>11 DEF PastaConfigures, PastaFails, PastaKilled, PastaAlive, Sealed
  <2>12. CASE ProxyJoins \/ ProxySeesRoute \/ ProxyBinds \/ ProxyHardens \/ ProxyFails
             \/ ProxyKilled \/ ParentKilled
    BY <2>12 DEF ProxyJoins, ProxySeesRoute, ProxyBinds, ProxyHardens, ProxyFails,
       ProxyKilled, ParentKilled, Sealed
  <2>13. CASE UNCHANGED vars
    BY <2>13 DEF vars, Sealed
  <2> QED BY <1>2, <2>1, <2>2, <2>3, <2>4, <2>5, <2>6, <2>7, <2>8, <2>9, <2>10, <2>11,
             <2>12, <2>13
         DEF Next, Parent, ParentSteps, Child, ChildSteps, Pasta, Proxy, Kills, Finished
<1> QED BY Invariant, <1>1, <1>2, PTL DEF Spec, KeepsPromise, Promise!Spec
=============================================================================
