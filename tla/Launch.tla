------------------------------- MODULE Launch -------------------------------
(***************************************************************************)
(* The launch of a filtered sandbox (`--allow` / `--allow-sni`): the       *)
(* handshake between the basta parent, the forked child that becomes       *)
(* bwrap, pasta and the SNI proxy, from fork(2) to the return of pty::run. *)
(*                                                                         *)
(*   child   unshare, maps, netns, lo, filter -> ready -> (go) -> exec     *)
(*   parent  (ready) -> pasta -> proxy -> go -> relay -> wait -> teardown  *)
(*                                                                         *)
(* The two pipes carry one byte each.  Who holds which end is explicit,    *)
(* because fork(2) copies all four ends into both processes and an end of  *)
(* file is seen only when no process holds the write end any more.         *)
(* Time is abstracted: a deadline may expire whenever the awaited event    *)
(* has not been seen.                                                      *)
(***************************************************************************)
EXTENDS Naturals

CONSTANTS
    Sni,         \* --allow-sni was given: a proxy is part of the launch
    PastaPolls,  \* try_wait polls of pasta_died_early (6 in the code)
    Faults,      \* the processes something outside may kill
    MaxFaults    \* bound on the number of such kills

ASSUME SniAssumption == Sni \in BOOLEAN
ASSUME PollsAssumption == PastaPolls \in Nat \ {0}
ASSUME FaultsAssumption ==
    /\ Faults \subseteq {"parent", "child", "pasta", "proxy"}
    /\ MaxFaults \in Nat

VARIABLES
    ppc,        \* where the parent is
    cpc,        \* where the child is
    pFds,       \* pipe ends the parent holds
    cFds,       \* pipe ends the child holds
    ready,      \* the ready byte is in its pipe
    go,         \* the go byte is in its pipe
    net,        \* what the child's namespaces have
    pasta,      \* the life of pasta
    polls,      \* polls pasta_died_early has made
    proxy,      \* the life of the SNI proxy
    prx,        \* what the proxy has set up
    announced,  \* "LISTENING" is on the proxy's stdout
    support,    \* the Vec<Child> of started support processes
    raw,        \* the host terminal is in raw mode
    sigterm,    \* SIGTERM is pending on the child
    status,     \* how the child ended (its wait status)
    exit,       \* what pty::run returns
    faults      \* kills so far

parentVars == <<ppc, pFds, polls, support, raw, exit>>
childVars == <<cpc, cFds, net, status>>
proxyVars == <<proxy, prx, announced>>
vars == <<parentVars, childVars, proxyVars, ready, go, pasta, sigterm, faults>>

Ends == {"ready_r", "ready_w", "go_r", "go_w"}

ParentPcs == {"forked", "readReady", "spawnPasta", "pollPasta", "spawnProxy",
              "sendConfig", "awaitListening", "writeGo", "rawMode", "sigwinch",
              "relay", "sendTerm", "wait", "restore", "kill", "reap", "returned", "killed"}

ChildPcs == {"forked", "userns", "maps", "netns", "lo", "nft", "signal",
             "readGo", "route", "exec", "agent", "exited"}

\* The child's system calls that may fail at any time (exit code 99).
ChildSetup == {"userns", "maps", "netns", "lo", "nft"}

\* "netadmin": the child has CAP_NET_ADMIN over its network namespace.
NetFacts == {"userns", "maps", "netns", "netadmin", "lo", "filter", "route"}

ProxyPcs == {"none", "config", "join", "route", "bind", "harden", "announce",
             "serving", "dead", "reaped"}
ProxyFacts == {"joined", "routed", "bound", "hardened"}

PastaPcs == {"none", "starting", "up", "dead", "reaped"}

LaunchErrors == {"noReady", "noPasta", "pastaDied", "noProxy", "goLost"}
Errors == LaunchErrors \cup {"noSigwinch"}
Statuses == {"none", "setup99", "code", "signal"}

PastaAlive == pasta \in {"starting", "up"}
ProxyAlive == proxy \notin {"none", "dead", "reaped"}
ParentGone == ppc \in {"returned", "killed"}
Held(end) == end \in pFds \cup cFds

Init ==
    /\ ppc = "forked" /\ cpc = "forked"
    /\ pFds = Ends /\ cFds = Ends
    /\ ready = FALSE /\ go = FALSE
    /\ net = {}
    /\ pasta = "none" /\ polls = 0
    /\ proxy = "none" /\ prx = {} /\ announced = FALSE
    /\ support = {}
    /\ raw = FALSE /\ sigterm = FALSE
    /\ status = "none" /\ exit = "none"
    /\ faults = 0

-----------------------------------------------------------------------------
(* The parent.                                                             *)

\* pty::run returns: everything the parent holds is dropped.
Return(why) ==
    /\ ppc' = "returned" /\ exit' = why /\ pFds' = {}

\* kill_all, then the error.  The pipe ends are dropped at the return only.
Abort(why) ==
    /\ ppc' = "kill" /\ exit' = why
    /\ UNCHANGED pFds

\* Mutant: the parent keeps its copies of the child's pipe ends.
DropPreExec_Forgotten ==
    /\ ppc = "forked" /\ ppc' = "readReady"
    /\ UNCHANGED <<pFds, polls, support, raw, exit, childVars, proxyVars,
                   ready, go, pasta, sigterm, faults>>

\* The parent drops the child's closure, and with it the child's pipe ends.
DropPreExec ==
    /\ ppc = "forked" /\ ppc' = "readReady"
    /\ pFds' = pFds \ {"ready_w", "go_r"}
    /\ UNCHANGED <<polls, support, raw, exit, childVars, proxyVars,
                   ready, go, pasta, sigterm, faults>>

\* Mutant: end of file is taken for the byte.
ReadReady_IgnoresEof ==
    /\ ppc = "readReady"
    /\ ready \/ ~Held("ready_w")
    /\ ready' = FALSE /\ ppc' = "spawnPasta"
    /\ UNCHANGED <<pFds, exit, polls, support, raw, childVars, proxyVars,
                   go, pasta, sigterm, faults>>

\* Blocking one-byte read of the ready pipe: the byte, or end of file.
ReadReady ==
    /\ ppc = "readReady"
    /\ \/ /\ ready
          /\ ready' = FALSE /\ ppc' = "spawnPasta"
          /\ UNCHANGED <<pFds, exit>>
       \/ /\ ~ready /\ ~Held("ready_w")
          /\ Return("noReady")
          /\ UNCHANGED ready
    /\ UNCHANGED <<polls, support, raw, childVars, proxyVars,
                   go, pasta, sigterm, faults>>

SpawnPasta ==
    /\ ppc = "spawnPasta"
    /\ \/ /\ pasta' = "starting"
          /\ support' = support \cup {"pasta"}
          /\ ppc' = "pollPasta"
          /\ UNCHANGED <<pFds, exit>>
       \/ /\ Return("noPasta")
          /\ UNCHANGED <<pasta, support>>
    /\ UNCHANGED <<polls, raw, childVars, proxyVars, ready, go, sigterm, faults>>

AfterPasta == IF Sni THEN "spawnProxy" ELSE "writeGo"

\* One poll of pasta_died_early: pasta is found dead (try_wait reaps it),
\* or alive, or the polling ends without a verdict.
PollPasta ==
    /\ ppc = "pollPasta"
    /\ \/ /\ pasta = "dead"
          /\ pasta' = "reaped"
          /\ Abort("pastaDied")
          /\ UNCHANGED polls
       \/ /\ pasta # "dead"
          /\ polls' = polls + 1
          /\ ppc' = IF polls + 1 = PastaPolls THEN AfterPasta ELSE "pollPasta"
          /\ UNCHANGED <<pasta, pFds, exit>>
    /\ UNCHANGED <<support, raw, childVars, proxyVars, ready, go, sigterm, faults>>

\* Mutant: a proxy that cannot be spawned is done without.
SpawnProxy_FailOpen ==
    /\ ppc = "spawnProxy"
    /\ \/ proxy' = "config" /\ ppc' = "sendConfig"
       \/ proxy' = proxy /\ ppc' = "writeGo"
    /\ UNCHANGED <<pFds, exit, polls, support, raw, childVars, prx, announced,
                   ready, go, pasta, sigterm, faults>>

SpawnProxy ==
    /\ ppc = "spawnProxy"
    /\ \/ /\ proxy' = "config"
          /\ ppc' = "sendConfig"
          /\ UNCHANGED <<pFds, exit>>
       \/ /\ Abort("noProxy")
          /\ UNCHANGED proxy
    /\ UNCHANGED <<polls, support, raw, childVars, prx, announced,
                   ready, go, pasta, sigterm, faults>>

\* The config goes down the proxy's stdin; a dead proxy is a broken pipe,
\* and that `?` returns without a wait for it.
SendConfig ==
    /\ ppc = "sendConfig"
    /\ \/ /\ proxy = "config"
          /\ proxy' = "join" /\ ppc' = "awaitListening"
          /\ UNCHANGED <<pFds, exit>>
       \/ /\ proxy = "dead"
          /\ Abort("noProxy")
          /\ UNCHANGED proxy
    /\ UNCHANGED <<polls, support, raw, childVars, prx, announced,
                   ready, go, pasta, sigterm, faults>>

\* Mutant: the deadline passes and the launch goes on.
AwaitListening_FailOpen ==
    /\ ppc = "awaitListening"
    /\ support' = support \cup {"proxy"}
    /\ ppc' = "writeGo"
    /\ UNCHANGED <<pFds, exit, proxy, polls, raw, childVars, prx, announced,
                   ready, go, pasta, sigterm, faults>>

\* Mutant: the error is returned without the kill_all of pasta.
AwaitListening_NoKillAll ==
    /\ ppc = "awaitListening"
    /\ \/ /\ announced
          /\ support' = support \cup {"proxy"}
          /\ ppc' = "writeGo"
          /\ UNCHANGED <<pFds, exit, proxy>>
       \/ /\ proxy' = "reaped"
          /\ Return("noProxy")
          /\ UNCHANGED support
    /\ UNCHANGED <<polls, raw, childVars, prx, announced,
                   ready, go, pasta, sigterm, faults>>

\* The line arrives, or end of file or the 8 s deadline comes first: then
\* the proxy is killed and waited for.
AwaitListening ==
    /\ ppc = "awaitListening"
    /\ \/ /\ announced
          /\ support' = support \cup {"proxy"}
          /\ ppc' = "writeGo"
          /\ UNCHANGED <<pFds, exit, proxy>>
       \/ /\ proxy' = "reaped"
          /\ Abort("noProxy")
          /\ UNCHANGED support
    /\ UNCHANGED <<polls, raw, childVars, prx, announced,
                   ready, go, pasta, sigterm, faults>>

\* The go byte.  With no reader left the write fails (EPIPE) and the error
\* drops `support`; Child::drop neither kills nor reaps.
WriteGo ==
    /\ ppc = "writeGo"
    /\ \/ /\ Held("go_r")
          /\ go' = TRUE /\ pFds' = {} /\ ppc' = "rawMode"
          /\ UNCHANGED <<support, exit>>
       \/ /\ ~Held("go_r")
          /\ Return("goLost")
          /\ support' = {}
          /\ UNCHANGED go
    /\ UNCHANGED <<polls, raw, childVars, proxyVars, ready, pasta, sigterm, faults>>

\* TermiosGuard: raw mode if stdin is a terminal.
RawMode ==
    /\ ppc = "rawMode" /\ ppc' = "sigwinch" /\ raw' \in BOOLEAN
    /\ UNCHANGED <<pFds, polls, support, exit, childVars, proxyVars,
                   ready, go, pasta, sigterm, faults>>

\* Mutant: the error returns past the TermiosGuard.
Sigwinch_NoRestore ==
    /\ ppc = "sigwinch"
    /\ \/ ppc' = "relay" /\ UNCHANGED exit
       \/ ppc' = "kill" /\ exit' = "noSigwinch"
    /\ UNCHANGED <<pFds, polls, support, raw, childVars, proxyVars,
                   ready, go, pasta, sigterm, faults>>

Sigwinch ==
    /\ ppc = "sigwinch"
    /\ \/ ppc' = "relay" /\ UNCHANGED exit
       \/ ppc' = "restore" /\ exit' = "noSigwinch"
    /\ UNCHANGED <<pFds, polls, support, raw, childVars, proxyVars,
                   ready, go, pasta, sigterm, faults>>

\* The pty hangs up: the child ended and nobody has the slave side open.
RelayHangup ==
    /\ ppc = "relay" /\ cpc = "exited" /\ ppc' = "wait"
    /\ UNCHANGED <<pFds, polls, support, raw, sigterm, exit, childVars, proxyVars,
                   ready, go, pasta, faults>>

\* The agent closes its terminal but runs on.
RelayEndsEarly ==
    /\ ppc = "relay" /\ cpc = "agent" /\ ppc' = "wait"
    /\ UNCHANGED <<pFds, polls, support, raw, sigterm, exit, childVars, proxyVars,
                   ready, go, pasta, faults>>

\* The relay returns an error, for instance because our stdout is closed.
RelayError ==
    /\ ppc = "relay" /\ ppc' = "sendTerm"
    /\ UNCHANGED <<pFds, polls, support, raw, sigterm, exit, childVars, proxyVars,
                   ready, go, pasta, faults>>

\* Mutant: the signal is not sent.
SendTerm_Missing ==
    /\ ppc = "sendTerm" /\ ppc' = "wait"
    /\ UNCHANGED <<pFds, polls, support, raw, exit, sigterm, childVars,
                   proxyVars, ready, go, pasta, faults>>

\* A relay error must not leave waitpid blocked: the child gets SIGTERM.
SendTerm ==
    /\ ppc = "sendTerm" /\ ppc' = "wait" /\ sigterm' = TRUE
    /\ UNCHANGED <<pFds, polls, support, raw, exit, childVars, proxyVars,
                   ready, go, pasta, faults>>

\* Mutant: the wait does not block (WNOHANG).
Waitpid_NoHang ==
    /\ ppc = "wait" /\ exit' = status /\ ppc' = "restore"
    /\ UNCHANGED <<pFds, polls, support, raw, childVars, proxyVars,
                   ready, go, pasta, sigterm, faults>>

Waitpid ==
    /\ ppc = "wait" /\ cpc = "exited" /\ exit' = status
    /\ ppc' = "restore"
    /\ UNCHANGED <<pFds, polls, support, raw, childVars, proxyVars,
                   ready, go, pasta, sigterm, faults>>

\* TermiosGuard::drop; it is declared after the StackGuard, so runs first.
Restore ==
    /\ ppc = "restore" /\ ppc' = "kill" /\ raw' = FALSE
    /\ UNCHANGED <<pFds, polls, support, exit, childVars, proxyVars,
                   ready, go, pasta, sigterm, faults>>

\* StackGuard::drop and kill_all: signal all, then reap all.  The tap
\* device and its route go with pasta.
Kill ==
    /\ ppc = "kill" /\ ppc' = "reap"
    /\ pasta' = IF "pasta" \in support /\ PastaAlive THEN "dead" ELSE pasta
    /\ proxy' = IF "proxy" \in support /\ ProxyAlive THEN "dead" ELSE proxy
    /\ net' = IF "pasta" \in support THEN net \ {"route"} ELSE net
    /\ UNCHANGED <<pFds, polls, support, raw, exit, cpc, cFds, status, prx,
                   announced, ready, go, sigterm, faults>>

Reap ==
    /\ ppc = "reap"
    /\ pasta' = IF "pasta" \in support THEN "reaped" ELSE pasta
    /\ proxy' = IF "proxy" \in support THEN "reaped" ELSE proxy
    /\ support' = {}
    /\ Return(exit)
    /\ UNCHANGED <<polls, raw, childVars, prx, announced, ready, go, sigterm, faults>>

ParentSteps ==
    \/ DropPreExec \/ ReadReady \/ SpawnPasta \/ PollPasta \/ SpawnProxy
    \/ SendConfig \/ AwaitListening \/ WriteGo \/ RawMode \/ Sigwinch
    \/ RelayHangup \/ SendTerm \/ Waitpid \/ Restore \/ Kill \/ Reap

Parent == ParentSteps \/ RelayEndsEarly \/ RelayError

-----------------------------------------------------------------------------
(* The child, which becomes bwrap and then the agent.                      *)

\* The child's process ends: its descriptors are closed with it.
ChildEnds(how) ==
    /\ cpc' = "exited" /\ status' = how /\ cFds' = {}

ChildStep(from, to, facts) ==
    /\ cpc = from /\ cpc' = to
    /\ net' = net \cup facts
    /\ UNCHANGED <<cFds, status, parentVars, proxyVars, ready, go, pasta,
                   sigterm, faults>>

\* Mutant: the child keeps its copies of the parent's pipe ends.
DropPostFork_Forgotten == ChildStep("forked", "userns", {})

DropPostFork ==
    /\ cpc = "forked" /\ cpc' = "userns"
    /\ cFds' = cFds \ {"ready_r", "go_w"}
    /\ UNCHANGED <<net, status, parentVars, proxyVars, ready, go, pasta,
                   sigterm, faults>>

UnshareUser == ChildStep("userns", "maps", {"userns"})

\* setgroups, uid_map and gid_map.
WriteMaps == ChildStep("maps", "netns", {"maps"})

\* A network namespace created by a process without a root mapping is not
\* owned by one: no CAP_NET_ADMIN over it.
UnshareNet ==
    ChildStep("netns", "lo", {"netns"} \cup IF "maps" \in net THEN {"netadmin"} ELSE {})

LoopbackUp == "netadmin" \in net /\ ChildStep("lo", "nft", {"lo"})

LoadNft == "netadmin" \in net /\ ChildStep("nft", "signal", {"filter"})

\* One byte to the parent, if anybody can still read it (EPIPE otherwise).
SignalReady ==
    /\ cpc = "signal"
    /\ \/ /\ Held("ready_r")
          /\ ready' = TRUE /\ cpc' = "readGo"
          /\ cFds' = cFds \ {"ready_w"}
          /\ UNCHANGED status
       \/ /\ ~Held("ready_r")
          /\ ChildEnds("setup99")
          /\ UNCHANGED ready
    /\ UNCHANGED <<net, parentVars, proxyVars, go, pasta, sigterm, faults>>

\* Mutant: end of file is taken for the byte.
ReadGo_IgnoresEof ==
    /\ cpc = "readGo"
    /\ go \/ ~Held("go_w")
    /\ go' = FALSE /\ cpc' = "route"
    /\ UNCHANGED <<cFds, status, net, parentVars, proxyVars, ready, pasta,
                   sigterm, faults>>

\* Blocking one-byte read of the go pipe; end of file fails closed.
ReadGo ==
    /\ cpc = "readGo"
    /\ \/ /\ go
          /\ go' = FALSE /\ cpc' = "route"
          /\ UNCHANGED <<cFds, status>>
       \/ /\ ~go /\ ~Held("go_w")
          /\ ChildEnds("setup99")
          /\ UNCHANGED go
    /\ UNCHANGED <<net, parentVars, proxyVars, ready, pasta, sigterm, faults>>

\* wait_for_default_route(3 s): the route is seen, or the deadline passes
\* without it.  The closure returns, so go_r is dropped.
WaitRoute ==
    /\ cpc = "route"
    /\ \/ /\ "route" \in net
          /\ cpc' = "exec"
          /\ cFds' = cFds \ {"go_r"}
          /\ UNCHANGED status
       \/ /\ "route" \notin net
          /\ ChildEnds("setup99")
    /\ UNCHANGED <<net, parentVars, proxyVars, ready, go, pasta, sigterm, faults>>

\* setsid, the dup2s, the close-on-exec flags, execve of bwrap; an expect()
\* that fails aborts the process.
Exec ==
    /\ cpc = "exec"
    /\ \/ cpc' = "agent" /\ cFds' = {} /\ UNCHANGED status
       \/ ChildEnds("signal")
    /\ UNCHANGED <<net, parentVars, proxyVars, ready, go, pasta, sigterm, faults>>

\* Any `?` of the child's closure: "pre_exec failed", exit code 99.
ChildFails ==
    /\ cpc \in ChildSetup
    /\ ChildEnds("setup99")
    /\ UNCHANGED <<net, parentVars, proxyVars, ready, go, pasta, sigterm, faults>>

AgentExits ==
    /\ cpc = "agent"
    /\ ChildEnds("code")
    /\ UNCHANGED <<net, parentVars, proxyVars, ready, go, pasta, sigterm, faults>>

\* The pending SIGTERM takes effect.
ChildTerminated ==
    /\ sigterm /\ cpc # "exited"
    /\ ChildEnds("signal")
    /\ UNCHANGED <<net, parentVars, proxyVars, ready, go, pasta, sigterm, faults>>

\* bwrap's --die-with-parent, set up when bwrap starts.
DieWithParent ==
    /\ ParentGone /\ cpc = "agent"
    /\ ChildEnds("signal")
    /\ UNCHANGED <<net, parentVars, proxyVars, ready, go, pasta, sigterm, faults>>

ChildSteps ==
    \/ DropPostFork \/ UnshareUser \/ WriteMaps \/ UnshareNet \/ LoopbackUp
    \/ LoadNft \/ SignalReady \/ ReadGo \/ WaitRoute \/ Exec
    \/ ChildFails \/ ChildTerminated

Child == ChildSteps \/ AgentExits \/ DieWithParent

-----------------------------------------------------------------------------
(* pasta: attaches by the child's pid, then configures the namespace.      *)

PastaConfigures ==
    /\ pasta = "starting"
    /\ cpc # "exited" /\ "netns" \in net
    /\ pasta' = "up"
    /\ net' = net \cup {"route"}
    /\ UNCHANGED <<parentVars, cpc, cFds, status, proxyVars, ready, go,
                   sigterm, faults>>

\* A bad port specification, a port in use, no namespace to join.
PastaFails ==
    /\ pasta = "starting" /\ pasta' = "dead"
    /\ UNCHANGED <<parentVars, childVars, proxyVars, ready, go, sigterm, faults>>

Pasta == PastaConfigures \/ PastaFails

-----------------------------------------------------------------------------
(* The SNI proxy, up to its accept loop (the module SniProxy).             *)

ProxyStep(from, to, facts) ==
    /\ proxy = from /\ proxy' = to
    /\ prx' = prx \cup facts
    /\ UNCHANGED <<parentVars, childVars, announced, ready, go, pasta,
                   sigterm, faults>>

\* setns into the child's user and network namespaces, by its pid.
ProxyJoins == cpc # "exited" /\ ProxyStep("join", "route", {"joined"})

ProxySeesRoute == "route" \in net /\ ProxyStep("route", "bind", {"routed"})

ProxyBinds == ProxyStep("bind", "harden", {"bound"})

ProxyHardens == ProxyStep("harden", "announce", {"hardened"})

\* println!("LISTENING"): the line stays readable whatever happens next.
ProxyAnnounces ==
    /\ proxy = "announce" /\ proxy' = "serving" /\ announced' = TRUE
    /\ UNCHANGED <<parentVars, childVars, prx, ready, go, pasta, sigterm, faults>>

\* Any `?` of the proxy's start, its 5 s route deadline included; and the
\* empty config a proxy reads when the parent is gone before it wrote one.
ProxyFails ==
    /\ \/ proxy \in {"join", "route", "bind", "harden"}
       \/ proxy = "config" /\ ParentGone
    /\ proxy' = "dead"
    /\ UNCHANGED <<parentVars, childVars, prx, announced, ready, go, pasta,
                   sigterm, faults>>

Proxy ==
    \/ ProxyJoins \/ ProxySeesRoute \/ ProxyBinds \/ ProxyHardens
    \/ ProxyAnnounces \/ ProxyFails

-----------------------------------------------------------------------------
(* Kills from outside.                                                     *)

Fault(p) ==
    /\ p \in Faults
    /\ faults < MaxFaults
    /\ faults' = faults + 1

ChildKilled ==
    /\ Fault("child")
    /\ cpc # "exited"
    /\ ChildEnds("signal")
    /\ UNCHANGED <<net, parentVars, proxyVars, ready, go, pasta, sigterm>>

PastaKilled ==
    /\ Fault("pasta")
    /\ PastaAlive /\ pasta' = "dead"
    /\ net' = net \ {"route"}
    /\ UNCHANGED <<parentVars, cpc, cFds, status, proxyVars, ready, go, sigterm>>

ProxyKilled ==
    /\ Fault("proxy")
    /\ ProxyAlive /\ proxy' = "dead"
    /\ UNCHANGED <<parentVars, childVars, prx, announced, ready, go, pasta, sigterm>>

\* No guard runs: the support processes and the terminal stay as they are.
ParentKilled ==
    /\ Fault("parent")
    /\ ~ParentGone /\ ppc' = "killed" /\ pFds' = {}
    /\ UNCHANGED <<polls, support, raw, exit, childVars, proxyVars, ready, go,
                   pasta, sigterm>>

Kills == ChildKilled \/ PastaKilled \/ ProxyKilled \/ ParentKilled

\* Both processes of basta are over and the support processes are settled:
\* the only states in which nothing need happen.
Finished ==
    /\ ParentGone /\ cpc = "exited"
    /\ pasta # "starting" /\ proxy \in {"none", "serving", "dead", "reaped"}
    /\ UNCHANGED vars

Next == Parent \/ Child \/ Pasta \/ Proxy \/ Kills \/ Finished

Spec == Init /\ [][Next]_vars

(***************************************************************************)
(* The scheduler runs every process that can run, and a signal sent is     *)
(* delivered.  Nothing makes the agent exit or close its terminal, nor the *)
(* relay fail.  A call with a deadline cannot block, since the deadline is *)
(* a disjunct of its step; a read without one blocks until a byte or EOF.  *)
(***************************************************************************)
Fairness == WF_vars(ParentSteps) /\ WF_vars(ChildSteps)

FairSpec == Spec /\ Fairness

-----------------------------------------------------------------------------
(* Properties.                                                             *)

ParentTypeOK ==
    /\ ppc \in ParentPcs
    /\ pFds \subseteq Ends
    /\ polls \in 0..PastaPolls
    /\ support \subseteq {"pasta", "proxy"}
    /\ raw \in BOOLEAN
    /\ exit \in Errors \cup Statuses

ChildTypeOK ==
    /\ cpc \in ChildPcs
    /\ cFds \subseteq Ends
    /\ net \subseteq NetFacts
    /\ status \in Statuses

SupportTypeOK ==
    /\ pasta \in PastaPcs /\ proxy \in ProxyPcs
    /\ prx \subseteq ProxyFacts
    /\ announced \in BOOLEAN

WorldTypeOK ==
    /\ ready \in BOOLEAN /\ go \in BOOLEAN /\ sigterm \in BOOLEAN
    /\ faults \in 0..MaxFaults

TypeOK == ParentTypeOK /\ ChildTypeOK /\ SupportTypeOK /\ WorldTypeOK

Sealed == {"userns", "maps", "netns", "netadmin", "lo", "filter"} \subseteq net

\* The agent never runs outside its filter: its namespace is owned and
\* filtered and, with --allow-sni, the proxy that inspects :443 had joined
\* it, was reachable and had dropped its privileges before the agent began.
AgentConfined ==
    cpc = "agent" => Sealed /\ pasta # "none" /\ (Sni => prx = ProxyFacts)

\* pasta is never attached to a namespace whose filter is not loaded: no
\* uplink without the filter, at any interleaving of the two processes.
UplinkFiltered == PastaAlive \/ "route" \in net => Sealed

\* A support process outlives the return of pty::run only after a failed
\* go write (netns.rs:135); every other path kills and reaps what it started.
OnlyGoFailureLeaks ==
    ppc = "returned" /\ (PastaAlive \/ ProxyAlive) => exit = "goLost"

\* pty::run does not return while the child is past the gate, unless it is
\* the SIGWINCH set-up that failed (pty.rs:184): nothing tells the child.
ChildSupervised ==
    ppc = "returned" /\ cpc \in {"route", "exec", "agent"} => exit = "noSigwinch"

\* pty.rs:20, "Kills and reaps the long-lived support processes ... on
\* every exit path".
SupportGone == ppc = "returned" => ~PastaAlive /\ ~ProxyAlive

\* However pty::run returns, the host terminal is back in its saved mode.
TerminalRestored == ppc = "returned" => ~raw

\* netns.rs:94, "any spawn failure ... aborts the launch": once the parent
\* has given the launch up, the child never gets past its gate, whichever of
\* the two moves or is killed first.
AbortedNeverRuns == exit \in LaunchErrors => cpc \notin {"route", "exec", "agent"}

\* The launch is decided: whoever dies or fails, the child becomes the agent
\* or ends; it never blocks for ever on a pipe whose other side is gone.
LaunchDecided == <>(cpc \in {"agent", "exited"})

\* Once the child has ended, the parent returns: no read, wait or relay of
\* the parent outlives the child.
ParentReturns == cpc = "exited" ~> ParentGone

\* After a failed relay the parent returns even if the agent would never
\* exit by itself.
RelayErrorEnds == ppc = "sendTerm" ~> ParentGone

\* What the launch promises, without the processes that keep the promise.
Promise == INSTANCE Confinement WITH
    NeedGuard <- Sni,
    sealed <- Sealed,
    linked <- pasta # "none",
    guarded <- announced,
    agent <- IF cpc = "agent" THEN "running"
             ELSE IF cpc = "exited" THEN "ended" ELSE "setup"

\* The handshake implements the abstract order seal, link, guard, start.
KeepsPromise == Promise!Spec
=============================================================================
