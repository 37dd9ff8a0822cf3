# basta: a verification development

TLA+ models of basta (the sources are `src/src/*.rs`), checked with TLC and, for
the safety of every component, proved with TLAPS. basta runs a coding agent in a
bubblewrap sandbox: it checks its command line, resolves workspaces, seeds and
egress rules, builds a network namespace with an output-drop filter, starts pasta
and an SNI proxy in it, runs bwrap on a pty, relays the terminal, and reports what
the agent created.

File and line numbers below refer to `src/src/`, unless a path is given.

## 1. Inventory

| component | code | state it keeps | operations | modelled by |
|---|---|---|---|---|
| launch handshake | `netns.rs`, `pty.rs:60-204` | two one-byte pipes and who holds their ends; the child's namespaces; the support processes; terminal mode; exit code | fork, setup of the child, ready/go handshake, spawn and polls of pasta, spawn and LISTENING of the proxy, gate, exec, relay, wait, the drops of two guards | `Launch`, `Confinement` |
| pty relay | `pty.rs:229-303` | revents, whether stdin is still polled, bytes in hand; the pty's two queues | poll, read master, write stdout, read stdin, write master, ^D, hang-up | `PtyRelay` |
| SNI proxy, start | `sni_proxy.rs:56-81, 102-400` | capabilities, bounding set, namespaces, filter | read the configuration, join the namespaces, wait for the route, bind, harden, announce | `SelfSandbox`; its place in the launch: `Launch` |
| SNI proxy, accept loop | `sni_proxy.rs:82-101, 402-522` | the counter of active connections, each connection's phase, descriptors, threads | accept, count, refuse, spawn, advance, give up, release, end of a thread | `SniProxy` |
| SNI proxy, one connection | `sni_proxy.rs:402-523` | the peeked bytes, reads made, the name, addresses tried | scan, read, look up, dial, replay, splice | `Connection` |
| SNI proxy, splice | `sni_proxy.rs:510-561` | the shared activity clock, each thread's position | read, write, time-outs, half-close | `SniRelay` |
| ClientHello parser | `client_hello.rs` | none (a scan of a growing buffer) | records, handshake header, extensions, the name | `ClientHello` |
| workspace lock | `workspace.rs:57-98`, `lockset.rs`, `main.rs:71-105, 181-199`, `argv.rs:234-239` | the file system at launch, the binds, the watched paths, the report | masking check, plan, binds, report; the agent's create/modify/delete/rename | `Lockset` |
| egress rules | `egress.rs` | rule list, hosts map, SNI list | resolve, nft rules, hosts file | `Egress` |
| seccomp filter of the agent | `seccomp.rs` | denylist | switches, compiled rules | the names, as preflight checks them: `Sandbox`; the rules are not modelled |
| command line | `cli.rs` | options | preflight | `Sandbox` |
| bwrap arguments | `argv.rs` | mount list | order of mounts, namespaces, devices, variables | `Sandbox`; the lock's binds: `Lockset` |
| seeds, environment | `seed.rs`, `env.rs` | destinations | checks of trees, keys and homes | `Sandbox` |
| run order | `main.rs` | workspaces, overlays, runner | preflight to launch, dry run, report | `Sandbox`; report: `Lockset` |
| host scripts, fuzz target, packaging | `src/basta-*`, `src/fuzz`, `src/build.rs`, ... | | | not modelled: shell, test harness, installation |

**How they interact.** `main::run` resolves workspaces, plans the lock, resolves
egress, then calls `pty::run`. That forks; parent and child share nothing but two
pipes and the pty. The child's closure (`netns.rs:51-92`) unshares, loads the
filter and signals *ready*; the parent's (`netns.rs:93-140`) attaches pasta by
the child's pid, starts the proxy (which joins the child's namespaces by pid),
and writes *go*. pasta changes the child's namespace asynchronously. After the
relay ends the parent waits for the child and two drop guards undo what it did.
The proxy's threads share a counter and, per connection, a clock. The lock
relies on the kernel's mount semantics and on argv order; the report looks at
the host's file system after the agent ended.

**What is hard here.** Any of four processes may die between any two steps; an
end of file on a pipe depends on which process still holds a copy of an end;
time-outs race answers; guards run on some error paths and not on others; the
relay is one thread between two bounded queues; the proxy's counter is shared
by threads that may leave early; binds are decided at launch and the agent acts
later. `PROJECT.json` lists these as hazards, each at its line, with the
properties that would catch it.

**What makes each part correct.** Launch: the agent never runs without filter
and proxy, nothing outlives a launch that failed, nobody blocks for ever.
Relay: output is neither lost nor reordered, the loop ends with the agent and
not before, end of input arrives. Proxy: cap and counter are exact, a slot is
always given back, a connection is always taken up. Splice: no loss before a
half-close, idleness means both directions. Lock: what was locked stays what it
was, `:ro` stays read-only, what appeared is reported. Egress: a packet leaves
only towards a rule. Parser: a decision on a prefix stands for the whole input, and
a name is only taken from what a strict endpoint reads the same way. Proxy start:
each step still has the rights it needs, and none is left over. Sandbox: the
caller's home is not there, seeds are never written to the host, the network is the
one that was asked for.

## 2. The modules

### Launch, Confinement, Launch_proof, MCLaunch
`Launch` follows parent and child statement by statement. `ppc` and `cpc` are
their program counters; the pipe ends each process holds are `pFds` and `cFds`, as
`fork` copies all four: a blocking read is enabled by the byte or by *no process
holding the write end*. `net` is the set of facts established in the child's
namespaces (`netadmin` only if the maps precede the network namespace,
`netns.rs:54`), `prx` that of the proxy's. A deadline (8 s for LISTENING, 3 s
and 5 s for routes) may expire in any state where the awaited event is not seen.
Error paths are kept apart because they differ: `Return` is a plain `?`, `Abort`
one after `kill_all`. `Kill`/`Reap` are `StackGuard::drop` and `kill_all` alike.
`exec` and its `expect`s are one step.

`Confinement` says what the launch is for in five actions (seal, link, guard,
start, end); `Launch` implements it under the mapping at the end of the module.

### PtyRelay, PtyRelay_proof, MCPtyRelay
The loop of `relay`, with one action for each call between two blocking points.
The kernel's part is external: canonical-mode line discipline (text reaches the
reader when a newline or ^D commits it; ^D on an empty line reads as end of
file), two bounded queues, `poll(2)` (a pipe without writers is POLLHUP without
POLLIN; a file at its end is POLLIN), and that a pty read may be short.
What the agent prints is numbered, so that stdout, the bytes in hand and the pty's queue
are sequences whose order can be compared with the order of printing; `WriteStdout` is
one write of `write_all`'s loop, which may be short. A read of stdin is `"line"` or
`"part"`. `Stuck` is the state in which the relay waits for room in the agent's input and
the agent for room in its output: the code can get there, and the liveness properties
name it as their one exception.

### SniProxy, SelfSandbox, SniProxy_proof, MCSniProxy
`SelfSandbox` is the start of the proxy's process: eleven steps in the code's order,
each with the calls it makes, the capabilities the kernel wants for it and what it
leaves of the process's rights. The filter is the allowlist of `install_seccomp`, the
socket call split by its family. `SniProxy` extends it with the accept loop:
the acceptor's four positions and each connection's phase, from which descriptors and
threads are counted. A thread is counted until the kernel has done with it: `Release` is
the `fetch_sub` alone, after which the slot is free and the thread is one of `leaving`
until `ThreadGone`, and so is the second thread of a splice once its pipe is over
(`SecondOver`, or `OwnOver` and the join of `RelayOver`). Every transition asks whether the filter permits the calls of
its phase; if not, or if `thread::spawn` finds no thread (`panic = "abort"`,
`src/Cargo.toml`), the process is gone (`Abort`). What a host grants is the variable
`limits`, chosen in `Init`.

### ClientHello, Connection, SniRelay, ClientHello_proof, Connection_proof, MCConnection
`ClientHello` is the parser. A byte is a tuple that says which field it belongs to, a
hello a record of what the parser tells apart; `Scan` walks the records of a buffer as
`scan` does (`Turns`, a recursive function over their number), `TryParse` walks the
extensions (`Walk`). `Encodes` and `Names` say without a loop what a conformant endpoint
would make of the same bytes: where each record ends and what each position carries,
and which extensions there are. `Connection` is one handler from its first byte to its
end: any stream of `Streams` arrives in any segmentation, and the handler scans after
each read, looks the name up in the frozen allowlist, dials the pinned addresses in
turn, replays the buffer and starts the two pipes. These are `SniRelay`, taken in by
`INSTANCE` on `Connection`'s own variables; ages are in ticks, capped just above the
values they are compared with. Connections may be reset at any moment (`Fails`), which no
fairness forces.

### Sandbox, Sandbox_proof, MCSandbox
`Sandbox` is `main::run` from preflight to the choice between `run_egress` and
`run_plain`, one action per stage, each with its refusals; `cmd` and `host` (its
directories, links, seeded trees, tools, environment) are chosen in `Init`. `Arguments`
is the list `argv::build` makes, in its order (`System` is what it begins with on every
host, `Own` the variables it sets itself); `MountAt` and `Shows` say what bubblewrap
makes of it, the last mount over a path. `Known` has the names that `--allow-syscall`
and `--deny-syscall` may give. `Lockset` and
`Sandbox` share the masking rule and the order of workspaces; the lock's own pins are in
`Lockset` alone. It is assumed that `$HOME` is canonical; mountpoints that are missing
are not modelled.

### Lockset, Lockset_proof, MCLockset
The file system is a function from paths to nodes that keep their launch path as
identity, so a mount follows its node when a directory above is renamed, as in
the kernel. `ResolveWorkspaces` is the masking check, `PlanLock` the plan
(leaves, watch list, pins shallow first, then leaves read-only) of each read-write
workspace in turn (`Plans`), appended to the workspace binds. `Sorted` is any listing of
a set that has shallow paths first: the code's is one of them, and TLC and the proofs
need no more. `MountOf` is the last bind over a path. The agent creates,
modifies, deletes and renames what the mounts permit (no removal or rename of a
mountpoint, none across mounts). `Report` is the end of `main::run`: `exists` follows links, and
where a link leads the agent and the host decide, so any of the watched links may lead
nowhere then (`dangling`). `Movable` is the
one exception the properties make, see "seen while modelling" in section 5.

### Egress, Egress_proof, MCEgress
`EgressSpec::resolve` deals with one flag per step and refuses or adds rules, pins
and SNI entries; a resolver answers any member of `Answers`, the empty set (no IPv4
address) included. A flag is what parsing makes of it, with its host name, its
address or block, its ports and its protocol; a malformed one has kind `"bad"`.
`Accepted`, `Redirected` and `Fate` are the rendered chains as the kernel runs them
on a packet that opens a connection: nat before filter, the interface of the first
route still on a redirected packet, IPv4 only in `ip` matches. An address is a number
of `Width` bits, a block its prefix; `Span` gives the sizes as a table, so that proofs
need no exponentials. `CidrRange` clears and sets the low bits as `cidr_range` does,
`Member` says what sharing a prefix means, and `OverlapIsMeeting` relates the two.
The properties compare the packet's fate with the command line and the answers,
never with the rules.

## 3. The runs

| run | instance | shows |
|---|---|---|
| `launch` | proxy, 2 polls of pasta, any 2 kills of any of the four processes | six invariants, refinement of `Confinement`, three liveness properties |
| `relay` | 2 lines from a file, up to 4 units of banner and 2 per line, an input queue of 1, an output queue of 3, reads of 2, writes that may be short, stdout may close | output in its order, no loss but the tail past the last read, ends with the agent and only then, end of file delivered and output flowing unless relay and agent wait for each other |
| `proxy` | the start of the process, then 4 clients on 2 slots; 3, 8 or 9 descriptors, 4 or 5 threads | contained before it serves, fails only where the host does, never killed by its own filter, aborts only with fewer threads than two for each slot and one for each that is not gone; cap, exact counter, backlog served, slots returned |
| `connection` | 33 streams, each wrong in one place or none, in every segmentation; two addresses; a splice of up to 1 unit more per direction, a limit of two checks | upstream only for a name a strict endpoint reads too, no proper hello refused on any prefix, nothing lost from the hello to the half-close, idle close only when both are idle, always reclaimed |
| `lock` | 16 launches (a repository, a submodule, links, nested and read-only workspaces), 3 operations of the agent, which makes files, directories and links | locked leaves intact, `:ro` intact, rows reported, by the exit code too under `--lock-strict` |
| `egress` | 16 addresses in blocks of any size, 4 ports; every flag alone, with and without an SNI host, and pairs of six flags that meet; resolvers answer nothing, outward, inward or mixed addresses | what leaves was allowed by a flag, link-local and unwritten private addresses are out of reach, port 443 is inspected, what was allowed by name works |
| `sandbox` | 1852 command lines on 8 hosts: all combinations of workspaces, seeds, persisted directories and networks; the other switches where they meet | home private, seeds ephemeral, network as asked, agent placed |
| `launch_leak` | one kill of the child | **violated**: see 5 |
| `relay_lost`, `relay_pipe` | as named | **violated**: see 5 |
| `lock_rogit`, `lock_hooks` | as named | **violated**: see 5 |

**That the properties can fail.** A definition `X_Y` under a comment "Mutant" is `X`
with a plausible bug in the code. No specification uses it; put in the place of `X` it
makes TLC report the property `PROJECT.json` lists with it, one for every property of
the passing runs.

**Why the bounds are enough.** Launch: `PastaPolls` only sets how often pasta may
die between polls, two give a first and a last one (six in the code); two kills
cover a death and a second one during its handling; the proofs need no bound.
Relay: queues that fill and drain, reads and writes that take part and leave
part; input longer than its queue, so the write to the master blocks, for ever in the
mutual wait. Proxy: a cap that is reached, exceeded by one and by two (one waits in the
backlog meanwhile), and left; limits on both sides of 4 descriptors per
slot, and two threads per slot exactly and one more, neither of which is
enough while finished threads linger: the run aborts on both. Connection: headers of two bytes put every cut inside and between headers and
bodies; `MaxRecords` is 2 (a stream of three records exceeds it), `MaxPeek` 8 (a hello
exceeds it), `MaxPeekReads` 4 (a dripping client exceeds it), and the send buffer is
smaller than the longest stream. Each thread times out with the clock below, at and
above the limit. Lock: a way round a bind takes at
most three operations (move a directory away, make one anew, fill it).
`MAX_GITDIR_DEPTH` is 1 instead of 8, and two of the default rows stand for all.
Egress: a block of each size at each place relative to the three reserved ones, one
address in each class and several outward ones, ports below, at and above 443.
Sandbox: the order of mounts matters for two mounts at a time, and all pairs of seeds,
persisted directories, workspaces and network overlays occur, at, above and below one
another; `MAX_SEED_DEPTH` is 1, with trees at and past it.
Symmetry is not used; the passing runs have 1 500 to 173 000 states.

`CHECK_DEADLOCK FALSE` stands where a system may really stop: a relay that ended
or whose agent is idle, a proxy without clients, a launch that was refused.

**Fairness.** Launch: the kernel runs a process that can run and delivers a signal
that was sent (`WF` of the parent's and of the child's steps). Not assumed: that
the agent exits or closes its terminal, that the relay fails, that pasta or the
proxy do anything at all: the deadlines make up for them. Relay: the loop and an
agent that has something to print or to read; the agent need not end. Proxy: the
acceptor, and each handler as far as it depends on itself: its deadlines, clones and
decrement, not what its peers must do; the replay is fair on the assumption that a
ClientHello fits the socket's send buffer. Connection: the handler, both threads and
time, not the peers. There the replay is fair only if upstream reads or the hello fits
`SendBuffer`, and `Reclaimed` names the rest as the one way to be held for ever.

## 4. Proofs

`Launch_proof` proves for every number of polls and kills, with and without a
proxy (only the ASSUMEs of `Launch` are used):

- `TypeCorrect`: `Spec => []TypeOK`.
- `Invariant`: `Spec => []IInv`. The safety properties are not inductive: that
  the agent is confined when it runs follows from what the go byte stood for,
  and that from what the ready byte stood for. `IInv` says so step by step:
  `ChildProgress` (what the child has done, by its position), `ReadyMeansSealed`,
  `ProxyProgress`, `GoMeansReleased`, `ExitMeansOver` (an exit decided before the
  gate means the child never passes it), `Owned` (who will reap what is alive),
  `RawMeansGuarded`, `PollsBounded`. One lemma per conjunct and group of actions.
- `Confined`, `Filtered`, `LeaksOnlyOnGo`, `Supervised`, `Restored`, `Gated`: the
  invariants of the run `launch`.
- `Refines`: `Spec => Promise!Spec`.

`Egress_proof` proves for addresses of any width, any reserved blocks, command line
and answers (the ASSUMEs of `Egress`):

- `OverlapIsMeeting`: two blocks overlap, as the code computes it, exactly when some
  address is in both; so refusing overlaps refuses every block that holds a
  link-local address, whatever its network address.
- `RulesSound`: `Spec => []IInv`. That a packet was allowed follows only if each rule
  still answers to the flag it came from, so `IInv` keeps that link: `RulesFromFlags`,
  `SniFromFlags`, `NamesPinned`.
- `Authorised`, `Inward`, `Inspected`, `Reachable`: the invariants of the run
  `egress`, `Reachable` with the further invariant that every flag was dealt with
  once the rules are up.

`SniProxy_proof` proves for any number of clients, any cap and any limits of the host:

- `ComesUp`, `Containment` (`OnlyHostFails`, `Contained`): `Progress` ties the rights of
  the process to the number of steps done.
- `Capped`, `Counted`: `Hands` ties the acceptor's position to the one
  accepted connection, `Counting` the counter to the handlers. `CapHeld` is not
  inductive without `CountExact`, since the cap is decided from the counter.
- `Survival` (`Survives`, an action property): at a spawn the handlers, and the second
  threads of their splices, are at most two for each slot but the one being filled, and
  what else runs is `leaving`; so an abort means that the host granted fewer. That the
  filter permits the calls of every phase, the end of a thread included, is `Progress`.

`PtyRelay_proof` proves for queues and reads of any size:

- `Conservation`, `Outlives`, `BoundedLoss`: `HandHeld` (output in hand only between a
  read and its write), `HupForGood` (a hang-up is never taken back), `LastRound` (what
  the wakeup that reported the hang-up still has to read). `Conserved` is an equality of
  sequences: order and identity, not counts.
- `NeverStuck`: where the pty holds the whole input and the ^D, relay and agent never
  wait for each other. `Fits` says that what is committed and what is still to come never
  exceed the input.

`ClientHello_proof` proves for any hellos and any buffer (`HelloAssumption`;
`HellosAssumption`: sizes are numbers, no body is empty, lists are sequences):

- `ParserExact`: the walk of the extensions returns a name exactly when `Names` holds.
- `ScanSound`: a buffer the scan is done with is one hello in at most `MaxRecords`
  records, and nothing else. `ScanComplete`: of a beginning of such a buffer the scan
  never refuses a hello that names a host. Both go by what the loop has done after k
  turns: the k records behind it carry the first positions of the message, so `hs` is
  that beginning, and the next turn's verdict is about the next record alone.

`Connection_proof` proves for any streams, segmentation and limits:

- `Named`, `Accepted`: `UpstreamNamed` and `ProperAccepted`, from the two theorems about
  the scan and from `Scanned`, which says that a name or a refusal came from a scan of
  what is in the buffer. `Accepted` is about hellos that fit (`Fits`) `MAX_PEEK`; a
  longer one is refused, as `client_hello.rs:16` says.
- `Lossless`: `Peeked` and `Resent` say that buffer and replay are beginnings of the
  stream, `Flow` where each unit is between being sent and delivered.
- `IdleOnly`: `Clock`, the shared clock is never older than either direction's silence.

`Lockset_proof` proves for any file systems, command lines and number of operations
(`LocksetAssumption`: a finite set of paths closed under prefixes; at launch a node has
a directory above it; workspaces are directories):

- `TypeCorrect`, and `Mounted`: every bind is still over the node it was made over.
- `Intact`: `LeavesIntact`. A locked path could change in two ways, by a write or by a
  directory above it being moved. For the first, the last bind over it must be its own
  read-only one, which holds of the plan (pins before leaves, both after the workspaces)
  if no later plan's pin is on or above it; then `MountsKept` says that the bind that
  decides stays the same, since a rename stays within one mount and takes the mounts
  below along. For the second, every directory between workspace and leaf is a
  mountpoint: `Rooted` and `Placed` say that a node whose ancestors are all mountpoints
  is where it was, `Clean` that what is sealed was never written. Above the workspace
  the code pins nothing, and the property says so (`Movable`).
- `ReadOnlyKept`: `ReadOnlyHolds`, likewise.
- `Reported`: `RowsReported`, with no further condition, from `WatchDecided`, which says
  when the watched and the created set are computed; links that lead nowhere are the
  exception that the property itself names.

`Intact` and `ReadOnlyKept` have a condition, since the code does not do better. `LocksApart`: no pin
of a later workspace's plan is at, above or below a locked path of an earlier one, unless
the path is locked by the later plan as well. It fails for `basta p/s/x p --lock s/x/b` when p/s/x
has both `.envrc` and `b`: p's plan pins `p/s/x` read-write after the plan of
`p/s/x` made its `.envrc` read-only, and TLC finds `LeavesIntact` violated there.
`PinsApart`: no pin is at, above or below a read-only workspace, except a pin of a
read-write one inside it that was named later. It fails for `lock_rogit`. All launches of the run `lock` meet
both, nested and read-only workspaces among them.

`Sandbox_proof` proves for any command lines and hosts (`SandboxAssumption`: what is
given has its types, trees are finite, `$HOME` is not under a file or a GPU node):

- `Agreement`: when the sandbox runs, preflight, `run` and `build` have decided alike
  whether it is filtered, though from different state.
- `Private`, `Ephemeral`, `AsAsked`, `Placement`: the invariants of the run `sandbox`.
  `IInv` says what each stage has checked and what it left (`Checked`, `Pinned`,
  `Unmasked`, `Vetted`, `Copied`, `Overlaid`, `Ran`) and that the list is that of `build`
  (`Listed`). The rest is about the list: a chain of layout lemmas says of each group of
  arguments which mounts it has and what comes after it, for seeds, persisted
  directories, devices, workspaces and variables of any number, so the last mount over
  a path is known. `Private` assumes `ResolvElsewhere`, that /etc/resolv.conf is not a
  link into the home: with `--net host` its target is bound where it is
  (`argv.rs:155`), and TLC finds `HomePrivate` violated on such a host.

**Recursion and sorted lists.** `Turns`, `Walk` and `Plans` are recursive functions, and
the proofs use what each turn makes of the one before. The library's induction theorems
take an operator and are out of the provers' reach; instead the least member of the set
of turns at which a claim fails (`NatLessThanWellFounded`, a set theorem) is shown not to
exist. `Sorted` and `ByDepth` are defined by `CHOOSE`, and a lemma shows that what is
chosen exists for every finite set of paths.

The types of every module that has state are proved, and so need no run; every safety
property that a passing run checks is stated by a theorem.

Only model-checked: everything about liveness (`LaunchDecided`, `ParentReturns`,
`RelayErrorEnds`, `RelayEnds`, `EofDelivered`, `KeepsRelaying`, `BacklogServed`,
`SlotReturned`, `Reclaimed`), since the prover does not do fairness; and of `NameLength`,
a fold, the proofs use only that both sides of `ParserExact` ask it of the same name.

## 5. Where code and text disagree

Each has a run whose counterexample TLC finds:

- `launch_leak`: the child dies after its ready byte; the `?` on the go write
  (`netns.rs:135`) drops the `Vec<Child>`, and pasta runs on. `pty.rs:20` says every
  exit path kills and reaps. `OnlyGoFailureLeaks` shows it is the only such path.
- `relay_lost`: one read per poll, and the poll that reports hang-up ends the loop:
  output beyond one read is lost, against `pty.rs:269`. `LossOnlyBeyondOneRead`
  shows that nothing else is.
- `relay_pipe`: the end of piped input is POLLHUP alone, `pty.rs:281` looks for
  POLLIN: no ^D, and poll returns at once for ever.
- `lock_rogit`: `basta p p/.git:ro`: the lock's read-write pin of `p/.git` comes
  after the read-only bind and wins.
- `lock_hooks`: an absent `.git/hooks` is neither locked nor watched.

Seen while modelling, outside what the passing runs check as a property:

- relay: a last line without newline swallows the single ^D; input larger than the pty
  to an agent that answers at length blocks relay and agent on each other (`Stuck`, which
  the run `relay` reaches, and which `NeverStuck` says needs such an input).
- proxy: a slot is given back before its thread is gone (`sni_proxy.rs:96`), so a host that
  grants two threads for each slot and no more may still refuse a spawn, and the proxy
  aborts; 256 slots need 1024 descriptors for splices, the usual soft limit; the replay
  (`sni_proxy.rs:412`) is the one write without a time-out; bytes pipelined in the same
  read as the ClientHello are refused, read later they are passed on.
- lock: with `basta p p/s/x` the directory `p/s` is no mountpoint, so the agent can move it
  away with the inner workspace, its locked files or its `:ro`, though `lockset.rs:68`
  calls the rename bypass closed. Contents are never written: `Movable` states the
  exception. One workspace's pin can cover another's leaves. A link that the agent
  leaves in a watched place and that leads nowhere on the host at that moment is not
  reported (`Path::exists`, `main.rs:184`), though `src/README.md:321` promises a warning
  for what is new there: `dangling` in `RowsReported`.
- workspaces: a later `:ro` workspace around an earlier read-write one makes it, and the
  agent's current directory, read-only; a workspace that contains the target of a linked
  resolv.conf (`/mnt` on WSL) masks the overlay. `NetAsAsked` and `AgentPlaced` except both.
- persist: `--persist ...:.local/bin` (or `.config/mise`, `.local/share/mise`) is covered
  read-only by the tools' binds; `--dry-run` creates a missing SRC, and a SRC is created
  before its DEST is refused; bubblewrap makes mountpoints inside persisted directories.
- seccomp: `seccomp.rs:12` says that a denial holds on both ABIs, since a denied number is
  denied with the x32 bit too; a few calls (kexec_load, ptrace, move_pages,
  process_vm_readv and process_vm_writev) have x32 numbers of their own, which are not
  that. Applying the proxy's filter sets no_new_privs once more.
- egress: two flags for one name whose lookups differ pin all the addresses, but open each
  port only at its own.

## 6. Not modelled, and why

Window-size forwarding (changes nothing else); the wording of messages, the rendering
of hosts, resolv.conf and nft text (what they mean is modelled); the grammar of
flags, which is the argument parser's; the rules of the agent's filter, a pure list made
from the switches that a property would only restate, and their BPF, which is the
library's; the links of
a merged `/usr`; sealed memory files and the closing of inherited descriptors; install
and self-test scripts, build files and the fuzz harness, which are not the program.

## 7. Plan

Done: A launch, B relay, C proxy, connection and parser, D lock, E egress, F sandbox
and the proxy's filter; proofs G of every safety property of the passing runs, as in section 4.
Left: `SniRelay` as an implementation of a lossless pipe per direction, and the lock's
plan against the launches of `lock_rogit`, where a sharper `PinsApart` would say exactly
which `:ro` workspaces the pins re-open.
