------------------------------ MODULE Sandbox ------------------------------
(***************************************************************************)
(* How basta turns a command line into a sandbox (main.rs, run): it checks *)
(* the switches, pins the workspaces, checks the environment and the       *)
(* seeds, resolves the egress rules, and builds the arguments of           *)
(* bubblewrap, a list of mounts that are made in order, each over the ones *)
(* before it.  Every step may refuse the launch.                           *)
(*                                                                         *)
(* A path is a sequence of names.  The read-only pins of the lock plan go  *)
(* below the workspaces (the module Lockset) and are left out here, as are *)
(* the links of a merged /usr.                                             *)
(***************************************************************************)
EXTENDS Naturals, Sequences, FiniteSets, SequencesExt, FiniteSetsExt

CONSTANTS
    Commands,      \* the command lines
    Hosts,         \* the hosts they are given on
    ProxyPort,     \* PROXY_PORT
    MaxSeedDepth   \* MAX_SEED_DEPTH

Path == Seq(STRING)

Under(path, top) == IsPrefix(top, path)

\* What run() reads of the command line and of the host.  A GPU is a node in
\* /dev, and nothing lies below a file or a device.
ASSUME SandboxAssumption ==
    /\ ProxyPort \in Nat /\ MaxSeedDepth \in Nat
    /\ \A c \in Commands :
          /\ c.workspaces \in Seq([path : Path, ro : BOOLEAN])
          /\ c.persist \in Seq([src : Path, dest : Path])
          /\ IsFiniteSet(c.seeds) /\ \A s \in c.seeds : s.dest \in Path
          /\ c.envs \in Seq([key : STRING, valid : BOOLEAN, pass : BOOLEAN])
    /\ \A h \in Hosts :
          /\ {h.home, h.cwd, h.resolv} \subseteq Path /\ h.gpus \in Seq(Path)
          /\ \A path \in DOMAIN h.links : h.links[path] \in Path
          /\ \A src \in DOMAIN h.files :
                IsFiniteSet(DOMAIN h.files[src]) /\ DOMAIN h.files[src] \subseteq Path
          /\ \A file \in {<<"dev", "null">>, <<"etc", "hosts">>, <<"etc", "resolv.conf">>, h.resolv} :
                file # <<>> => ~Under(h.home, file)
          /\ \A i \in DOMAIN h.gpus :
                /\ Len(h.gpus[i]) = 2 /\ h.gpus[i][1] = "dev"
                /\ ~Under(h.home, h.gpus[i]) /\ ~Under(h.resolv, h.gpus[i])

VARIABLES
    pc,          \* the next step of run(), or "refused", "printed", "running"
    cmd,         \* the command line
    host,        \* what it is given on
    workspaces,  \* the workspaces, pinned
    cwd,         \* where the agent starts
    seeds,       \* dirs and files to put into $HOME, and whether there are overlays
    ops,         \* the arguments of bubblewrap
    runner,      \* "egress" or "plain": netns::run_egress or pty::run_plain
    made         \* directories created on the host

given == <<cmd, host>>
vars == <<pc, given, workspaces, cwd, seeds, ops, runner, made>>

NoOverlay == <<>>

Init ==
    /\ pc = "preflight" /\ cmd \in Commands /\ host \in Hosts
    /\ workspaces = <<>> /\ cwd = <<>> /\ ops = <<>> /\ runner = "none" /\ made = {}
    /\ seeds = [dirs |-> {}, files |-> {}, resolv |-> NoOverlay]

Refuse == pc' = "refused"

-----------------------------------------------------------------------------
(* The switches.                                                           *)

\* Mutant: --allow-loopback alone does not ask for the egress path.
EgressRequested_NoLoopback == cmd.allow # {} \/ cmd.sni # {} \/ cmd.publish # {}

\* Any of --allow, --allow-sni, --allow-loopback and --publish.
EgressRequested == cmd.allow # {} \/ cmd.sni # {} \/ cmd.loopback # {} \/ cmd.publish # {}

\* The syscalls that --allow-syscall and --deny-syscall can name: those the
\* agent's filter denies by default, and those it can be asked to deny.
DefaultDenylist ==
    {"io_uring_setup", "io_uring_enter", "io_uring_register", "add_key", "request_key", "keyctl",
     "userfaultfd", "bpf", "mount", "umount2", "pivot_root", "chroot", "mount_setattr",
     "open_tree", "move_mount", "fsopen", "fsconfig", "fsmount", "fspick", "setns", "unshare",
     "name_to_handle_at", "open_by_handle_at", "init_module", "finit_module", "delete_module",
     "kexec_load", "kexec_file_load", "acct", "quotactl", "swapon", "swapoff", "syslog", "uselib"}

Known ==
    DefaultDenylist \cup
    {"ptrace", "process_vm_readv", "process_vm_writev", "perf_event_open", "personality",
     "move_pages", "mbind", "migrate_pages", "get_mempolicy", "set_mempolicy"}

Acceptable ==
    /\ "bwrap" \in host.tools
    /\ EgressRequested => cmd.net # "host" /\ {"nft", "pasta"} \subseteq host.tools
    /\ 0 \notin cmd.loopback
    /\ \A p \in cmd.publish : p >= 1024 /\ p # ProxyPort /\ p \notin cmd.loopback
    /\ \A path \in cmd.locks : path # <<>> => path[1] # "/" /\ ".." \notin ToSet(path)
    /\ cmd.noSeccomp => cmd.allowSyscall = {} /\ cmd.denySyscall = {}
    /\ cmd.allowSyscall \cup cmd.denySyscall \subseteq Known

Preflight ==
    /\ pc = "preflight"
    /\ IF Acceptable THEN pc' = "workspaces" ELSE Refuse
    /\ UNCHANGED <<given, workspaces, cwd, seeds, ops, runner, made>>

-----------------------------------------------------------------------------
(* The workspaces.                                                         *)

SystemDirs ==
    {<<>>} \cup {<<d>> : d \in {"etc", "usr", "var", "sys", "proc", "boot", "root", "dev", "bin",
                                "sbin", "lib", "lib64", "home"}}

\* BASTA_ALLOWED_ROOTS, or the default.
AllowedRoots == IF host.roots # {} THEN host.roots ELSE {host.home, <<"tmp">>, <<"mnt">>}

\* The path that canonicalize returns.
Canonical(path) == IF path \in DOMAIN host.links THEN host.links[path] ELSE path

Resolvable(w) ==
    /\ Canonical(w.path) \in host.dirs
    /\ AllowedRoots \cap SystemDirs = {}
    /\ \E root \in AllowedRoots : Under(Canonical(w.path), root)

\* The current directory, when no workspace is given.
Asked == IF cmd.workspaces = <<>> THEN <<[path |-> host.cwd, ro |-> FALSE]>> ELSE cmd.workspaces

ResolveWorkspaces ==
    /\ pc = "workspaces"
    /\ IF \A i \in DOMAIN Asked : Resolvable(Asked[i])
       THEN /\ pc' = "home"
            /\ workspaces' = [i \in DOMAIN Asked |-> [Asked[i] EXCEPT !.path = Canonical(@)]]
       ELSE Refuse /\ UNCHANGED workspaces
    /\ UNCHANGED <<given, cwd, seeds, ops, runner, made>>

\* host_home: an absolute path without "..", not a system directory.
HomeOk == host.home \notin SystemDirs /\ ".." \notin ToSet(host.home)

\* Mutant: only $HOME itself is refused, not what contains it.
MasksHome_Exactly(w) == w.path = host.home

MasksHome(w) == Under(host.home, w.path)

Masking ==
    \/ \E i \in DOMAIN workspaces : MasksHome(workspaces[i])
    \/ \E i, j \in DOMAIN workspaces :
          /\ i < j /\ workspaces[i].ro /\ ~workspaces[j].ro
          /\ Under(workspaces[i].path, workspaces[j].path)

\* Mutant: the first workspace, read-only or not.
CwdOf_First(ws) == ws[1].path

CwdOf(ws) ==
    LET writable == {i \in DOMAIN ws : ~ws[i].ro}
    IN  ws[IF writable = {} THEN 1 ELSE Min(writable)].path

RejectMasking ==
    /\ pc = "home"
    /\ IF HomeOk /\ ~Masking THEN pc' = "envs" /\ cwd' = CwdOf(workspaces)
       ELSE Refuse /\ UNCHANGED cwd
    /\ UNCHANGED <<given, workspaces, seeds, ops, runner, made>>

-----------------------------------------------------------------------------
(* The environment and the seeds.                                          *)

Reserved == {"HOME", "PATH", "USER", "LOGNAME", "XDG_RUNTIME_DIR", "TERM", "LANG", "LC_ALL"}

\* A key that is well formed, not reserved, and set when it is passed through.
EnvOk(e) == (e.pass => e.key \in host.env) /\ e.valid /\ e.key \notin Reserved

ParseEnvs ==
    /\ pc = "envs"
    /\ IF \A i \in DOMAIN cmd.envs : EnvOk(cmd.envs[i]) THEN pc' = "seeds" ELSE Refuse
    /\ UNCHANGED <<given, workspaces, cwd, seeds, ops, runner, made>>

\* A destination is below $HOME: no leading "/" and nothing but names.
DestOk(dest) == dest # <<>> /\ {"/", ".", ".."} \cap ToSet(dest) = {}

\* host.files gives each SRC the kinds of what is at and below it.
SeedOk(s) ==
    /\ DestOk(s.dest) /\ s.src \in DOMAIN host.files
    /\ LET tree == host.files[s.src] IN
       /\ tree[<<>>] \in {"file", "dir"}
       /\ \A path \in DOMAIN tree :
             tree[path] # "symlink" /\ (tree[path] = "dir" => Len(path) <= MaxSeedDepth)

Placed(kind) ==
    UNION {{host.home \o s.dest \o path :
              path \in {p \in DOMAIN host.files[s.src] : host.files[s.src][p] = kind}} :
           s \in cmd.seeds}

BuildSeeds ==
    /\ pc = "seeds"
    /\ IF \A s \in cmd.seeds : SeedOk(s)
       THEN pc' = "egress" /\ seeds' = [seeds EXCEPT !.dirs = Placed("dir"), !.files = Placed("file")]
       ELSE Refuse /\ UNCHANGED seeds
    /\ UNCHANGED <<given, workspaces, cwd, ops, runner, made>>

\* Where a file over /etc/resolv.conf must go to be read through the link.
ResolvDest == IF host.resolv # <<>> THEN host.resolv ELSE <<"etc", "resolv.conf">>

\* EgressSpec::resolve (the module Egress) and the two overlays.
ResolveEgress ==
    /\ pc = "egress"
    /\ \/ EgressRequested /\ pc' = "build" /\ seeds' = [seeds EXCEPT !.resolv = ResolvDest]
       \/ EgressRequested /\ Refuse /\ UNCHANGED seeds
       \/ ~EgressRequested /\ pc' = "build" /\ UNCHANGED seeds
    /\ UNCHANGED <<given, workspaces, cwd, ops, runner, made>>

-----------------------------------------------------------------------------
(* The arguments of bubblewrap.                                            *)

Mount(kind, src, dest, rw) == [op |-> "mount", kind |-> kind, src |-> src, dest |-> dest, rw |-> rw]
RoBind(path) == <<Mount("host", path, path, FALSE)>>
RoBindTry(path) == IF path \in host.dirs THEN RoBind(path) ELSE <<>>
Null(path) == <<Mount("host", <<"dev", "null">>, path, FALSE)>>
Made(kind, path) == <<Mount(kind, <<>>, path, kind = "tmpfs")>>
Put(op, path) == [op |-> op, dest |-> path]
Flag(name) == <<[op |-> name]>>

\* The host's programs, /proc and /dev without what would show the host's
\* command lines and terminals, and fresh directories.
System ==
    RoBind(<<"usr">>) \o RoBind(<<"etc">>) \o RoBindTry(<<"opt">>)
      \o Made("proc", <<"proc">>) \o Null(<<"proc", "1", "cmdline">>) \o Null(<<"proc", "1", "environ">>)
      \o Made("dev", <<"dev">>) \o Null(<<"dev", "console">>) \o Null(<<"dev", "tty">>)
      \o Made("tmpfs", <<"tmp">>) \o Made("tmpfs", <<"var", "tmp">>) \o Made("tmpfs", <<"run">>)

\* Directories before what is in them.
ByDepth(S) ==
    CHOOSE s \in [1..Cardinality(S) -> S] :
        Range(s) = S /\ \A i, j \in DOMAIN s : i < j => Len(s[i]) <= Len(s[j])

SeedOps ==
    LET dirs == ByDepth(seeds.dirs)
        files == ByDepth(seeds.files)
    IN  [i \in DOMAIN dirs |-> Put("dir", dirs[i])] \o [i \in DOMAIN files |-> Put("file", files[i])]

PersistOps ==
    [i \in DOMAIN cmd.persist |->
        Mount("host", Canonical(cmd.persist[i].src), host.home \o cmd.persist[i].dest, TRUE)]

\* Mutant: the persisted directories come before the seeds.
HomeOps_PersistFirst == PersistOps \o SeedOps

HomeOps == SeedOps \o PersistOps

\* The trees of mise, or all of ~/.local/share.
Exposed ==
    RoBindTry(host.home \o <<".local", "bin">>)
      \o RoBindTry(host.home \o <<".local", "share">> \o IF cmd.exposeLocalShare THEN <<>> ELSE <<"mise">>)
      \o RoBindTry(host.home \o <<".config", "mise">>)

Overlays == seeds.resolv # NoOverlay

\* The generated hosts and resolv.conf, or the host's own behind the link.
ResolverOps ==
    IF Overlays THEN Made("overlay", <<"etc", "hosts">>) \o Made("overlay", seeds.resolv)
    ELSE IF cmd.net = "host" /\ host.resolv # <<>>
    THEN <<Mount("host", host.resolv, host.resolv, FALSE)>> ELSE <<>>

\* Under run_egress the network namespace is there before bubblewrap is.
ShareNet == Overlays \/ cmd.net = "host"

WorkspaceOps ==
    [i \in DOMAIN workspaces |->
        Mount("host", workspaces[i].path, workspaces[i].path, ~workspaces[i].ro)]

Gpu == IF cmd.gpu THEN [i \in DOMAIN host.gpus |-> Mount("device", <<>>, host.gpus[i], FALSE)] ELSE <<>>

Own == <<"HOME", "USER", "LOGNAME", "TERM", "LANG", "LC_ALL", "PATH", "XDG_RUNTIME_DIR">>

SetEnv(key, by) == [op |-> "setenv", key |-> key, by |-> by]

\* An empty environment, basta's own variables, then the caller's.
EnvOps ==
    Flag("clearenv") \o [i \in DOMAIN Own |-> SetEnv(Own[i], "basta")]
      \o [i \in DOMAIN cmd.envs |-> SetEnv(cmd.envs[i].key, "caller")]

Arguments ==
    System \o Made("tmpfs", host.home) \o HomeOps \o Exposed \o ResolverOps \o Flag("uid")
      \o Flag(IF ShareNet THEN "share-net" ELSE "unshare-net") \o Gpu \o WorkspaceOps \o EnvOps

\* The SRCs of the first n --persist that do not exist.
Missing(n) == {Canonical(cmd.persist[i].src) : i \in 1..n} \ host.dirs

\* A missing SRC is created before its DEST is looked at.
Build ==
    /\ pc = "build"
    /\ LET bad == {i \in DOMAIN cmd.persist : ~DestOk(cmd.persist[i].dest)} IN
       IF bad = {} THEN made' = Missing(Len(cmd.persist)) /\ pc' = "launch" /\ ops' = Arguments
       ELSE made' = Missing(Min(bad)) /\ Refuse /\ UNCHANGED ops
    /\ UNCHANGED <<given, workspaces, cwd, seeds, runner>>

\* One of them cannot be created.
BuildFails ==
    /\ pc = "build"
    /\ \E n \in DOMAIN cmd.persist : Missing(n) # Missing(n - 1) /\ made' = Missing(n - 1)
    /\ Refuse
    /\ UNCHANGED <<given, workspaces, cwd, seeds, ops, runner>>

Launch ==
    /\ pc = "launch"
    /\ IF cmd.dryRun THEN pc' = "printed" /\ UNCHANGED runner
       ELSE pc' = "running" /\ runner' = IF EgressRequested THEN "egress" ELSE "plain"
    /\ UNCHANGED <<given, workspaces, cwd, seeds, ops, made>>

Next ==
    \/ Preflight \/ ResolveWorkspaces \/ RejectMasking \/ ParseEnvs \/ BuildSeeds
    \/ ResolveEgress \/ Build \/ BuildFails \/ Launch

Spec == Init /\ [][Next]_vars

-----------------------------------------------------------------------------
(* What bubblewrap makes of its arguments.                                 *)

\* The mount that a path is in after the first n arguments; 0 for the root.
MountAt(path, n) ==
    LET over == {i \in 1..n : ops[i].op = "mount" /\ Under(path, ops[i].dest)}
    IN  IF over = {} THEN 0 ELSE Max(over)

\* What the agent finds at a path.
Shows(path) ==
    LET i == MountAt(path, Len(ops))
        m == ops[i]
    IN  IF i = 0 THEN Mount("root", <<>>, path, FALSE)
        ELSE Mount(m.kind, m.src \o SubSeq(path, Len(m.dest) + 1, Len(path)), path, m.rw)

Has(flag) == \E i \in DOMAIN ops : ops[i].op = flag

\* The network namespace the agent is in.
Network ==
    IF ~Has("share-net") THEN "empty" ELSE IF runner = "egress" THEN "filtered" ELSE "host"

\* Without --uid the agent has the uid of the process that starts bubblewrap,
\* 0 in the user namespace of run_egress.
Uid == IF Has("uid") \/ runner = "plain" THEN "caller" ELSE "root"

\* Who set a variable last.
Setting(key) == ops[Max({i \in DOMAIN ops : ops[i].op = "setenv" /\ ops[i].key = key})].by

-----------------------------------------------------------------------------
(* Properties.  Paths are looked at where a mount begins and just below.   *)

Places == {m.dest : m \in {ops[i] : i \in {j \in DOMAIN ops : ops[j].op = "mount"}}}
Looked == Places \cup {Append(p, "x") : p \in Places} \cup {host.home \o <<".ssh">>}

TypeOK ==
    /\ pc \in {"preflight", "workspaces", "home", "envs", "seeds", "egress", "build", "launch",
               "refused", "printed", "running"}
    /\ cmd \in Commands /\ host \in Hosts
    /\ runner \in {"none", "egress", "plain"} /\ (pc = "running" <=> runner # "none")

InWorkspace(path, rw) == \E i \in DOMAIN workspaces :
    Under(path, workspaces[i].path) /\ (rw => ~workspaces[i].ro)

Persisted(path) == \E i \in DOMAIN cmd.persist : Under(path, host.home \o cmd.persist[i].dest)

Tools == {host.home \o <<".local", "bin">>, host.home \o <<".config", "mise">>,
          host.home \o <<".local", "share">> \o IF cmd.exposeLocalShare THEN <<>> ELSE <<"mise">>}

\* README.md:139, "a fresh tmpfs every run": of the caller's home the agent finds
\* only the workspaces below it, what was persisted, and the tools; and it
\* can write nothing of the host but the read-write workspaces and what was
\* persisted.
HomePrivate ==
    pc = "running" =>
        /\ Shows(host.home).kind = "tmpfs"
        /\ \A path \in Looked : Shows(path).kind = "host" =>
              /\ Under(Shows(path).src, host.home) =>
                    \/ InWorkspace(path, FALSE) \/ Persisted(path)
                    \/ \E tool \in Tools : Under(path, tool)
              /\ Shows(path).rw => InWorkspace(path, TRUE) \/ Persisted(path)

\* cli.rs:65, "writable but ephemeral": what is seeded is written into the
\* fresh $HOME, never into a host directory that is persisted there.
SeedsEphemeral ==
    pc = "running" => \A i \in DOMAIN ops :
        ops[i].op \in {"dir", "file"} => ops[MountAt(ops[i].dest, i)].kind = "tmpfs"

\* The agent is in the host's network only with --net host, in the filtered
\* one exactly when a switch asks for it, and there it finds the generated
\* hosts and resolv.conf, unless a workspace was given that contains them.
NetAsAsked ==
    pc = "running" =>
        /\ Network = IF cmd.net = "host" THEN "host"
                     ELSE IF <<cmd.allow, cmd.sni, cmd.loopback, cmd.publish>> # <<{}, {}, {}, {}>>
                     THEN "filtered" ELSE "empty"
        /\ Network = "filtered" => \A path \in {<<"etc", "hosts">>, ResolvDest} :
              Shows(path).kind = "overlay" \/ InWorkspace(path, FALSE)

\* cli.rs:7, "First RW one becomes cwd": the agent starts, as the caller, in
\* a directory that it finds at its own path and can write, unless every
\* workspace, or a later one around it, is read-only; and the variables that
\* basta sets, HOME and PATH among them, are its own.
AgentPlaced ==
    pc = "running" =>
        /\ Uid = "caller" /\ \A key \in Reserved : Setting(key) = "basta"
        /\ Shows(cwd).kind = "host" /\ Shows(cwd).src = cwd
        /\ \/ Shows(cwd).rw
           \/ \A i \in DOMAIN workspaces : workspaces[i].ro
           \/ \E i, j \in DOMAIN workspaces :
                 i < j /\ workspaces[i].path = cwd /\ workspaces[j].ro /\ Under(cwd, workspaces[j].path)
=============================================================================
