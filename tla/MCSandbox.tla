----------------------------- MODULE MCSandbox -----------------------------
(* The instance of Sandbox that TLC checks.                                 *)
EXTENDS Sandbox

Home == <<"home", "u">>
In(path) == Home \o path
Dir(path, ro) == [path |-> path, ro |-> ro]
Proj == In(<<"proj">>)
Sub == In(<<"proj", "sub">>)
Link == In(<<"link">>)
Data == <<"mnt", "data">>
Ssh == In(<<".ssh">>)

Plain ==
    [workspaces |-> <<>>, net |-> "none", allow |-> {}, sni |-> {}, loopback |-> {}, publish |-> {}, locks |-> {},
     seeds |-> {}, persist |-> <<>>, envs |-> <<>>, exposeLocalShare |-> FALSE, gpu |-> FALSE,
     allowSyscall |-> {}, denySyscall |-> {}, noSeccomp |-> FALSE, dryRun |-> FALSE]

SomeWorkspaces ==
    {<<>>, <<Dir(Proj, TRUE)>>, <<Dir(Home, FALSE)>>, <<Dir(Link, FALSE)>>, <<Dir(<<"mnt">>, FALSE)>>,
     <<Dir(Proj, TRUE), Dir(Sub, FALSE)>>, <<Dir(Sub, FALSE), Dir(Proj, TRUE)>>,
     <<Dir(Sub, TRUE), Dir(Proj, FALSE)>>, <<Dir(Data, TRUE), Dir(Sub, FALSE), Dir(Proj, FALSE)>>,
     <<Dir(<<"tmp">>, FALSE), Dir(Ssh, TRUE)>>, <<Dir(<<"srv">>, FALSE)>>, <<Dir(In(<<"gone">>), FALSE)>>}

Seed(src, dest) == [src |-> src, dest |-> dest]
SomeSeeds ==
    {{}, {Seed("file", <<".config", "app">>)}, {Seed("tree", <<"kept", "in">>)}, {Seed("linked", <<"x">>)},
     {Seed("file", <<"..", "x">>)}, {Seed("deep", <<"x">>)}}

Persist(src, dest) == [src |-> src, dest |-> dest]
SomePersist ==
    {<<>>, <<Persist(Data, <<"kept">>)>>, <<Persist(In(<<"new">>), <<".config">>)>>,
     <<Persist(Ssh, <<"proj">>), Persist(Data, <<".local", "bin">>)>>,
     <<Persist(<<"mnt", "new">>, <<"kept">>), Persist(<<"mnt", "newer">>, <<"/", "x">>)>>}

SomeNets ==
    {Plain, [Plain EXCEPT !.net = "host"], [Plain EXCEPT !.allow = {"host"}], [Plain EXCEPT !.publish = {4096}],
     [Plain EXCEPT !.loopback = {5432}]}

\* The mounts with each network; the other switches one by one, in pairs
\* where they meet, on a workspace.
Switches ==
    LET P == [Plain EXCEPT !.workspaces = <<Dir(Proj, FALSE)>>] IN
    {[P EXCEPT !.publish = ps, !.loopback = ls] :
        ps \in {{}, {0}, {80}, {4096}, {47999}}, ls \in {{}, {0}, {4096}}}
      \cup {[P EXCEPT !.net = n, !.sni = {"host"}] : n \in {"none", "host"}}
      \cup {[P EXCEPT !.net = "host", !.allow = {"host"}], [P EXCEPT !.dryRun = TRUE, !.persist =
            <<Persist(In(<<"new">>), <<".config">>)>>], [P EXCEPT !.gpu = TRUE, !.exposeLocalShare = TRUE]}
      \cup {[P EXCEPT !.locks = {l}] : l \in {<<"a">>, <<"/", "a">>, <<"a", "..">>}}
      \cup {[P EXCEPT !.envs = <<[key |-> "BAR", valid |-> TRUE, pass |-> FALSE], [key |-> k, valid |-> k # "9X", pass |-> p]>>] :
               k \in {"FOO", "HOME", "9X"}, p \in BOOLEAN}
      \cup {[P EXCEPT !.allowSyscall = a, !.denySyscall = d, !.noSeccomp = n] :
               a \in {{}, {"bpf"}, {"ptrace"}}, d \in {{}, {"ptrace"}, {"bpf", "mbind"}, {"read"}}, n \in BOOLEAN}

ManyCommands ==
    Switches \cup
    {[c EXCEPT !.workspaces = w, !.seeds = s, !.persist = p] :
        c \in SomeNets, w \in SomeWorkspaces, s \in SomeSeeds, p \in SomePersist}

Dirs == {<<"opt">>, <<"tmp">>, <<"srv">>, <<"mnt">>, Data, Home, Proj, Sub, Ssh, In(<<".local", "bin">>),
         In(<<".local", "share">>), In(<<".local", "share", "mise">>), In(<<".config", "mise">>)}

Files ==
    [file |-> (<<>> :> "file"),
     tree |-> (<<>> :> "dir" @@ <<"a">> :> "file" @@ <<"d">> :> "dir" @@ <<"d", "b">> :> "file" @@ <<"s">> :> "socket"),
     linked |-> (<<>> :> "dir" @@ <<"l">> :> "symlink"),
     deep |-> (<<>> :> "dir" @@ <<"d">> :> "dir" @@ <<"d", "d">> :> "dir")]

Usual ==
    [home |-> Home, roots |-> {}, cwd |-> Proj, dirs |-> Dirs, links |-> (Link :> Home), files |-> Files,
     env |-> {"FOO", "HOME"}, resolv |-> <<"run", "systemd", "stub">>, tools |-> {"bwrap", "nft", "pasta"},
     gpus |-> <<<<"dev", "nvidia0">>>>]

\* A link that leads into /mnt, a bare host, root's own home, a home below a
\* directory of its own, and hosts with roots of their own.
ManyHosts ==
    {Usual, [Usual EXCEPT !.resolv = <<"mnt", "wsl">>],
     [Usual EXCEPT !.resolv = <<>>, !.dirs = {Home, Proj, Sub}, !.tools = {"bwrap"}],
     [Usual EXCEPT !.home = <<"root">>], [Usual EXCEPT !.home = <<"mnt", "data">>, !.cwd = <<"mnt">>],
     [Usual EXCEPT !.roots = {<<"srv">>, Home}], [Usual EXCEPT !.roots = {<<"home">>}],
     [Usual EXCEPT !.tools = {"nft"}]}
=============================================================================
