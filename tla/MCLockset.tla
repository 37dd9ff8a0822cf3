----------------------------- MODULE MCLockset -----------------------------
(* The instances of Lockset that TLC checks: a project `h/p` in a home      *)
(* directory `h`, with a git repository, a submodule in it, or a directory. *)
EXTENDS Lockset

HomeDir == <<"h">>
Proj == <<"h", "p">>
Other == <<"h", "q">>
Git == Proj \o <<".git">>
Hooks == Git \o <<"hooks">>
Modules == Git \o <<"modules">>
Module == Modules \o <<"m">>
Envrc == Proj \o <<".envrc">>
Sub == Proj \o <<"s">>
Inner == Sub \o <<"x">>
Aside == Proj \o <<"b">>  \* where the agent may move things to

AllPaths ==
    {HomeDir, Proj, Other, Other \o <<"x">>, Envrc,
     Git, Git \o <<"config">>, Git \o <<"HEAD">>, Hooks, Hooks \o <<"x">>,
     Modules, Module, Module \o <<"config">>,
     Sub, Inner, Inner \o <<".envrc">>,
     Aside, Aside \o <<"config">>, Aside \o <<"hooks">>, Aside \o <<"x">>,
     Aside \o <<"m">>, Aside \o <<"m", "config">>, Aside \o <<"x", ".envrc">>}

TreeOf(dirs, files, links) ==
    [q \in Paths |-> IF q \in {HomeDir, Proj} \cup dirs THEN Node("dir", q)
                     ELSE IF q \in files THEN Node("file", q)
                     ELSE IF q \in links THEN Node("link", q) ELSE None]

RepoFiles == {Git \o <<"config">>, Git \o <<"HEAD">>}
Repo == TreeOf({Git, Hooks}, RepoFiles, {})
RepoWithEnvrc == TreeOf({Git, Hooks}, RepoFiles \cup {Envrc}, {})
NoHooks == TreeOf({Git}, RepoFiles, {})
Submodule == TreeOf({Git, Modules, Module}, {Module \o <<"config">>}, {})
Pointer == TreeOf({}, {Git}, {})
LinkedGit == TreeOf({}, {}, {Git})
LinkedEnvrc == TreeOf({}, {}, {Envrc})
TwoDirs == TreeOf({Sub, Other}, {Inner, Other \o <<"x">>}, {})
NestedDir == TreeOf({Sub, Inner}, {Inner \o <<".envrc">>}, {})

Rw(q) == [path |-> q, ro |-> FALSE]
Ro(q) == [path |-> q, ro |-> TRUE]
Plain(ws) == [ws |-> ws, lock |-> {}, unlock |-> {}, noLock |-> FALSE, strict |-> FALSE]
Strict == [Plain(<<Rw(Proj)>>) EXCEPT !.strict = TRUE]
Tuned == [Plain(<<Rw(Proj)>>) EXCEPT !.lock = {<<"b">>}, !.unlock = {<<".git", "hooks">>}]
NoLock == [Plain(<<Rw(Proj)>>) EXCEPT !.noLock = TRUE]

On(trees, cmds) == {[tree |-> t, cmd |-> c] : t \in trees, c \in cmds}

\* One project, with and without the files of the lock set; then read-only
\* workspaces beside, around and inside a read-write one.
ManyLaunches ==
    On({RepoWithEnvrc, Submodule, Pointer, LinkedGit, LinkedEnvrc}, {Strict})
      \cup On({Repo, RepoWithEnvrc, LinkedEnvrc}, {Tuned})
      \cup On({LinkedGit}, {NoLock})
      \cup On({TwoDirs},
             {Plain(<<Rw(HomeDir)>>), Plain(<<Rw(Proj), Ro(Other)>>),
              Plain(<<Ro(Proj), Rw(Sub)>>), Plain(<<Rw(Proj), Ro(Sub)>>),
              Plain(<<Ro(Sub), Rw(Proj)>>)})
      \cup On({NestedDir}, {Plain(<<Rw(Proj), Rw(Inner)>>), Plain(<<Rw(Proj), Ro(Inner)>>)})

\* The repository itself is read-only inside a read-write project.
ReadOnlyGit == On({Repo}, {Plain(<<Rw(Proj), Ro(Git)>>)})

\* A repository that has no hooks yet.
HooksAbsent == On({NoHooks}, {Plain(<<Rw(Proj)>>)})

FilesAndDirs == {"file", "dir"}
AllKinds == {"file", "dir", "link"}
=============================================================================
