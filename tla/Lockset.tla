------------------------------ MODULE Lockset ------------------------------
(***************************************************************************)
(* Workspaces and the workspace lock: what basta binds over the sandbox's  *)
(* file system (workspace.rs, lockset.rs, the end of argv.rs), what the    *)
(* agent can then do to the host's files, and what is reported when it has *)
(* ended (main.rs).                                                        *)
(*                                                                         *)
(* A path is a sequence of names.  A file system maps a finite set of      *)
(* paths to nodes; a node keeps the path it had at launch as its identity, *)
(* so that a mount stays with its node when a directory above is renamed.  *)
(***************************************************************************)
EXTENDS Naturals, Sequences, FiniteSets, SequencesExt, FiniteSetsExt

CONSTANTS
    Paths,     \* the paths the model follows, closed under prefixes
    Launches,  \* [tree, cmd]: a file system and a command line on it, which
               \* is a record [ws, lock, unlock, noLock, strict]
    Home,      \* $HOME
    Kinds,     \* what the agent creates: "file", "dir", "link"
    MaxOps     \* bound on the agent's operations

None == [kind |-> "none", id |-> <<>>]
Fresh == <<"fresh">>  \* the identity of everything created after launch
Node(k, p) == [kind |-> k, id |-> p]

Under(p, q) == IsPrefix(q, p)  \* p is q, or lies under it
Parent(p) == Front(p)

\* At launch a node is its own identity and what lies above it is a
\* directory; a workspace is a directory and a --lock path is relative.
ASSUME LocksetAssumption ==
    /\ Kinds \subseteq {"file", "dir", "link"} /\ MaxOps \in Nat
    /\ IsFiniteSet(Paths) /\ Paths \subseteq Seq(STRING) \ {<<>>, Fresh}
    /\ \A p \in Paths : \A n \in 1..Len(p) : SubSeq(p, 1, n) \in Paths
    /\ \A l \in Launches :
          /\ l.tree \in [Paths -> [kind : {"none", "file", "dir", "link"}, id : Paths \cup {<<>>}]]
          /\ \A p \in Paths :
                l.tree[p].kind # "none" =>
                    /\ l.tree[p].id = p
                    /\ \A q \in Paths : Under(p, q) => q = p \/ l.tree[q].kind = "dir"
          /\ l.cmd.ws \in Seq([path : {p \in Paths : l.tree[p].kind = "dir"}, ro : BOOLEAN])
          /\ l.cmd.lock \subseteq Seq(STRING)

VARIABLES
    phase,    \* "resolve", "lock", "run", "done" or "refused"
    cmd,      \* the command line
    tree,     \* the file system at launch
    fs,       \* the file system now
    dirty,    \* identities of files whose contents were changed
    binds,    \* the binds, in argv order: [path, ro]
    watch,    \* the watched paths
    dangling, \* the watched links that lead nowhere on the host, once done
    created,  \* the watched paths reported as created
    exit,     \* basta's exit code, once done
    ops       \* operations of the agent so far

vars == <<phase, cmd, tree, fs, dirty, binds, watch, dangling, created, exit, ops>>

DefaultLock == {".envrc", ".vscode"}  \* two rows of DEFAULT_LOCK stand for all
MaxGitdirDepth == 1                   \* MAX_GITDIR_DEPTH, 8 in the code

-----------------------------------------------------------------------------
(* workspace.rs: which workspaces are refused.                             *)

\* Mutant: the order of the two workspaces is not looked at.
RejectMasking_NoReopen(ws) ==
    \E i \in 1..Len(ws) : Under(Home, ws[i].path)

\* A workspace over $HOME, or a read-write one over an earlier :ro one.
RejectMasking(ws) ==
    \/ \E i \in 1..Len(ws) : Under(Home, ws[i].path)
    \/ \E i, j \in 1..Len(ws) :
          i < j /\ ws[i].ro /\ ~ws[j].ro /\ Under(ws[i].path, ws[j].path)

-----------------------------------------------------------------------------
(* lockset.rs: the plan, from the file system t at launch.                 *)

Is(t, p, kind) == p \in Paths /\ t[p].kind = kind
Present(t, p) == p \in Paths /\ t[p].kind # "none"

\* .git, and the gitdirs of submodules and worktrees nested in it.
Gitdirs(t, w) ==
    LET git == w \o <<".git">> IN
    {d \in Paths :
        /\ Under(d, git)
        /\ Is(t, d, "dir")
        /\ LET rest == SubSeq(d, Len(git) + 1, Len(d)) IN
           /\ Len(rest) % 2 = 0
           /\ Len(rest) <= 2 * MaxGitdirDepth
           /\ \A i \in 1..Len(rest) : i % 2 = 1 => rest[i] \in {"modules", "worktrees"}}

GitLeaves(t, w) ==
    LET git == w \o <<".git">> IN
    {p \in Paths :
        \/ p = git /\ Is(t, git, "file")
        \/ \E d \in Gitdirs(t, w) :
              \/ p = d \o <<"config">> /\ Is(t, p, "file")
              \/ p = d \o <<"hooks">> /\ Is(t, p, "dir")}

\* The workspace-relative paths of the default rows and of --lock.
Rows(c, w) ==
    {w \o <<n>> : n \in IF c.noLock THEN {} ELSE DefaultLock} \cup {w \o r : r \in c.lock}

Unlocked(c, w) == {w \o r : r \in c.unlock}

LockedLeaves(t, c, w) ==
    ((IF c.noLock THEN {} ELSE GitLeaves(t, w)) \cup {p \in Rows(c, w) : Present(t, p)})
      \ Unlocked(c, w)

\* Mutant: nothing is watched.
WatchOf_Nothing(t, c, w) == {}

\* The rows that do not exist at launch cannot be bound: they are watched.
WatchOf(t, c, w) == {p \in Rows(c, w) : ~Present(t, p)} \ Unlocked(c, w)

\* A symlinked .git or a symlinked leaf refuses the launch.
RejectSymlinks(t, c, w) ==
    \/ \E p \in LockedLeaves(t, c, w) : Is(t, p, "link")
    \/ ~c.noLock /\ Is(t, w \o <<".git">>, "link") /\ <<".git">> \notin c.unlock

\* Mutant: the directories above a leaf are not pinned.
Pins_None(w, leaves) == {}

\* Every directory strictly between the workspace and a leaf, unless locked.
Pins(w, leaves) ==
    {d \in Paths : d # w /\ Under(d, w) /\ \E p \in leaves : p # d /\ Under(p, d)} \ leaves

\* The paths of S, shallow before deep.
Sorted(S) ==
    CHOOSE s \in [1..Cardinality(S) -> S] :
        Range(s) = S /\ \A i, j \in DOMAIN s : i < j => Len(s[i]) <= Len(s[j])

BindAll(S, ro) == LET s == Sorted(S) IN [i \in DOMAIN s |-> [path |-> s[i], ro |-> ro]]

\* Pins read-write, shallow before deep; then the leaves read-only.
LockOf(t, c, w) ==
    LET leaves == LockedLeaves(t, c, w) IN
    BindAll(Pins(w, leaves), FALSE) \o BindAll(leaves, TRUE)

\* The plans of the first n workspaces; a read-only one has none.
Plans(t, c) ==
    LET upTo[n \in 0..Len(c.ws)] ==
          IF n = 0 THEN <<>>
          ELSE upTo[n - 1] \o (IF c.ws[n].ro THEN <<>> ELSE LockOf(t, c, c.ws[n].path))
    IN upTo

PlanFor(t, c) == Plans(t, c)[Len(c.ws)]

\* The read-write workspaces.
Writable(c) == {c.ws[i].path : i \in {i \in 1..Len(c.ws) : ~c.ws[i].ro}}

-----------------------------------------------------------------------------
(* main.rs: run, up to the launch.                                         *)

Init ==
    /\ phase = "resolve"
    /\ \E l \in Launches : cmd = l.cmd /\ tree = l.tree
    /\ fs = tree
    /\ dirty = {} /\ binds = <<>> /\ watch = {}
    /\ dangling = {} /\ created = {} /\ exit = 0 /\ ops = 0

ResolveWorkspaces ==
    /\ phase = "resolve"
    /\ phase' = IF RejectMasking(cmd.ws) THEN "refused" ELSE "lock"
    /\ UNCHANGED <<cmd, tree, fs, dirty, binds, watch, dangling, created, exit, ops>>

\* The lock binds come after the workspaces, and after their check.
PlanLock ==
    /\ phase = "lock"
    /\ IF \E w \in Writable(cmd) : RejectSymlinks(tree, cmd, w)
       THEN phase' = "refused" /\ UNCHANGED <<binds, watch>>
       ELSE /\ phase' = "run"
            /\ binds' = cmd.ws \o PlanFor(tree, cmd)
            /\ watch' = UNION {WatchOf(tree, cmd, w) : w \in Writable(cmd)}
    /\ UNCHANGED <<cmd, tree, fs, dirty, dangling, created, exit, ops>>

-----------------------------------------------------------------------------
(* The kernel's mounts, which decide what the agent may do.                *)

Chain(p) == {fs[q].id : q \in {q \in Paths : Under(p, q)}}

\* The bind a path is reached through: the last one over it in argv order.
\* Zero: the path is not bound.
MountOf(p) ==
    LET over == {i \in 1..Len(binds) : binds[i].path \in Chain(p)} IN
    IF over = {} THEN 0 ELSE Max(over)

CanWrite(p) == MountOf(p) # 0 /\ ~binds[MountOf(p)].ro

IsMountpoint(p) == \E i \in 1..Len(binds) : binds[i].path = fs[p].id

\* A directory in which the agent may make and remove entries.
CanEdit(d) == d \in Paths /\ fs[d].kind = "dir" /\ CanWrite(d)

-----------------------------------------------------------------------------
(* The agent.                                                              *)

Operation ==
    /\ phase = "run"
    /\ ops < MaxOps
    /\ ops' = ops + 1
    /\ UNCHANGED <<phase, cmd, tree, binds, watch, dangling, created, exit>>

Create(p, kind) ==
    /\ Operation
    /\ fs[p].kind = "none" /\ CanEdit(Parent(p))
    /\ fs' = [fs EXCEPT ![p] = Node(kind, Fresh)]
    /\ UNCHANGED dirty

Modify(p) ==
    /\ Operation
    /\ fs[p].kind = "file" /\ CanWrite(p)
    /\ dirty' = dirty \cup {fs[p].id}
    /\ UNCHANGED fs

\* A mountpoint cannot be removed, nor a directory that is not empty.
Delete(p) ==
    /\ Operation
    /\ fs[p].kind # "none" /\ CanEdit(Parent(p)) /\ ~IsMountpoint(p)
    /\ \A q \in Paths : Under(q, p) /\ q # p => fs[q].kind = "none"
    /\ fs' = [fs EXCEPT ![p] = None]
    /\ UNCHANGED dirty

\* A mountpoint cannot be renamed (EBUSY), nor a node moved to another
\* mount (EXDEV); mounts below a renamed directory go with it.
Rename(p, q) ==
    /\ Operation
    /\ fs[p].kind # "none" /\ fs[q].kind = "none" /\ ~Under(q, p)
    /\ CanEdit(Parent(p)) /\ CanEdit(Parent(q))
    /\ MountOf(Parent(p)) = MountOf(Parent(q)) /\ ~IsMountpoint(p)
    /\ \A r \in Paths :
          Under(r, p) /\ fs[r].kind # "none" => q \o SubSeq(r, Len(p) + 1, Len(r)) \in Paths
    /\ fs' = [r \in Paths |->
                IF Under(r, p) THEN None
                ELSE IF Under(r, q) /\ p \o SubSeq(r, Len(q) + 1, Len(r)) \in Paths
                THEN fs[p \o SubSeq(r, Len(q) + 1, Len(r))] ELSE fs[r]]
    /\ UNCHANGED dirty

Agent ==
    \E p \in Paths :
        \/ Modify(p) \/ Delete(p)
        \/ \E kind \in Kinds : Create(p, kind)
        \/ \E q \in Paths : Rename(p, q)

-----------------------------------------------------------------------------
(* main.rs: run, after the agent.                                          *)

\* Path::exists follows links: what a link leads to is asked for.
Exists(p, dead) == Present(fs, p) /\ p \notin dead

\* Where the links lead, the agent and the rest of the host decide.  The agent
\* ends with a code of its own; --lock-strict replaces a zero.
Report ==
    /\ phase = "run" /\ phase' = "done"
    /\ dangling' \in SUBSET {p \in watch : Is(fs, p, "link")}
    /\ created' = {p \in watch : Exists(p, dangling')}
    /\ \E code \in {0, 1} :
          exit' = IF created' # {} /\ cmd.strict /\ code = 0 THEN 3 ELSE code
    /\ UNCHANGED <<cmd, tree, fs, dirty, binds, watch, ops>>

Next == ResolveWorkspaces \/ PlanLock \/ Agent \/ Report

Spec == Init /\ [][Next]_vars

-----------------------------------------------------------------------------
TypeOK ==
    /\ phase \in {"resolve", "lock", "run", "done", "refused"}
    /\ \E l \in Launches : cmd = l.cmd /\ tree = l.tree
    /\ fs \in [Paths -> [kind : {"none", "file", "dir", "link"}, id : Paths \cup {<<>>, Fresh}]]
    /\ dirty \subseteq Paths \cup {<<>>, Fresh}
    /\ binds \in {<<>>, cmd.ws \o PlanFor(tree, cmd)}
    /\ dangling \subseteq watch /\ created \subseteq watch
    /\ exit \in {0, 1, 3} /\ ops \in 0..MaxOps

\* A directory between a read-write workspace and a workspace further down
\* is no mountpoint: the agent may move it away, and w with it.
Movable(w) ==
    \E v \in Writable(cmd), d \in Paths :
        /\ d \notin {v, w} /\ Under(d, v) /\ Under(w, d)
        /\ \A i \in 1..Len(binds) : binds[i].path # d

\* The node that was at q at launch, in the workspace w, was not written,
\* and it is there still unless the workspace was moved.
Untouched(q, w) == (tree[q].kind # "none" => q \notin dirty) /\ (fs[q] = tree[q] \/ Movable(w))

Launched == phase \in {"run", "done"}

\* lockset.rs:68: no sequence of writes, renames and removals by the agent
\* changes a locked path that existed at launch, or anything below it, not
\* even by moving a directory above it away and making a new one; what is
\* in a workspace inside another may be moved, but never written.
LeavesIntact ==
    Launched =>
        \A w \in Writable(cmd) :
            \A p \in LockedLeaves(tree, cmd, w), q \in Paths :
                Under(q, p) => Untouched(q, w)

\* README.md:132, "PATH:ro read-only": nothing under a read-only workspace
\* changes, except under a read-write one inside it that was named after it.
ReadOnlyHolds ==
    Launched =>
        \A i \in 1..Len(cmd.ws), q \in Paths :
            /\ cmd.ws[i].ro /\ Under(q, cmd.ws[i].path)
            /\ ~\E j \in (i + 1)..Len(cmd.ws) :
                   Under(q, cmd.ws[j].path) /\ Under(cmd.ws[j].path, cmd.ws[i].path)
            => Untouched(q, cmd.ws[i].path)

AllRows == UNION {Rows(cmd, w) : w \in Writable(cmd)}
AllUnlocked == UNION {Unlocked(cmd, w) : w \in Writable(cmd)}

\* The paths of the lock set of README.md:316: the rows, and .git/hooks.
LockSet ==
    AllRows \cup UNION {{d \o <<"hooks">> : d \in Gitdirs(tree, w)} : w \in Writable(cmd)}

Appeared(S) == {p \in S \cap Paths : tree[p].kind = "none" /\ fs[p].kind # "none"}

\* README.md:321, "A net-new autorun file the agent creates": a row of the
\* lock set that appeared is reported, link or not, and no run in which one
\* was ends well under --lock-strict.  A link that leads nowhere on the host
\* when the agent has ended is the one thing that is not seen.
RowsReported ==
    phase = "done" =>
        LET left == Appeared(AllRows \ AllUnlocked) \ dangling IN
        left \subseteq created /\ (cmd.strict /\ left # {} => exit # 0)

\* README.md:322, "basta watches the locked set and warns at exit if one
\* appeared", where the locked set includes .git/hooks.
LockSetReported == phase = "done" => Appeared(LockSet \ AllUnlocked) \subseteq created
=============================================================================
