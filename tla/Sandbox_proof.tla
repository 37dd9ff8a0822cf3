--------------------------- MODULE Sandbox_proof ---------------------------
(***************************************************************************)
(* What holds of every command line on every host: the types; and, by the  *)
(* order of the mounts, that the home is private, that what is seeded is   *)
(* ephemeral, that the network is what was asked for, and that the agent   *)
(* starts where it should.                                                 *)
(***************************************************************************)
EXTENDS Sandbox, Integers, WellFoundedInduction, FiniteSetTheorems, TLAPS

-----------------------------------------------------------------------------
(* Paths.                                                                  *)

\* The names of the model: any string, and those that are spelled out.
Alphabet ==
    STRING \cup {"usr", "etc", "opt", "proc", "1", "cmdline", "environ", "dev", "null", "console", "tty",
                 "tmp", "var", "run", "hosts", "resolv.conf", ".local", "share", "bin", "mise", ".config",
                 ".ssh", "x"}
PathSeq == Seq(Alphabet)

LEMMA PathsAre == Path \subseteq PathSeq
  BY DEF Path, PathSeq, Alphabet

LEMMA Joined ==
    ASSUME NEW S, NEW a \in Seq(S), NEW b \in Seq(S)
    PROVE  /\ a \o b \in Seq(S) /\ Len(a \o b) = Len(a) + Len(b)
           /\ \A i \in 1..Len(a) : (a \o b)[i] = a[i]
           /\ \A i \in 1..Len(b) : (a \o b)[i + Len(a)] = b[i]
  <1>1. a \o b \in Seq(S) /\ Len(a \o b) = Len(a) + Len(b)
    OBVIOUS
  <1>2. \A i \in 1..Len(a) : (a \o b)[i] = a[i]
    OBVIOUS
  <1>3. ASSUME NEW i \in 1..Len(b) PROVE (a \o b)[i + Len(a)] = b[i]
    <2>1. i + Len(a) \in 1..(Len(a) + Len(b)) /\ i + Len(a) > Len(a) /\ (i + Len(a)) - Len(a) = i
      OBVIOUS
    <2> QED BY <2>1
  <1> QED BY <1>1, <1>2, <1>3

LEMMA UnderIs ==
    ASSUME NEW p \in PathSeq, NEW q \in PathSeq
    PROVE  Under(p, q) <=> (Len(q) <= Len(p) /\ \A i \in 1..Len(q) : p[i] = q[i])
  <1>0. p \in Seq(Alphabet) /\ q \in Seq(Alphabet)
    BY DEF PathSeq
  <1>1. ASSUME Under(p, q) PROVE Len(q) <= Len(p) /\ \A i \in 1..Len(q) : p[i] = q[i]
    BY <1>0, <1>1 DEF Under, IsPrefix
  <1>2. ASSUME Len(q) <= Len(p), \A i \in 1..Len(q) : p[i] = q[i] PROVE Under(p, q)
    BY <1>0, <1>2 DEF Under, IsPrefix
  <1> QED
    BY <1>1, <1>2

\* Lying under one another is a partial order, and what is above a path a
\* chain.
LEMMA UnderOrder ==
    ASSUME NEW p \in PathSeq, NEW q \in PathSeq, NEW r \in PathSeq
    PROVE  /\ Under(p, p)
           /\ Under(p, q) /\ Under(q, r) => Under(p, r)
           /\ Under(p, q) /\ Under(p, r) => Under(q, r) \/ Under(r, q)
  <1>0. Len(p) \in Nat /\ Len(q) \in Nat /\ Len(r) \in Nat
    BY DEF PathSeq
  <1>1. Under(p, p)
    BY <1>0, UnderIs
  <1>2. ASSUME Under(p, q), Under(q, r) PROVE Under(p, r)
    <2>1. /\ Len(q) <= Len(p) /\ \A i \in 1..Len(q) : p[i] = q[i]
          /\ Len(r) <= Len(q) /\ \A i \in 1..Len(r) : q[i] = r[i]
      BY <1>2, UnderIs
    <2>2. Len(r) <= Len(p) /\ \A i \in 1..Len(r) : i \in 1..Len(q) /\ p[i] = r[i]
      BY <1>0, <2>1
    <2> QED BY <2>2, UnderIs
  <1>3. ASSUME Under(p, q), Under(p, r) PROVE Under(q, r) \/ Under(r, q)
    <2>1. /\ Len(q) <= Len(p) /\ \A i \in 1..Len(q) : p[i] = q[i]
          /\ Len(r) <= Len(p) /\ \A i \in 1..Len(r) : p[i] = r[i]
      BY <1>3, UnderIs
    <2>2. CASE Len(q) <= Len(r)
      <3>1. \A i \in 1..Len(q) : i \in 1..Len(r) /\ r[i] = q[i]
        BY <1>0, <2>1, <2>2
      <3> QED BY <2>2, <3>1, UnderIs
    <2>3. CASE Len(r) <= Len(q)
      <3>1. \A i \in 1..Len(r) : i \in 1..Len(q) /\ q[i] = r[i]
        BY <1>0, <2>1, <2>3
      <3> QED BY <2>3, <3>1, UnderIs
    <2> QED BY <1>0, <2>2, <2>3
  <1> QED BY <1>1, <1>2, <1>3

\* What a name, or several, are added to.
LEMMA Longer ==
    ASSUME NEW p \in PathSeq, NEW q \in PathSeq
    PROVE  /\ p \o q \in PathSeq /\ Under(p \o q, p)
           /\ q # <<>> => ~Under(p, p \o q)
  <1>0. p \in Seq(Alphabet) /\ q \in Seq(Alphabet) /\ Len(p) \in Nat /\ Len(q) \in Nat
    BY DEF PathSeq
  <1> DEFINE pq == p \o q
  <1>1. pq \in PathSeq /\ Len(pq) = Len(p) + Len(q) /\ \A i \in 1..Len(p) : pq[i] = p[i]
    BY <1>0, Joined DEF PathSeq
  <1> HIDE DEF pq
  <1>2. Under(pq, p)
    BY <1>0, <1>1, UnderIs
  <1>3. ASSUME q # <<>>, Under(p, pq) PROVE FALSE
    <2>1. Len(q) # 0
      BY <1>0, <1>3
    <2>2. Len(pq) <= Len(p)
      BY <1>1, <1>3, UnderIs
    <2> QED BY <1>0, <1>1, <2>1, <2>2
  <1> QED BY <1>1, <1>2, <1>3 DEF pq

\* A path is what it lies under and the rest of it.
LEMMA Split ==
    ASSUME NEW p \in PathSeq, NEW q \in PathSeq, Under(p, q)
    PROVE  /\ SubSeq(p, Len(q) + 1, Len(p)) \in PathSeq
           /\ q \o SubSeq(p, Len(q) + 1, Len(p)) = p
  <1> DEFINE r == SubSeq(p, Len(q) + 1, Len(p))
             n == Len(p)
             m == Len(q)
  <1>0. p \in Seq(Alphabet) /\ q \in Seq(Alphabet) /\ n \in Nat /\ m \in Nat
    BY DEF PathSeq
  <1>1. m <= n /\ \A i \in 1..m : p[i] = q[i]
    BY UnderIs
  <1>2. r \in Seq(Alphabet) /\ Len(r) = n - m /\ \A i \in 1..(n - m) : r[i] = p[i + m]
    BY <1>0, <1>1
  <1> HIDE DEF r
  <1>3. /\ q \o r \in Seq(Alphabet) /\ Len(q \o r) = m + (n - m)
        /\ \A i \in 1..m : (q \o r)[i] = q[i]
        /\ \A i \in 1..(n - m) : (q \o r)[i + m] = r[i]
    BY <1>0, <1>2, Joined
  <1> DEFINE qr == q \o r
  <1> HIDE DEF qr, n, m
  <1>4. qr \in Seq(Alphabet) /\ Len(qr) = n
    BY <1>0, <1>1, <1>3 DEF qr
  <1>5. ASSUME NEW i \in 1..n PROVE qr[i] = p[i]
    <2>1. CASE i <= m
      BY <1>0, <1>1, <1>3, <2>1 DEF qr
    <2>2. CASE ~(i <= m)
      <3>1. i - m \in 1..(n - m) /\ (i - m) + m = i
        BY <1>0, <1>1, <2>2
      <3>2. qr[(i - m) + m] = r[i - m] /\ r[i - m] = p[(i - m) + m]
        BY <1>2, <1>3, <3>1 DEF qr
      <3> QED BY <3>1, <3>2
    <2> QED BY <2>1, <2>2
  <1>6. qr = p
    BY <1>0, <1>4, <1>5 DEF n
  <1> QED BY <1>2, <1>6 DEF qr, r, PathSeq, n, m

-----------------------------------------------------------------------------
(* Induction on the numbers, in the form of facts about sets of them.      *)

LEMMA SmallestOf ==
    ASSUME NEW T, T \subseteq Nat, T # {}
    PROVE  \E x \in T : \A y \in T : x <= y
  <1> DEFINE Smaller == {p \in Nat \X Nat : p[1] < p[2]}
  <1>1. OpToRel(<, Nat) = Smaller
    BY DEF OpToRel
  <1>2. IsWellFoundedOn(Smaller, Nat)
    BY <1>1, NatLessThanWellFounded
  <1>3. PICK x \in T : \A y \in T : ~ (<<y, x>> \in Smaller)
    <2> HIDE DEF Smaller
    <2> QED BY <1>2, WFMin
  <1>4. ASSUME NEW y \in T PROVE x <= y
    <2>1. x \in Nat /\ y \in Nat /\ <<y, x>> \notin Smaller
      BY <1>3
    <2> QED BY <2>1
  <1> QED BY <1>4

LEMMA Induction ==
    ASSUME NEW T, 0 \in T, \A n \in Nat : n \in T => n + 1 \in T
    PROVE  Nat \subseteq T
  <1> DEFINE U == Nat \ T
  <1> SUFFICES ASSUME U # {} PROVE FALSE
    OBVIOUS
  <1>1. PICK x \in U : \A y \in U : x <= y
    <2> U \subseteq Nat OBVIOUS
    <2> HIDE DEF U
    <2> QED BY SmallestOf
  <1> QED BY <1>1

LEMMA LargestOf ==
    ASSUME NEW T, T \subseteq Nat, T # {}, NEW n \in Nat, \A x \in T : x <= n
    PROVE  \E x \in T : \A y \in T : y <= x
  <1> DEFINE U == {n - x : x \in T}
  <1>1. U \subseteq Nat /\ U # {}
    <2>1. \A x \in T : n - x \in Nat
      OBVIOUS
    <2> QED BY <2>1
  <1>2. PICK u \in U : \A v \in U : u <= v
    <2> HIDE DEF U
    <2> QED BY <1>1, SmallestOf
  <1>3. PICK x \in T : u = n - x
    OBVIOUS
  <1>4. ASSUME NEW y \in T PROVE y <= x
    <2>1. n - y \in U
      OBVIOUS
    <2>2. u <= n - y
      BY <1>2, <2>1
    <2> QED BY <1>3, <2>2
  <1> QED BY <1>4

\* Sets of indices, whose largest and smallest the model takes.
Indices(n) == SUBSET (1..n)

LEMMA MaxIs ==
    ASSUME NEW n \in Nat, NEW S \in Indices(n), S # {}
    PROVE  Max(S) \in S /\ Max(S) \in 1..n /\ \A x \in S : x <= Max(S)
  <1>1. S \subseteq Nat /\ \A x \in S : x <= n
    BY DEF Indices
  <1>2. \E x \in S : \A y \in S : y <= x
    BY <1>1, LargestOf
  <1>3. \E x \in S : \A y \in S : x >= y
    BY <1>1, <1>2
  <1>4. Max(S) \in S /\ \A y \in S : Max(S) >= y
    BY <1>3 DEF Max
  <1>5. \A x \in S : x \in 1..n
    BY DEF Indices
  <1> QED BY <1>1, <1>4, <1>5

LEMMA MinIs ==
    ASSUME NEW n \in Nat, NEW S \in Indices(n), S # {}
    PROVE  Min(S) \in S /\ Min(S) \in 1..n /\ \A x \in S : Min(S) <= x
  <1>1. S \subseteq Nat
    BY DEF Indices
  <1>2. \E x \in S : \A y \in S : x <= y
    BY <1>1, SmallestOf
  <1>4. Min(S) \in S /\ \A y \in S : Min(S) <= y
    BY <1>2 DEF Min
  <1>5. \A x \in S : x \in 1..n
    BY DEF Indices
  <1> QED BY <1>4, <1>5

-----------------------------------------------------------------------------
(* What is seeded.                                                         *)

\* Every finite set of paths has a listing by depth.
LEMMA ListingIs ==
    ASSUME NEW S \in SUBSET PathSeq, IsFiniteSet(S)
    PROVE  ByDepth(S) \in Seq(S) /\ Range(ByDepth(S)) = S
  <1> DEFINE Ordered(X, s) == /\ Range(s) = X
                              /\ \A i, j \in DOMAIN s : i < j => Len(s[i]) <= Len(s[j])
             Finite == {X \in SUBSET PathSeq : IsFiniteSet(X)}
             T == {n \in Nat : \A X \in Finite :
                      Cardinality(X) = n => \E s \in [1..n -> X] : Ordered(X, s)}
  <1>f. \A X \in Finite : IsFiniteSet(X) /\ Cardinality(X) \in Nat
    BY FS_CardinalityType
  <1>1. 0 \in T
    <2>1. ASSUME NEW X \in Finite, Cardinality(X) = 0
          PROVE  \E s \in [1..0 -> X] : Ordered(X, s)
      <3>1. X = {}
        BY <1>f, <2>1, FS_EmptySet
      <3> DEFINE s == [i \in 1..0 |-> i]
      <3>2. s \in [1..0 -> X] /\ Range(s) = X /\ DOMAIN s = {}
        BY <3>1 DEF Range
      <3> HIDE DEF s
      <3> QED BY <3>2
    <2> QED BY <2>1
  <1>2. ASSUME NEW n \in Nat, n \in T PROVE n + 1 \in T
    <2>1. ASSUME NEW X \in Finite, Cardinality(X) = n + 1
          PROVE  \E s \in [1..(n + 1) -> X] : Ordered(X, s)
      <3> DEFINE lens == {Len(p) : p \in X}
      <3>1. lens \subseteq Nat /\ X # {}
        <4>1. X # {}
          BY <1>f, <2>1, FS_EmptySet
        <4>2. \A p \in X : p \in PathSeq
          OBVIOUS
        <4>3. \A p \in PathSeq : Len(p) \in Nat
          BY DEF PathSeq
        <4> QED BY <4>1, <4>2, <4>3
      <3>2. PICK x \in X : \A y \in X : Len(x) <= Len(y)
        <4>1. lens # {}
          BY <3>1
        <4>2. PICK m \in lens : \A k \in lens : m <= k
          <5> HIDE DEF lens
          <5> QED BY <3>1, <4>1, SmallestOf
        <4> QED BY <4>2
      <3> DEFINE Y == X \ {x}
      <3>3. Y \in Finite /\ Cardinality(Y) = n
        <4>1. IsFiniteSet(Y) /\ Cardinality(Y) = Cardinality(X) - 1
          BY <1>f, FS_RemoveElement
        <4> QED BY <2>1, <4>1
      <3>4. PICK r \in [1..n -> Y] : Ordered(Y, r)
        <4> HIDE DEF Y, Ordered, Finite
        <4> QED BY <1>2, <3>3
      <3> DEFINE s == [i \in 1..(n + 1) |-> IF i = 1 THEN x ELSE r[i - 1]]
      <3>5. \A i \in 1..(n + 1) : i # 1 => i - 1 \in 1..n /\ s[i] = r[i - 1] /\ r[i - 1] \in Y
        OBVIOUS
      <3>6. s[1] = x /\ DOMAIN s = 1..(n + 1) /\ 1 \in 1..(n + 1)
        OBVIOUS
      <3>7. \A i \in 1..n : i + 1 \in 1..(n + 1) /\ s[i + 1] = r[i]
        OBVIOUS
      <3>8. s \in [1..(n + 1) -> X]
        BY <3>5
      <3> HIDE DEF s
      <3>9. Range(s) = X
        <4>1. \A y \in X : \E i \in 1..(n + 1) : s[i] = y
          <5>1. TAKE y \in X
          <5>2. CASE y = x
            BY <3>6, <5>2
          <5>3. CASE y # x
            <6>1. PICK i \in 1..n : r[i] = y
              BY <3>4, <5>3 DEF Range
            <6> QED BY <3>7, <6>1
          <5> QED BY <5>2, <5>3
        <4> QED BY <3>6, <3>8, <4>1 DEF Range
      <3>10. ASSUME NEW i \in 1..(n + 1), NEW j \in 1..(n + 1), i < j
             PROVE  Len(s[i]) <= Len(s[j])
        <4>1. j # 1
          BY <3>10
        <4>2. CASE i = 1
          BY <3>2, <3>5, <3>6, <4>1, <4>2
        <4>3. CASE i # 1
          <5>1. i - 1 \in DOMAIN r /\ j - 1 \in DOMAIN r /\ i - 1 < j - 1
            BY <3>10, <4>1, <4>3
          <5>2. Len(r[i - 1]) <= Len(r[j - 1])
            BY <3>4, <5>1
          <5> QED BY <3>5, <4>1, <4>3, <5>2
        <4> QED BY <4>2, <4>3
      <3> QED BY <3>6, <3>8, <3>9, <3>10
    <2> HIDE DEF Ordered, Finite
    <2> QED BY <2>1
  <1>3. Nat \subseteq T
    <2> HIDE DEF T
    <2> QED BY <1>1, <1>2, Induction
  <1>4. S \in Finite /\ Cardinality(S) \in Nat
    BY FS_CardinalityType
  <1>5. \E s \in [1..Cardinality(S) -> S] : Ordered(S, s)
    <2> HIDE DEF Ordered, Finite
    <2> QED BY <1>3, <1>4
  <1>6. ByDepth(S) \in [1..Cardinality(S) -> S] /\ Range(ByDepth(S)) = S
    BY <1>5 DEF ByDepth
  <1> QED
    BY <1>4, <1>6

\* What holds of a host and of a command line.
LEMMA HostIs ==
    ASSUME NEW h \in Hosts
    PROVE  /\ h.home \in PathSeq /\ h.cwd \in PathSeq /\ h.resolv \in PathSeq /\ h.cwd \in Path
           /\ h.gpus \in Seq(PathSeq)
           /\ \A path \in DOMAIN h.links : h.links[path] \in Path
           /\ \A src \in DOMAIN h.files :
                 IsFiniteSet(DOMAIN h.files[src]) /\ DOMAIN h.files[src] \subseteq PathSeq
           /\ \A file \in {<<"dev", "null">>, <<"etc", "hosts">>, <<"etc", "resolv.conf">>, h.resolv} :
                 file # <<>> => ~Under(h.home, file)
           /\ \A i \in DOMAIN h.gpus :
                 /\ Len(h.gpus[i]) = 2 /\ h.gpus[i][1] = "dev" /\ h.gpus[i] \in PathSeq
                 /\ ~Under(h.home, h.gpus[i]) /\ ~Under(h.resolv, h.gpus[i])
  <1>0. PathSeq = Seq(Alphabet) /\ Path \subseteq PathSeq
    BY PathsAre DEF PathSeq
  <1>1. {h.home, h.cwd, h.resolv} \subseteq Path /\ h.gpus \in Seq(Path)
    BY SandboxAssumption
  <1>2. h.gpus \in Seq(PathSeq) /\ \A i \in DOMAIN h.gpus : h.gpus[i] \in PathSeq
    BY <1>0, <1>1
  <1>3. \A path \in DOMAIN h.links : h.links[path] \in Path
    BY SandboxAssumption
  <1>4. \A src \in DOMAIN h.files :
           IsFiniteSet(DOMAIN h.files[src]) /\ DOMAIN h.files[src] \subseteq Path
    BY SandboxAssumption
  <1>5. \A file \in {<<"dev", "null">>, <<"etc", "hosts">>, <<"etc", "resolv.conf">>, h.resolv} :
           file # <<>> => ~Under(h.home, file)
    BY SandboxAssumption
  <1>6. \A i \in DOMAIN h.gpus :
           /\ Len(h.gpus[i]) = 2 /\ h.gpus[i][1] = "dev"
           /\ ~Under(h.home, h.gpus[i]) /\ ~Under(h.resolv, h.gpus[i])
    BY SandboxAssumption
  <1> QED
    BY <1>0, <1>1, <1>2, <1>3, <1>4, <1>5, <1>6

LEMMA CommandIs ==
    ASSUME NEW c \in Commands
    PROVE  /\ c.workspaces \in Seq([path : Path, ro : BOOLEAN])
           /\ c.persist \in Seq([src : Path, dest : Path])
           /\ IsFiniteSet(c.seeds) /\ \A s \in c.seeds : s.dest \in PathSeq
           /\ c.envs \in Seq([key : STRING, valid : BOOLEAN, pass : BOOLEAN])
  BY SandboxAssumption, PathsAre

\* What is put into the home is finite, and below it.
LEMMA PlacedIs ==
    ASSUME cmd \in Commands, host \in Hosts, \A s \in cmd.seeds : s.src \in DOMAIN host.files, NEW kind
    PROVE  /\ IsFiniteSet(Placed(kind)) /\ Placed(kind) \in SUBSET PathSeq
           /\ \A p \in Placed(kind) : Under(p, host.home)
  <1> DEFINE Of(s) == {p \in DOMAIN host.files[s.src] : host.files[s.src][p] = kind}
             Its(s) == {host.home \o s.dest \o path : path \in Of(s)}
             all == {Its(s) : s \in cmd.seeds}
  <1>1. ASSUME NEW s \in cmd.seeds
        PROVE  IsFiniteSet(Its(s)) /\ \A p \in Its(s) : p \in PathSeq /\ Under(p, host.home)
    <2>1. /\ host.home \in PathSeq /\ s.dest \in PathSeq
          /\ IsFiniteSet(DOMAIN host.files[s.src]) /\ DOMAIN host.files[s.src] \subseteq PathSeq
      BY HostIs, CommandIs
    <2>2. IsFiniteSet(Of(s)) /\ Of(s) \subseteq PathSeq
      <3>1. Of(s) \subseteq DOMAIN host.files[s.src]
        OBVIOUS
      <3> HIDE DEF Of
      <3> QED BY <2>1, <3>1, FS_Subset
    <2> DEFINE O == Of(s)
               f == [path \in O |-> host.home \o s.dest \o path]
    <2>3. f \in Surjection(O, Its(s))
      BY DEF Surjection
    <2>4. IsFiniteSet(Its(s))
      <3> HIDE DEF f, Its, O
      <3>1. IsFiniteSet(O)
        BY <2>2 DEF O
      <3> QED BY <2>3, <3>1, FS_Surjection
    <2>5. ASSUME NEW path \in PathSeq
          PROVE  host.home \o s.dest \o path \in PathSeq /\ Under(host.home \o s.dest \o path, host.home)
      <3> DEFINE top == host.home \o s.dest
      <3>1. top \in PathSeq /\ Under(top, host.home)
        BY <2>1, Longer
      <3> HIDE DEF top
      <3>2. top \o path \in PathSeq /\ Under(top \o path, top)
        BY <3>1, Longer
      <3>3. Under(top \o path, host.home)
        BY <2>1, <3>1, <3>2, UnderOrder
      <3> QED BY <3>2, <3>3 DEF top
    <2> QED BY <2>2, <2>4, <2>5
  <1>2. IsFiniteSet(all)
    <2> DEFINE S == cmd.seeds
               f == [s \in S |-> Its(s)]
    <2>1. f \in Surjection(S, all)
      BY DEF Surjection
    <2>2. IsFiniteSet(S)
      BY CommandIs
    <2> HIDE DEF f, all, S
    <2> QED BY <2>1, <2>2, FS_Surjection
  <1>3. Placed(kind) = UNION all
    BY DEF Placed
  <1>4. IsFiniteSet(UNION all)
    <2>1. \A T \in all : IsFiniteSet(T)
      <3> HIDE DEF Its
      <3> QED BY <1>1
    <2> HIDE DEF all
    <2> QED BY <1>2, <2>1, FS_UNION
  <1>5. \A p \in UNION all : p \in PathSeq /\ Under(p, host.home)
    <2> HIDE DEF Its
    <2> QED BY <1>1
  <1> QED BY <1>3, <1>4, <1>5

-----------------------------------------------------------------------------
(* Lists of arguments.                                                     *)

\* The list r begins with s, and goes on with members of B.
GoesOn(s, r, B) ==
    /\ Len(s) \in Nat /\ Len(r) \in Nat /\ Len(s) <= Len(r)
    /\ \A i \in 1..Len(s) : r[i] = s[i]
    /\ \A i \in 1..Len(r) : i > Len(s) => r[i] \in B

LEMMA GoesOnNowhere ==
    ASSUME NEW S, NEW s \in Seq(S), NEW B
    PROVE  GoesOn(s, s, B)
  BY DEF GoesOn

LEMMA GoesOnFurther ==
    ASSUME NEW S, NEW s, NEW r \in Seq(S), NEW B \in SUBSET S, NEW t \in Seq(B), GoesOn(s, r, B)
    PROVE  r \o t \in Seq(S) /\ GoesOn(s, r \o t, B)
  <1>0. t \in Seq(S) /\ Len(t) \in Nat /\ \A i \in 1..Len(t) : t[i] \in B
    OBVIOUS
  <1> DEFINE rt == r \o t
  <1>1. /\ rt \in Seq(S) /\ Len(rt) = Len(r) + Len(t)
        /\ \A i \in 1..Len(r) : rt[i] = r[i]
        /\ \A i \in 1..Len(t) : rt[i + Len(r)] = t[i]
    BY <1>0, Joined
  <1> HIDE DEF rt
  <1>2. Len(s) \in Nat /\ Len(r) \in Nat /\ Len(rt) \in Nat /\ Len(s) <= Len(r)
    BY <1>0, <1>1 DEF GoesOn
  <1>3. \A i \in 1..Len(s) : i \in 1..Len(r) /\ rt[i] = s[i]
    BY <1>1, <1>2 DEF GoesOn
  <1>4. ASSUME NEW i \in 1..Len(rt), i > Len(s) PROVE rt[i] \in B
    <2>1. CASE i <= Len(r)
      <3>1. i \in 1..Len(r)
        BY <1>2, <2>1
      <3> QED BY <1>1, <1>4, <3>1 DEF GoesOn
    <2>2. CASE ~(i <= Len(r))
      <3>1. i - Len(r) \in 1..Len(t) /\ (i - Len(r)) + Len(r) = i
        BY <1>0, <1>1, <1>2, <2>2
      <3> QED BY <1>0, <1>1, <3>1
    <2> QED BY <2>1, <2>2
  <1>5. Len(s) <= Len(rt)
    BY <1>0, <1>1, <1>2
  <1>6. GoesOn(s, rt, B)
    BY <1>2, <1>3, <1>4, <1>5 DEF GoesOn
  <1> QED BY <1>1, <1>6 DEF rt

\* A list that goes on with members of B, then with members of C.
LEMMA GoesOnThen ==
    ASSUME NEW s, NEW r, NEW t, NEW B, NEW C, GoesOn(s, r, B), GoesOn(r, t, C)
    PROVE  GoesOn(s, t, B \cup C)
  <1>1. \A i \in 1..Len(t) : i > Len(s) /\ i <= Len(r) => i \in 1..Len(r) /\ t[i] \in B
    BY DEF GoesOn
  <1>2. \A i \in 1..Len(s) : i \in 1..Len(r) /\ t[i] = s[i]
    BY DEF GoesOn
  <1> QED BY <1>1, <1>2 DEF GoesOn

-----------------------------------------------------------------------------
(* The inductive invariant: what each step of run() has checked or made    *)
(* still holds of the same command line and host when the sandbox runs.    *)

\* What each step of run() establishes, and the steps behind it keep.
AfterResolve == {"home", "envs", "seeds", "egress", "build", "launch", "printed", "running"}
AfterMasking == AfterResolve \ {"home"}
AfterEnvs == AfterMasking \ {"envs"}
AfterSeeds == AfterEnvs \ {"seeds"}
AfterEgress == AfterSeeds \ {"egress"}
AfterBuild == AfterEgress \ {"build"}

Pinned ==
    pc \in AfterResolve => workspaces = [i \in DOMAIN Asked |-> [Asked[i] EXCEPT !.path = Canonical(@)]]
Unmasked == pc \in AfterMasking => HomeOk /\ ~Masking /\ cwd = CwdOf(workspaces)
Vetted == pc \in AfterEnvs => \A i \in DOMAIN cmd.envs : EnvOk(cmd.envs[i])
Copied ==
    pc \in AfterSeeds =>
        /\ \A s \in cmd.seeds : SeedOk(s)
        /\ seeds.dirs = Placed("dir") /\ seeds.files = Placed("file")
Overlaid ==
    /\ seeds = [dirs |-> seeds.dirs, files |-> seeds.files, resolv |-> seeds.resolv]
    /\ pc \notin AfterEgress \cup {"refused"} => ~Overlays
    /\ pc \in AfterEgress => seeds.resolv = IF EgressRequested THEN ResolvDest ELSE NoOverlay
Listed ==
    pc \in AfterBuild => ops = Arguments /\ \A i \in DOMAIN cmd.persist : DestOk(cmd.persist[i].dest)
Checked == pc \notin {"preflight", "refused"} => (EgressRequested => cmd.net # "host")
Ran == pc = "running" => (runner = "egress" <=> EgressRequested)

IInv == TypeOK /\ Checked /\ Pinned /\ Unmasked /\ Vetted /\ Copied /\ Overlaid /\ Listed /\ Ran

-----------------------------------------------------------------------------
(* What follows from the command line and the host alone stays.            *)

LEMMA Kept ==
    ASSUME UNCHANGED given
    PROVE  /\ cmd' = cmd /\ host' = host
           /\ EgressRequested' <=> EgressRequested
           /\ Asked' = Asked /\ ResolvDest' = ResolvDest
           /\ HomeOk' <=> HomeOk
           /\ \A path : Canonical(path)' = Canonical(path)
           /\ \A s : SeedOk(s)' <=> SeedOk(s)
           /\ \A e : EnvOk(e)' <=> EnvOk(e)
           /\ Placed("dir")' = Placed("dir") /\ Placed("file")' = Placed("file")
  <1>1. cmd' = cmd /\ host' = host
    BY DEF given
  <1> QED
    BY <1>1 DEF EgressRequested, Asked, ResolvDest, HomeOk, Canonical, SeedOk, EnvOk, Placed

LEMMA KeptMasking ==
    ASSUME host' = host, workspaces' = workspaces
    PROVE  Masking' <=> Masking
  BY DEF Masking, MasksHome

LEMMA KeptOverlays ==
    ASSUME seeds' = seeds
    PROVE  Overlays' <=> Overlays
  BY DEF Overlays

LEMMA KeptArguments ==
    ASSUME cmd' = cmd, host' = host, workspaces' = workspaces, seeds' = seeds
    PROVE  Arguments' = Arguments
  <1>1. System' = System
    BY DEF System, RoBind, RoBindTry, Made, Null
  <1>2. HomeOps' = HomeOps
    BY DEF HomeOps, SeedOps, PersistOps, Canonical
  <1>3. Exposed' = Exposed
    BY DEF Exposed, RoBindTry
  <1>4. ResolverOps' = ResolverOps /\ ShareNet' = ShareNet
    BY DEF ResolverOps, ShareNet, Overlays
  <1>5. Gpu' = Gpu /\ WorkspaceOps' = WorkspaceOps /\ EnvOps' = EnvOps
    BY DEF Gpu, WorkspaceOps, EnvOps
  <1> QED
    BY <1>1, <1>2, <1>3, <1>4, <1>5 DEF Arguments

-----------------------------------------------------------------------------

LEMMA Initially ==
    ASSUME Init
    PROVE  IInv
  BY DEF Init, IInv, TypeOK, Checked, Pinned, Unmasked, Vetted, Copied, Overlaid, Listed, Ran, Overlays,
         NoOverlay, AfterResolve, AfterMasking, AfterEnvs, AfterSeeds, AfterEgress, AfterBuild

LEMMA GivenKept ==
    ASSUME [Next]_vars
    PROVE  UNCHANGED given
  BY DEF Next, vars, Preflight, ResolveWorkspaces, RejectMasking, ParseEnvs, BuildSeeds, ResolveEgress,
         Build, BuildFails, Launch

LEMMA TypeStep ==
    ASSUME TypeOK, [Next]_vars
    PROVE  TypeOK'
  <1>1. cmd' = cmd /\ host' = host
    BY GivenKept DEF given
  <1>2. CASE UNCHANGED vars
    BY <1>2 DEF TypeOK, vars, given
  <1>3. CASE Preflight
    BY <1>3, <1>1 DEF TypeOK, Preflight, Refuse
  <1>4. CASE ResolveWorkspaces
    BY <1>4, <1>1 DEF TypeOK, ResolveWorkspaces, Refuse
  <1>5. CASE RejectMasking
    BY <1>5, <1>1 DEF TypeOK, RejectMasking, Refuse
  <1>6. CASE ParseEnvs
    BY <1>6, <1>1 DEF TypeOK, ParseEnvs, Refuse
  <1>7. CASE BuildSeeds
    BY <1>7, <1>1 DEF TypeOK, BuildSeeds, Refuse
  <1>8. CASE ResolveEgress
    BY <1>8, <1>1 DEF TypeOK, ResolveEgress, Refuse
  <1>9. CASE Build
    BY <1>9, <1>1 DEF TypeOK, Build, Refuse
  <1>10. CASE BuildFails
    BY <1>10, <1>1 DEF TypeOK, BuildFails, Refuse
  <1>11. CASE Launch
    BY <1>11, <1>1 DEF TypeOK, Launch
  <1> QED
    BY <1>2, <1>3, <1>4, <1>5, <1>6, <1>7, <1>8, <1>9, <1>10, <1>11 DEF Next

LEMMA CheckedStep ==
    ASSUME Checked, [Next]_vars
    PROVE  Checked'
  <1>1. cmd' = cmd /\ (EgressRequested' <=> EgressRequested)
    BY GivenKept, Kept
  <1>2. CASE Preflight
    <2>1. Acceptable => (EgressRequested => cmd.net # "host")
      BY DEF Acceptable
    <2> QED BY <1>1, <1>2, <2>1 DEF Checked, Preflight, Refuse
  <1>3. CASE UNCHANGED pc
    BY <1>1, <1>3 DEF Checked
  <1>4. CASE ~Preflight /\ ~UNCHANGED pc
    <2>1. pc \notin {"preflight", "refused"}
      BY <1>4 DEF Next, vars, ResolveWorkspaces, RejectMasking, ParseEnvs, BuildSeeds, ResolveEgress,
                  Build, BuildFails, Launch
    <2> QED BY <1>1, <2>1 DEF Checked
  <1> QED
    BY <1>2, <1>3, <1>4

LEMMA PinnedStep ==
    ASSUME Pinned, [Next]_vars
    PROVE  Pinned'
  <1>1. cmd' = cmd /\ host' = host /\ Asked' = Asked /\ \A path : Canonical(path)' = Canonical(path)
    BY GivenKept, Kept
  <1> DEFINE Made1 == [i \in DOMAIN Asked |-> [Asked[i] EXCEPT !.path = Canonical(@)]]
  <1>2. Made1' = Made1
    BY <1>1
  <1>3. CASE ResolveWorkspaces
    BY <1>2, <1>3 DEF Pinned, ResolveWorkspaces, Refuse, AfterResolve
  <1>4. CASE UNCHANGED <<pc, workspaces>>
    BY <1>2, <1>4 DEF Pinned
  <1>5. CASE ~ResolveWorkspaces /\ ~UNCHANGED <<pc, workspaces>>
    <2>1. workspaces' = workspaces /\ (pc \in AfterResolve \/ pc' \notin AfterResolve)
      BY <1>5 DEF Next, vars, Preflight, RejectMasking, ParseEnvs, BuildSeeds, ResolveEgress,
                  Build, BuildFails, Launch, Refuse, AfterResolve
    <2> QED BY <1>2, <2>1 DEF Pinned
  <1> QED
    BY <1>3, <1>4, <1>5

LEMMA UnmaskedStep ==
    ASSUME Unmasked, [Next]_vars
    PROVE  Unmasked'
  <1>1. host' = host /\ (HomeOk' <=> HomeOk)
    BY GivenKept, Kept
  <1>2. CASE ResolveWorkspaces
    BY <1>2 DEF Unmasked, ResolveWorkspaces, Refuse, AfterMasking, AfterResolve
  <1>3. CASE ~ResolveWorkspaces
    <2>1. workspaces' = workspaces
      BY <1>3 DEF Next, vars, Preflight, RejectMasking, ParseEnvs, BuildSeeds, ResolveEgress,
                  Build, BuildFails, Launch
    <2>2. Masking' <=> Masking
      BY <1>1, <2>1, KeptMasking
    <2>3. CASE RejectMasking
      BY <1>1, <2>1, <2>2, <2>3 DEF Unmasked, RejectMasking, Refuse, AfterMasking, AfterResolve
    <2>4. CASE ~RejectMasking
      <3>1. cwd' = cwd /\ (pc \in AfterMasking \/ pc' \notin AfterMasking)
        BY <1>3, <2>4 DEF Next, vars, Preflight, ParseEnvs, BuildSeeds, ResolveEgress,
                    Build, BuildFails, Launch, Refuse, AfterMasking, AfterResolve
      <3> QED BY <1>1, <2>1, <2>2, <3>1 DEF Unmasked
    <2> QED BY <2>3, <2>4
  <1> QED
    BY <1>2, <1>3

LEMMA VettedStep ==
    ASSUME Vetted, [Next]_vars
    PROVE  Vetted'
  <1>1. cmd' = cmd /\ \A e : EnvOk(e)' <=> EnvOk(e)
    BY GivenKept, Kept
  <1> DEFINE Fine == \A i \in DOMAIN cmd.envs : EnvOk(cmd.envs[i])
  <1>2. Fine' <=> Fine
    BY <1>1 DEF EnvOk
  <1>3. pc' \in AfterEnvs => Fine
    <2>1. CASE ParseEnvs
      BY <2>1 DEF ParseEnvs, Refuse, AfterEnvs, AfterMasking, AfterResolve
    <2>2. CASE ~ParseEnvs
      <3>1. pc \in AfterEnvs \/ pc' \notin AfterEnvs
        BY <2>2 DEF Next, vars, Preflight, ResolveWorkspaces, RejectMasking, BuildSeeds, ResolveEgress,
                    Build, BuildFails, Launch, Refuse, AfterEnvs, AfterMasking, AfterResolve
      <3> QED BY <3>1 DEF Vetted
    <2> QED BY <2>1, <2>2
  <1> QED
    BY <1>2, <1>3 DEF Vetted

LEMMA CopiedStep ==
    ASSUME Copied, Overlaid, [Next]_vars
    PROVE  Copied'
  <1>1. cmd' = cmd /\ host' = host /\ Placed("dir")' = Placed("dir") /\ Placed("file")' = Placed("file")
    BY GivenKept, Kept
  <1> DEFINE Fine == \A s \in cmd.seeds : SeedOk(s)
  <1>2. Fine' <=> Fine
    BY <1>1 DEF SeedOk
  <1>3. pc' \in AfterSeeds => Fine /\ seeds'.dirs = Placed("dir") /\ seeds'.files = Placed("file")
    <2>r. seeds = [dirs |-> seeds.dirs, files |-> seeds.files, resolv |-> seeds.resolv]
      BY DEF Overlaid
    <2>1. CASE BuildSeeds
      <3>1. pc' \in AfterSeeds =>
               Fine /\ seeds' = [seeds EXCEPT !.dirs = Placed("dir"), !.files = Placed("file")]
        BY <2>1 DEF BuildSeeds, Refuse, AfterSeeds, AfterEnvs, AfterMasking, AfterResolve
      <3> HIDE DEF Fine
      <3> QED BY <2>r, <3>1
    <2>2. CASE ResolveEgress
      <3>1. pc \in AfterSeeds /\ (seeds' = seeds \/ seeds' = [seeds EXCEPT !.resolv = ResolvDest])
        BY <2>2 DEF ResolveEgress, Refuse, AfterSeeds, AfterEnvs, AfterMasking, AfterResolve
      <3>2. seeds'.dirs = seeds.dirs /\ seeds'.files = seeds.files
        BY <2>r, <3>1
      <3> QED BY <3>1, <3>2 DEF Copied
    <2>3. CASE ~BuildSeeds /\ ~ResolveEgress
      <3>1. seeds' = seeds /\ (pc \in AfterSeeds \/ pc' \notin AfterSeeds)
        BY <2>3 DEF Next, vars, Preflight, ResolveWorkspaces, RejectMasking, ParseEnvs,
                    Build, BuildFails, Launch, Refuse, AfterSeeds, AfterEnvs, AfterMasking, AfterResolve
      <3> QED BY <3>1 DEF Copied
    <2> QED BY <2>1, <2>2, <2>3
  <1> HIDE DEF Fine
  <1>4. Copied' <=> (pc' \in AfterSeeds => Fine' /\ seeds'.dirs = Placed("dir")' /\ seeds'.files = Placed("file")')
    BY DEF Copied, Fine, AfterSeeds, AfterEnvs, AfterMasking, AfterResolve
  <1> QED
    BY <1>1, <1>2, <1>3, <1>4

LEMMA OverlaidStep ==
    ASSUME Overlaid, [Next]_vars
    PROVE  Overlaid'
  <1>1. (EgressRequested' <=> EgressRequested) /\ ResolvDest' = ResolvDest
    BY GivenKept, Kept
  <1>r. seeds = [dirs |-> seeds.dirs, files |-> seeds.files, resolv |-> seeds.resolv]
    BY DEF Overlaid
  <1>2. CASE BuildSeeds
    <2>1. /\ pc = "seeds" /\ pc' \in {"egress", "refused"}
          /\ seeds' = seeds \/ seeds' = [seeds EXCEPT !.dirs = Placed("dir"), !.files = Placed("file")]
      BY <1>2 DEF BuildSeeds, Refuse
    <2>2. /\ seeds'.resolv = seeds.resolv
          /\ seeds' = [dirs |-> seeds'.dirs, files |-> seeds'.files, resolv |-> seeds'.resolv]
      BY <1>r, <2>1
    <2>3. Overlays' <=> Overlays
      BY <2>2 DEF Overlays, NoOverlay
    <2> QED
      BY <2>1, <2>2, <2>3 DEF Overlaid, AfterEgress, AfterSeeds, AfterEnvs, AfterMasking, AfterResolve
  <1>3. CASE ResolveEgress
    <2>1. pc = "egress" /\ pc' \in {"build", "refused"}
      BY <1>3 DEF ResolveEgress, Refuse
    <2>2. seeds.resolv = NoOverlay
      BY <2>1 DEF Overlaid, Overlays, AfterEgress, AfterSeeds, AfterEnvs, AfterMasking, AfterResolve
    <2>3. CASE seeds' = seeds /\ (pc' = "refused" \/ ~EgressRequested)
      BY <1>1, <1>r, <2>1, <2>2, <2>3
         DEF Overlaid, NoOverlay, AfterEgress, AfterSeeds, AfterEnvs, AfterMasking, AfterResolve
    <2>4. CASE seeds' = [seeds EXCEPT !.resolv = ResolvDest] /\ EgressRequested
      <3>1. /\ seeds' = [dirs |-> seeds'.dirs, files |-> seeds'.files, resolv |-> seeds'.resolv]
            /\ seeds'.resolv = ResolvDest
        BY <1>r, <2>4
      <3> QED
        BY <1>1, <2>1, <2>4, <3>1
           DEF Overlaid, AfterEgress, AfterSeeds, AfterEnvs, AfterMasking, AfterResolve
    <2> QED
      BY <1>3, <2>3, <2>4 DEF ResolveEgress, Refuse
  <1>4. CASE ~BuildSeeds /\ ~ResolveEgress
    <2>1. /\ seeds' = seeds
          /\ pc' = "refused" \/ (pc \notin AfterEgress \cup {"refused"} /\ pc' \notin AfterEgress \cup {"refused"})
             \/ (pc \in AfterEgress /\ pc' \in AfterEgress) \/ pc' = pc
      BY <1>4 DEF Next, vars, Preflight, ResolveWorkspaces, RejectMasking, ParseEnvs,
                  Build, BuildFails, Launch, Refuse, AfterEgress, AfterSeeds, AfterEnvs, AfterMasking, AfterResolve
    <2>2. Overlays' <=> Overlays
      BY <2>1, KeptOverlays
    <2>3. "refused" \notin AfterEgress
      BY DEF AfterEgress, AfterSeeds, AfterEnvs, AfterMasking, AfterResolve
    <2> QED
      BY <1>1, <2>1, <2>2, <2>3 DEF Overlaid, NoOverlay
  <1> QED
    BY <1>2, <1>3, <1>4

LEMMA ListedStep ==
    ASSUME Listed, [Next]_vars
    PROVE  Listed'
  <1>1. cmd' = cmd /\ host' = host
    BY GivenKept, Kept
  <1>2. CASE Build
    <2>1. workspaces' = workspaces /\ seeds' = seeds
      BY <1>2 DEF Build
    <2>2. Arguments' = Arguments
      BY <1>1, <2>1, KeptArguments
    <2>3. pc' \in AfterBuild =>
             ops' = Arguments /\ {i \in DOMAIN cmd.persist : ~DestOk(cmd.persist[i].dest)} = {}
      BY <1>2 DEF Build, Refuse, AfterBuild, AfterEgress, AfterSeeds, AfterEnvs, AfterMasking, AfterResolve
    <2> QED
      BY <1>1, <2>2, <2>3 DEF Listed
  <1>3. CASE Launch
    <2>1. workspaces' = workspaces /\ seeds' = seeds /\ ops' = ops /\ pc \in AfterBuild
      BY <1>3 DEF Launch, AfterBuild, AfterEgress, AfterSeeds, AfterEnvs, AfterMasking, AfterResolve
    <2>2. Arguments' = Arguments
      BY <1>1, <2>1, KeptArguments
    <2> QED
      BY <1>1, <2>1, <2>2 DEF Listed
  <1>4. CASE UNCHANGED vars
    <2>1. workspaces' = workspaces /\ seeds' = seeds /\ ops' = ops /\ pc' = pc
      BY <1>4 DEF vars
    <2>2. Arguments' = Arguments
      BY <1>1, <2>1, KeptArguments
    <2> QED
      BY <1>1, <2>1, <2>2 DEF Listed
  <1>5. CASE ~Build /\ ~Launch /\ ~UNCHANGED vars
    <2>1. pc' \notin AfterBuild
      BY <1>5 DEF Next, Preflight, ResolveWorkspaces, RejectMasking, ParseEnvs, BuildSeeds, ResolveEgress,
                  BuildFails, Refuse, AfterBuild, AfterEgress, AfterSeeds, AfterEnvs, AfterMasking, AfterResolve
    <2> QED
      BY <2>1 DEF Listed
  <1> QED
    BY <1>2, <1>3, <1>4, <1>5

LEMMA RanStep ==
    ASSUME Ran, [Next]_vars
    PROVE  Ran'
  <1>1. EgressRequested' <=> EgressRequested
    BY GivenKept, Kept
  <1>2. CASE Launch
    BY <1>1, <1>2 DEF Ran, Launch
  <1>3. CASE ~Launch
    <2>1. pc' # "running" \/ (pc' = pc /\ runner' = runner)
      BY <1>3 DEF Next, vars, Preflight, ResolveWorkspaces, RejectMasking, ParseEnvs, BuildSeeds,
                  ResolveEgress, Build, BuildFails, Refuse
    <2> QED BY <1>1, <2>1 DEF Ran
  <1> QED
    BY <1>2, <1>3

\* The invariant the theorems below rest on.
THEOREM Invariant == Spec => []IInv
  <1>1. IInv /\ [Next]_vars => IInv'
    BY TypeStep, CheckedStep, PinnedStep, UnmaskedStep, VettedStep, CopiedStep, OverlaidStep, ListedStep,
       RanStep DEF IInv
  <1> QED
    BY <1>1, Initially, PTL DEF Spec

\* The state of a launch keeps its types, and a runner is chosen exactly
\* when the sandbox runs.
THEOREM TypeCorrect == Spec => []TypeOK
  <1>1. IInv => TypeOK
    BY DEF IInv
  <1> QED
    BY <1>1, Invariant, PTL

\* When the sandbox runs, preflight, run and build agree: it goes through
\* run_egress exactly when a switch asks for it, and then with the overlays
\* and never with the host's network.
THEOREM Agreement ==
    Spec => [](pc = "running" =>
                 /\ runner = "egress" <=> EgressRequested
                 /\ Overlays <=> EgressRequested
                 /\ runner = "egress" => cmd.net # "host")
  <1>1. IInv => (pc = "running" =>
                   /\ runner = "egress" <=> EgressRequested
                   /\ Overlays <=> EgressRequested
                   /\ runner = "egress" => cmd.net # "host")
    <2>1. ResolvDest # NoOverlay
      BY DEF ResolvDest, NoOverlay
    <2>2. "running" \in AfterEgress
      BY DEF AfterEgress, AfterSeeds, AfterEnvs, AfterMasking, AfterResolve
    <2> QED
      BY <2>1, <2>2 DEF IInv, Checked, Overlaid, Ran, Overlays
  <1> QED
    BY <1>1, Invariant, PTL

-----------------------------------------------------------------------------
(* The arguments, part by part: what each may hold.                        *)

MountSet ==
    [op : {"mount"}, kind : {"host", "proc", "dev", "tmpfs", "overlay", "device"},
     src : PathSeq, dest : PathSeq, rw : BOOLEAN]

\* The places whose mounts leave the home what it is.
Apart == {p \in PathSeq : ~Under(host.home, p)}

SystemSet ==
    {m \in MountSet : m.kind = "host" => ~m.rw /\ (m.src = m.dest \/ m.src = <<"dev", "null">>)}
HomeSet == {m \in MountSet : m.kind = "tmpfs" /\ m.dest = host.home}
SeedSet == [op : {"dir", "file"}, dest : {p \in PathSeq : Under(p, host.home)}]
PersistSet == {m \in MountSet : m.kind = "host" /\ m.dest \in Apart /\ Persisted(m.dest)}
ToolSet == {m \in MountSet : m.kind = "host" /\ ~m.rw /\ m.dest \in Apart /\ m.dest \in Tools}
OverlaySet == {m \in MountSet : m.kind = "overlay" /\ m.dest \in Apart}
ResolvSet ==
    {m \in MountSet : /\ m.kind = "host" /\ ~m.rw /\ m.dest \in Apart
                      /\ m.src = host.resolv /\ m.dest = host.resolv /\ host.resolv # <<>>}
FlagSet == [op : {"uid", IF ShareNet THEN "share-net" ELSE "unshare-net", "clearenv"}]
DeviceSet ==
    {m \in MountSet : /\ m.kind = "device" /\ m.dest \in Apart
                      /\ ~Under(<<"etc", "hosts">>, m.dest) /\ ~Under(ResolvDest, m.dest)}
WorkSet ==
    {m \in MountSet : /\ m.kind = "host" /\ m.src = m.dest /\ m.dest \in Apart
                      /\ \E i \in DOMAIN workspaces :
                            m.dest = workspaces[i].path /\ m.rw = ~workspaces[i].ro}
OwnSet == [op : {"setenv"}, key : Reserved, by : {"basta"}]
CallerSet == [op : {"setenv"}, key : STRING \ Reserved, by : {"caller"}]

LEMMA One ==
    ASSUME NEW S, NEW m \in S
    PROVE  <<m>> \in Seq(S) /\ Len(<<m>>) = 1 /\ <<m>>[1] = m
  OBVIOUS

LEMMA Append3 ==
    ASSUME NEW S, NEW a \in Seq(S), NEW b \in Seq(S), NEW c \in Seq(S)
    PROVE  /\ a \o b \o c \in Seq(S)
           /\ a \o (b \o c) = (a \o b) \o c
  BY SMTT(60)

LEMMA Spelled ==
    /\ {<<>>, <<"usr">>, <<"etc">>, <<"opt">>, <<"proc">>, <<"dev">>, <<"tmp">>, <<"run">>,
        <<"mise">>, <<".ssh">>, <<"x">>} \subseteq PathSeq
    /\ {<<"dev", "null">>, <<"dev", "console">>, <<"dev", "tty">>, <<"var", "tmp">>, <<"etc", "hosts">>,
        <<"etc", "resolv.conf">>, <<".local", "bin">>, <<".local", "share">>, <<".config", "mise">>} \subseteq PathSeq
    /\ {<<"proc", "1", "cmdline">>, <<"proc", "1", "environ">>} \subseteq PathSeq
  <1>1. {<<>>, <<"usr">>, <<"etc">>, <<"opt">>, <<"proc">>, <<"dev">>, <<"tmp">>, <<"run">>,
        <<"mise">>, <<".ssh">>, <<"x">>} \subseteq PathSeq
    BY DEF PathSeq, Alphabet
  <1>2. {<<"dev", "null">>, <<"dev", "console">>, <<"dev", "tty">>, <<"var", "tmp">>, <<"etc", "hosts">>,
        <<"etc", "resolv.conf">>, <<".local", "bin">>, <<".local", "share">>, <<".config", "mise">>} \subseteq PathSeq
    BY DEF PathSeq, Alphabet
  <1>3. {<<"proc", "1", "cmdline">>, <<"proc", "1", "environ">>} \subseteq PathSeq
    BY DEF PathSeq, Alphabet
  <1> QED BY <1>1, <1>2, <1>3

LEMMA SystemIs == System \in Seq(SystemSet)
  <1>1. ASSUME NEW path \in PathSeq
        PROVE  /\ RoBind(path) \in Seq(SystemSet) /\ RoBindTry(path) \in Seq(SystemSet)
               /\ Null(path) \in Seq(SystemSet)
               /\ \A kind \in {"proc", "dev", "tmpfs"} : Made(kind, path) \in Seq(SystemSet)
    <2>1. RoBind(path) \in Seq(SystemSet)
      <3> DEFINE m == Mount("host", path, path, FALSE)
      <3>1. m \in MountSet /\ m.kind = "host" /\ m.src = path /\ m.dest = path /\ m.rw = FALSE
        BY DEF Mount, MountSet
      <3>2. RoBind(path) = <<m>>
        BY DEF RoBind
      <3> HIDE DEF m
      <3>3. m \in SystemSet
        BY <3>1 DEF SystemSet
      <3> QED BY <3>2, <3>3
    <2>2. RoBindTry(path) \in Seq(SystemSet)
      BY <2>1 DEF RoBindTry
    <2>3. Null(path) \in Seq(SystemSet)
      <3> DEFINE null == <<"dev", "null">>
                 m == Mount("host", null, path, FALSE)
      <3>1. null \in PathSeq
        BY Spelled
      <3>2. m \in MountSet /\ m.kind = "host" /\ m.src = null /\ m.rw = FALSE
        <4> HIDE DEF null
        <4> QED BY <3>1 DEF Mount, MountSet
      <3>3. Null(path) = <<m>>
        BY DEF Null
      <3> HIDE DEF m
      <3>4. m \in SystemSet
        BY <3>2 DEF SystemSet
      <3> QED BY <3>3, <3>4
    <2>4. ASSUME NEW kind \in {"proc", "dev", "tmpfs"}
          PROVE  Made(kind, path) \in Seq(SystemSet)
      <3> DEFINE rw == kind = "tmpfs"
                 m == Mount(kind, <<>>, path, rw)
      <3>1. <<>> \in PathSeq /\ (rw = TRUE \/ rw = FALSE)
        BY Spelled
      <3>2. m \in MountSet /\ m.kind = kind
        <4> HIDE DEF rw
        <4> QED BY <3>1 DEF Mount, MountSet
      <3>3. Made(kind, path) = <<m>>
        BY DEF Made
      <3> HIDE DEF m
      <3>4. m \in SystemSet
        BY <3>2 DEF SystemSet
      <3> QED BY <3>3, <3>4
    <2> QED BY <2>1, <2>2, <2>3, <2>4
  <1> DEFINE p1 == RoBind(<<"usr">>)
             p2 == RoBind(<<"etc">>)
             p3 == RoBindTry(<<"opt">>)
             p4 == Made("proc", <<"proc">>)
             p5 == Null(<<"proc", "1", "cmdline">>)
             p6 == Null(<<"proc", "1", "environ">>)
             p7 == Made("dev", <<"dev">>)
             p8 == Null(<<"dev", "console">>)
             p9 == Null(<<"dev", "tty">>)
             p10 == Made("tmpfs", <<"tmp">>)
             p11 == Made("tmpfs", <<"var", "tmp">>)
             p12 == Made("tmpfs", <<"run">>)
  <1>2. /\ p1 \in Seq(SystemSet) /\ p2 \in Seq(SystemSet) /\ p3 \in Seq(SystemSet)
        /\ p4 \in Seq(SystemSet) /\ p5 \in Seq(SystemSet) /\ p6 \in Seq(SystemSet)
    BY <1>1, Spelled
  <1>3. /\ p7 \in Seq(SystemSet) /\ p8 \in Seq(SystemSet) /\ p9 \in Seq(SystemSet)
        /\ p10 \in Seq(SystemSet) /\ p11 \in Seq(SystemSet) /\ p12 \in Seq(SystemSet)
    BY <1>1, Spelled
  <1> HIDE DEF p1, p2, p3, p4, p5, p6, p7, p8, p9, p10, p11, p12
  <1>4. p1 \o p2 \o p3 \o p4 \o p5 \o p6 \in Seq(SystemSet)
    BY <1>2
  <1> DEFINE q == p1 \o p2 \o p3 \o p4 \o p5 \o p6
  <1> HIDE DEF q
  <1>5. q \o p7 \o p8 \o p9 \o p10 \o p11 \o p12 \in Seq(SystemSet)
    BY <1>3, <1>4 DEF q
  <1> QED
    BY <1>5 DEF System, q, p1, p2, p3, p4, p5, p6, p7, p8, p9, p10, p11, p12

LEMMA SeedsAre ==
    ASSUME IInv, pc \in AfterBuild
    PROVE  SeedOps \in Seq(SeedSet)
  <1>1. /\ cmd \in Commands /\ host \in Hosts /\ \A s \in cmd.seeds : SeedOk(s)
        /\ seeds.dirs = Placed("dir") /\ seeds.files = Placed("file")
    BY DEF IInv, TypeOK, Copied, AfterBuild, AfterEgress
  <1>2. \A s \in cmd.seeds : s.src \in DOMAIN host.files
    BY <1>1 DEF SeedOk
  <1>3. ASSUME NEW kind, NEW op \in {"dir", "file"}
        PROVE  [i \in DOMAIN ByDepth(Placed(kind)) |-> Put(op, ByDepth(Placed(kind))[i])] \in Seq(SeedSet)
    <2> DEFINE s == ByDepth(Placed(kind))
               S == Placed(kind)
    <2>1. s \in Seq(S) /\ \A p \in S : p \in PathSeq /\ Under(p, host.home)
      BY <1>1, <1>2, PlacedIs, ListingIs
    <2> HIDE DEF s, S
    <2>2. \A i \in DOMAIN s : Put(op, s[i]) \in SeedSet
      BY <2>1 DEF Put, SeedSet
    <2>3. DOMAIN s = 1..Len(s) /\ Len(s) \in Nat
      BY <2>1
    <2> DEFINE f == [i \in DOMAIN s |-> Put(op, s[i])]
    <2>4. f \in [1..Len(s) -> SeedSet]
      BY <2>2, <2>3
    <2>5. f \in Seq(SeedSet)
      <3> HIDE DEF f
      <3> QED BY <2>3, <2>4
    <2> QED BY <2>5 DEF s
  <1> DEFINE a == [i \in DOMAIN ByDepth(Placed("dir")) |-> Put("dir", ByDepth(Placed("dir"))[i])]
             b == [i \in DOMAIN ByDepth(Placed("file")) |-> Put("file", ByDepth(Placed("file"))[i])]
  <1>4. a \in Seq(SeedSet) /\ b \in Seq(SeedSet)
    BY <1>3
  <1>5. SeedOps = a \o b
    BY <1>1 DEF SeedOps
  <1> HIDE DEF a, b
  <1> QED
    BY <1>4, <1>5

LEMMA PersistsAre ==
    ASSUME IInv, pc \in AfterBuild
    PROVE  PersistOps \in Seq(PersistSet)
  <1>1. /\ cmd \in Commands /\ host \in Hosts /\ \A i \in DOMAIN cmd.persist : DestOk(cmd.persist[i].dest)
    BY DEF IInv, TypeOK, Listed
  <1>2. cmd.persist \in Seq([src : Path, dest : Path]) /\ host.home \in PathSeq
    BY <1>1, CommandIs, HostIs
  <1> DEFINE ps == cmd.persist
  <1>3. DOMAIN ps = 1..Len(ps) /\ Len(ps) \in Nat /\ \A i \in DOMAIN ps : ps[i].src \in Path /\ ps[i].dest \in Path
    <2> DEFINE R == [src : Path, dest : Path]
    <2>1. ps \in Seq(R)
      BY <1>2
    <2>2. \A r \in R : r.src \in Path /\ r.dest \in Path
      OBVIOUS
    <2> HIDE DEF ps, R
    <2>3. DOMAIN ps = 1..Len(ps) /\ Len(ps) \in Nat /\ \A i \in DOMAIN ps : ps[i] \in R
      BY <2>1
    <2> QED BY <2>2, <2>3
  <1>4. ASSUME NEW i \in DOMAIN ps
        PROVE  Mount("host", Canonical(ps[i].src), host.home \o ps[i].dest, TRUE) \in PersistSet
    <2>1. Canonical(ps[i].src) \in PathSeq /\ ps[i].dest \in PathSeq
      BY <1>1, <1>3, PathsAre, HostIs DEF Canonical
    <2>2. ps[i].dest # <<>>
      BY <1>1 DEF DestOk
    <2> DEFINE d == host.home \o ps[i].dest
    <2>3. d \in PathSeq /\ ~Under(host.home, d) /\ Under(d, d)
      BY <1>2, <2>1, <2>2, Longer, UnderOrder
    <2>4. Persisted(d)
      BY <2>3 DEF Persisted
    <2> DEFINE m == Mount("host", Canonical(ps[i].src), d, TRUE)
    <2> HIDE DEF d
    <2>5. m \in MountSet /\ m.kind = "host" /\ m.dest = d
      BY <2>1, <2>3 DEF Mount, MountSet
    <2> HIDE DEF m
    <2>6. m \in PersistSet
      BY <2>3, <2>4, <2>5 DEF PersistSet, Apart
    <2> QED BY <2>6 DEF m, d
  <1> DEFINE f == [i \in DOMAIN ps |-> Mount("host", Canonical(ps[i].src), host.home \o ps[i].dest, TRUE)]
  <1>5. f \in [1..Len(ps) -> PersistSet]
    BY <1>3, <1>4
  <1>6. f \in Seq(PersistSet)
    <2> HIDE DEF f
    <2> QED BY <1>3, <1>5
  <1> QED BY <1>6 DEF PersistOps

LEMMA ExposedIs ==
    ASSUME IInv
    PROVE  Exposed \in Seq(ToolSet)
  <1>1. host \in Hosts
    BY DEF IInv, TypeOK
  <1>2. host.home \in PathSeq
    BY <1>1, HostIs
  <1> DEFINE rest == IF cmd.exposeLocalShare THEN <<>> ELSE <<"mise">>
             share == host.home \o <<".local", "share">>
  <1>3. ASSUME NEW path \in PathSeq, path \in Apart, path \in Tools
        PROVE  RoBindTry(path) \in Seq(ToolSet)
    <2> DEFINE m == Mount("host", path, path, FALSE)
    <2>1. m \in MountSet /\ m.kind = "host" /\ m.dest = path /\ m.rw = FALSE
      BY DEF Mount, MountSet
    <2>2. RoBindTry(path) = <<m>> \/ RoBindTry(path) = <<>>
      BY DEF RoBindTry, RoBind
    <2> HIDE DEF m
    <2>3. m \in ToolSet
      BY <1>3, <2>1 DEF ToolSet
    <2>4. <<m>> \in Seq(ToolSet) /\ <<>> \in Seq(ToolSet)
      BY <2>3
    <2> QED BY <2>2, <2>4
  <1>4. host.home \o <<".local", "bin">> \in Apart /\ host.home \o <<".config", "mise">> \in Apart
        /\ share \in Apart
    <2>1. \A q \in PathSeq : q # <<>> => host.home \o q \in Apart
      BY <1>2, Longer DEF Apart
    <2>2. <<".local", "bin">> # <<>> /\ <<".config", "mise">> # <<>> /\ <<".local", "share">> # <<>>
      OBVIOUS
    <2> QED BY <2>1, <2>2, Spelled
  <1>5. share \o rest \in Apart
    <2>1. share \in PathSeq /\ Under(share, host.home) /\ ~Under(host.home, share) /\ rest \in PathSeq
      <3>1. share \in PathSeq /\ Under(share, host.home)
        BY <1>2, Longer, Spelled
      <3> QED BY <1>4, <3>1, Spelled DEF Apart
    <2> HIDE DEF share, rest
    <2>2. share \o rest \in PathSeq /\ Under(share \o rest, share)
      BY <2>1, Longer
    <2>3. ~Under(host.home, share \o rest)
      BY <1>2, <2>1, <2>2, UnderOrder
    <2> QED BY <2>2, <2>3 DEF Apart
  <1>6. {host.home \o <<".local", "bin">>, host.home \o <<".config", "mise">>, share \o rest} \subseteq Tools
    BY DEF Tools
  <1> DEFINE a == RoBindTry(host.home \o <<".local", "bin">>)
             b == RoBindTry(share \o rest)
             c == RoBindTry(host.home \o <<".config", "mise">>)
  <1>7. a \in Seq(ToolSet) /\ b \in Seq(ToolSet) /\ c \in Seq(ToolSet)
    <2>1. \A p \in Apart : p \in PathSeq
      BY DEF Apart
    <2> HIDE DEF share, rest
    <2> QED BY <1>3, <1>4, <1>5, <1>6, <2>1
  <1>8. Exposed = a \o b \o c
    BY DEF Exposed
  <1> HIDE DEF a, b, c
  <1> QED BY <1>7, <1>8

\* The destinations of the two overlays.
LEMMA ResolvIs ==
    ASSUME IInv
    PROVE  /\ ResolvDest \in Apart /\ <<"etc", "hosts">> \in Apart
           /\ host.resolv # <<>> => host.resolv \in Apart
  <1>1. host \in Hosts
    BY DEF IInv, TypeOK
  <1> QED
    BY <1>1, HostIs, Spelled DEF ResolvDest, Apart

LEMMA HomeIs ==
    ASSUME IInv
    PROVE  /\ Mount("tmpfs", <<>>, host.home, TRUE) \in HomeSet
           /\ Made("tmpfs", host.home) = <<Mount("tmpfs", <<>>, host.home, TRUE)>>
  <1>1. host \in Hosts
    BY DEF IInv, TypeOK
  <1>2. host.home \in PathSeq /\ <<>> \in PathSeq
    BY <1>1, HostIs, Spelled
  <1>3. Made("tmpfs", host.home) = <<Mount("tmpfs", <<>>, host.home, TRUE)>>
    BY DEF Made
  <1> DEFINE m == Mount("tmpfs", <<>>, host.home, TRUE)
  <1>4. m \in MountSet /\ m.kind = "tmpfs" /\ m.dest = host.home
    BY <1>2 DEF Mount, MountSet
  <1>5. m \in HomeSet
    <2> HIDE DEF m
    <2> QED BY <1>4 DEF HomeSet
  <1> QED
    BY <1>3, <1>5

LEMMA ResolversAre ==
    ASSUME IInv, pc \in AfterBuild
    PROVE  /\ ResolverOps \in Seq(OverlaySet \cup ResolvSet)
           /\ Overlays => /\ ResolverOps \in Seq(OverlaySet) /\ Len(ResolverOps) = 2
                          /\ ResolverOps[1].dest = <<"etc", "hosts">> /\ ResolverOps[2].dest = ResolvDest
  <1>1. ResolvDest \in Apart /\ <<"etc", "hosts">> \in Apart /\ \A p \in Apart : p \in PathSeq
    BY ResolvIs DEF Apart
  <1>2. CASE Overlays
    <2>1. seeds.resolv = ResolvDest
      BY <1>2 DEF IInv, Overlaid, Overlays, AfterBuild, NoOverlay
    <2> DEFINE hosts == <<"etc", "hosts">>
               a == Mount("overlay", <<>>, hosts, FALSE)
               b == Mount("overlay", <<>>, ResolvDest, FALSE)
    <2>2. ASSUME NEW d \in Apart
          PROVE  Mount("overlay", <<>>, d, FALSE) \in OverlaySet /\ Mount("overlay", <<>>, d, FALSE).dest = d
      <3> DEFINE m == Mount("overlay", <<>>, d, FALSE)
      <3>1. <<>> \in PathSeq
        BY Spelled
      <3>2. m \in MountSet /\ m.kind = "overlay" /\ m.dest = d
        BY <1>1, <3>1 DEF Mount, MountSet
      <3> HIDE DEF m
      <3>3. m \in OverlaySet /\ m.dest = d
        BY <3>2 DEF OverlaySet
      <3> QED BY <3>3 DEF m
    <2>3. a \in OverlaySet /\ a.dest = hosts /\ b \in OverlaySet /\ b.dest = ResolvDest
      <3> HIDE DEF hosts
      <3>1. hosts \in Apart
        BY <1>1 DEF hosts
      <3> QED BY <1>1, <2>2, <3>1
    <2>4. ResolverOps = <<a>> \o <<b>>
      BY <1>2, <2>1 DEF ResolverOps, Made
    <2> DEFINE s == <<a>>
               t == <<b>>
    <2>5. /\ s \in Seq(OverlaySet) /\ Len(s) = 1 /\ s[1] = a
          /\ t \in Seq(OverlaySet) /\ Len(t) = 1 /\ t[1] = b
      <3> HIDE DEF a, b
      <3> QED BY <2>3
    <2> HIDE DEF a, b, s, t
    <2>6. /\ s \o t \in Seq(OverlaySet) /\ Len(s \o t) = 2
          /\ (s \o t)[1] = a /\ (s \o t)[1 + 1] = b
      BY <2>5, Joined
    <2>7. \A r \in Seq(OverlaySet) : r \in Seq(OverlaySet \cup ResolvSet)
      OBVIOUS
    <2>8. ResolverOps = s \o t
      BY <2>4 DEF s, t
    <2> QED BY <2>3, <2>6, <2>7, <2>8 DEF hosts
  <1>3. CASE ~Overlays /\ cmd.net = "host" /\ host.resolv # <<>>
    <2> DEFINE m == Mount("host", host.resolv, host.resolv, FALSE)
    <2>0. host.resolv \in Apart /\ host.resolv \in PathSeq
      BY <1>1, <1>3, ResolvIs
    <2>a. m \in MountSet /\ m.kind = "host" /\ m.src = host.resolv /\ m.dest = host.resolv /\ m.rw = FALSE
      BY <2>0 DEF Mount, MountSet
    <2>1. m \in ResolvSet
      <3> HIDE DEF m
      <3> QED BY <1>3, <2>0, <2>a DEF ResolvSet
    <2>2. ResolverOps = <<m>>
      BY <1>3 DEF ResolverOps
    <2> HIDE DEF m
    <2> QED BY <1>3, <2>1, <2>2
  <1>4. CASE ~Overlays /\ ~(cmd.net = "host" /\ host.resolv # <<>>)
    BY <1>4 DEF ResolverOps
  <1> QED
    BY <1>2, <1>3, <1>4

LEMMA DevicesAre ==
    ASSUME IInv
    PROVE  Gpu \in Seq(DeviceSet)
  <1>1. host \in Hosts
    BY DEF IInv, TypeOK
  <1> DEFINE g == host.gpus
  <1>2. /\ g \in Seq(PathSeq)
        /\ \A i \in DOMAIN g : /\ Len(g[i]) = 2 /\ g[i][1] = "dev" /\ g[i] \in PathSeq
                               /\ ~Under(host.home, g[i]) /\ ~Under(host.resolv, g[i])
    BY <1>1, HostIs
  <1>3. DOMAIN g = 1..Len(g) /\ Len(g) \in Nat
    <2> HIDE DEF g
    <2> QED BY <1>2
  <1>4. ASSUME NEW i \in DOMAIN g
        PROVE  Mount("device", <<>>, g[i], FALSE) \in DeviceSet
    <2>1. ASSUME NEW p \in {<<"etc", "hosts">>, <<"etc", "resolv.conf">>} PROVE ~Under(p, g[i])
      <3>0. p \in PathSeq /\ p[1] = "etc"
        BY Spelled
      <3>a. g[i] \in PathSeq /\ Len(g[i]) = 2 /\ g[i][1] = "dev"
        <4> HIDE DEF g
        <4> QED BY <1>2
      <3>1. p \in PathSeq /\ p[1] = "etc" /\ g[i] \in PathSeq /\ Len(g[i]) = 2 /\ g[i][1] = "dev"
        BY <3>0, <3>a
      <3>2. Under(p, g[i]) => \A j \in 1..Len(g[i]) : p[j] = g[i][j]
        BY <3>1, UnderIs
      <3> HIDE DEF g
      <3>3. 1 \in 1..Len(g[i])
        BY <3>1
      <3> QED BY <3>1, <3>2, <3>3
    <2>2. ~Under(ResolvDest, g[i])
      BY <1>2, <2>1 DEF ResolvDest
    <2>3. g[i] \in Apart /\ g[i] \in PathSeq /\ <<>> \in PathSeq
      BY <1>2, Spelled DEF Apart
    <2> DEFINE m == Mount("device", <<>>, g[i], FALSE)
    <2> HIDE DEF g
    <2>4. m \in MountSet /\ m.kind = "device" /\ m.dest = g[i]
      BY <2>3 DEF Mount, MountSet
    <2> HIDE DEF m
    <2>5. m \in DeviceSet
      BY <2>1, <2>2, <2>3, <2>4 DEF DeviceSet
    <2> QED BY <2>5 DEF m
  <1> DEFINE f == [i \in DOMAIN g |-> Mount("device", <<>>, g[i], FALSE)]
  <1>5. f \in [1..Len(g) -> DeviceSet]
    BY <1>3, <1>4
  <1>6. f \in Seq(DeviceSet)
    <2> HIDE DEF f
    <2> QED BY <1>3, <1>5
  <1>7. Gpu = f \/ Gpu = <<>>
    BY DEF Gpu
  <1> HIDE DEF f, g
  <1>8. <<>> \in Seq(DeviceSet)
    OBVIOUS
  <1> QED BY <1>6, <1>7, <1>8

LEMMA WorkspacesAre ==
    ASSUME IInv, pc \in AfterMasking
    PROVE  /\ Len(workspaces) \in Nat \ {0} /\ DOMAIN workspaces = 1..Len(workspaces)
           /\ \A i \in DOMAIN workspaces : workspaces[i].path \in Apart /\ workspaces[i].ro \in BOOLEAN
  <1>1. /\ cmd \in Commands /\ host \in Hosts /\ ~Masking
        /\ workspaces = [i \in DOMAIN Asked |-> [Asked[i] EXCEPT !.path = Canonical(@)]]
    BY DEF IInv, TypeOK, Unmasked, Pinned, AfterMasking
  <1> DEFINE R == [path : Path, ro : BOOLEAN]
             only == [path |-> host.cwd, ro |-> FALSE]
  <1>2. Asked \in Seq(R) /\ Asked # <<>>
    <2>1. cmd.workspaces \in Seq(R) /\ host.cwd \in Path
      BY <1>1, CommandIs, HostIs
    <2>2. only \in R
      BY <2>1
    <2>3. <<only>> \in Seq(R) /\ <<only>> # <<>>
      <3> HIDE DEF only, R
      <3> QED BY <2>2
    <2>4. Asked = IF cmd.workspaces = <<>> THEN <<only>> ELSE cmd.workspaces
      BY DEF Asked
    <2> HIDE DEF only, R
    <2> QED BY <2>1, <2>3, <2>4
  <1>3. \A r \in R : /\ r.path \in Path /\ r.ro \in BOOLEAN
                     /\ [r EXCEPT !.path = Canonical(@)] = [path |-> Canonical(r.path), ro |-> r.ro]
    OBVIOUS
  <1> HIDE DEF R
  <1> DEFINE A == Asked
  <1>4. DOMAIN A = 1..Len(A) /\ Len(A) \in Nat \ {0} /\ \A i \in DOMAIN A : A[i] \in R
    <2> HIDE DEF A
    <2>1. A \in Seq(R) /\ A # <<>>
      BY <1>2 DEF A
    <2> QED BY <2>1
  <1>5. \A i \in DOMAIN A : workspaces[i] = [path |-> Canonical(A[i].path), ro |-> A[i].ro]
    BY <1>1, <1>3, <1>4
  <1>6. DOMAIN workspaces = 1..Len(A)
    BY <1>1, <1>4
  <1>7. Len(workspaces) = Len(A)
    <2> HIDE DEF A
    <2> QED BY <1>1, <1>4, <1>6
  <1>8. ASSUME NEW i \in DOMAIN workspaces
        PROVE  workspaces[i].path \in Apart /\ workspaces[i].ro \in BOOLEAN
    <2>1. workspaces[i].path = Canonical(A[i].path) /\ workspaces[i].ro = A[i].ro /\ A[i] \in R
      BY <1>4, <1>5, <1>6
    <2>2. Canonical(A[i].path) \in PathSeq
      BY <1>1, <1>3, <2>1, HostIs, PathsAre DEF Canonical
    <2>3. ~Under(host.home, workspaces[i].path)
      BY <1>1 DEF Masking, MasksHome
    <2> QED BY <1>3, <2>1, <2>2, <2>3 DEF Apart
  <1> QED
    BY <1>4, <1>6, <1>7, <1>8

LEMMA WorkspaceOpsAre ==
    ASSUME IInv, pc \in AfterBuild
    PROVE  WorkspaceOps \in Seq(WorkSet) /\ Len(WorkspaceOps) = Len(workspaces)
  <1>1. /\ Len(workspaces) \in Nat \ {0} /\ DOMAIN workspaces = 1..Len(workspaces)
        /\ \A i \in DOMAIN workspaces : workspaces[i].path \in Apart /\ workspaces[i].ro \in BOOLEAN
    BY WorkspacesAre DEF AfterBuild, AfterEgress, AfterSeeds, AfterEnvs
  <1> DEFINE f == WorkspaceOps
             n == Len(workspaces)
  <1>2. ASSUME NEW i \in 1..n PROVE f[i] \in WorkSet
    <2> DEFINE p == workspaces[i].path
               rw == ~workspaces[i].ro
               m == Mount("host", p, p, rw)
    <2>1. p \in Apart /\ p \in PathSeq /\ rw \in BOOLEAN
      BY <1>1 DEF Apart
    <2>2. m \in MountSet /\ m.kind = "host" /\ m.src = p /\ m.dest = p /\ m.rw = rw
      <3> HIDE DEF p, rw
      <3> QED BY <2>1 DEF Mount, MountSet
    <2>3. f[i] = m
      BY <1>1 DEF WorkspaceOps
    <2>4. \E j \in DOMAIN workspaces : m.dest = workspaces[j].path /\ m.rw = ~workspaces[j].ro
      BY <1>1, <2>2
    <2> HIDE DEF m, f
    <2>5. m \in WorkSet
      BY <2>1, <2>2, <2>4 DEF WorkSet
    <2> QED BY <2>3, <2>5
  <1>3. DOMAIN f = 1..n
    BY <1>1 DEF WorkspaceOps
  <1>4. f = [i \in 1..n |-> f[i]]
    BY <1>3 DEF WorkspaceOps
  <1> HIDE DEF f, n
  <1>5. f \in [1..n -> WorkSet] /\ n \in Nat
    BY <1>1, <1>2, <1>4 DEF n
  <1>6. f \in Seq(WorkSet) /\ Len(f) = n
    BY <1>5
  <1> QED
    BY <1>6 DEF f, n

LEMMA ListIs ==
    ASSUME NEW n \in Nat, NEW S, NEW f \in [1..n -> S]
    PROVE  f \in Seq(S) /\ Len(f) = n
  OBVIOUS

\* What the environment's part holds, and what it sets.
QuietSet == FlagSet \cup OwnSet \cup CallerSet

LEMMA FlagIs ==
    ASSUME NEW name \in {"uid", IF ShareNet THEN "share-net" ELSE "unshare-net", "clearenv"}
    PROVE  Flag(name) \in Seq(FlagSet) /\ Len(Flag(name)) = 1 /\ Flag(name)[1].op = name
  <1> DEFINE o == [op |-> name]
  <1>1. o \in FlagSet /\ o.op = name
    BY DEF FlagSet
  <1>2. Flag(name) = <<o>>
    BY DEF Flag
  <1> HIDE DEF o
  <1> QED BY <1>1, <1>2

LEMMA EnvIs ==
    ASSUME IInv, pc \in AfterBuild
    PROVE  /\ EnvOps \in Seq(QuietSet)
           /\ \A key \in Reserved : \E i \in 1..Len(EnvOps) : EnvOps[i].op = "setenv" /\ EnvOps[i].key = key
  <1>1. cmd \in Commands /\ \A i \in DOMAIN cmd.envs : EnvOk(cmd.envs[i])
    BY DEF IInv, TypeOK, Vetted, AfterBuild, AfterEgress, AfterSeeds
  <1> DEFINE F == Flag("clearenv")
             O == [i \in DOMAIN Own |-> SetEnv(Own[i], "basta")]
             C == [i \in DOMAIN cmd.envs |-> SetEnv(cmd.envs[i].key, "caller")]
             es == cmd.envs
  <1>2. F \in Seq(QuietSet) /\ Len(F) = 1
    <2>1. F \in Seq(FlagSet) /\ Len(F) = 1
      BY FlagIs
    <2> HIDE DEF F
    <2>2. \A s \in Seq(FlagSet) : s \in Seq(QuietSet)
      BY DEF QuietSet
    <2> QED BY <2>1, <2>2
  <1>3. /\ O \in Seq(QuietSet) /\ Len(O) = 8
        /\ \A key \in Reserved : \E i \in 1..Len(O) : O[i].op = "setenv" /\ O[i].key = key
    <2>1. DOMAIN Own = 1..8 /\ \A i \in 1..8 : Own[i] \in Reserved
      BY DEF Own, Reserved
    <2>2. \A key \in Reserved : \E i \in 1..8 : Own[i] = key
      <3>1. /\ Own[1] = "HOME" /\ Own[2] = "USER" /\ Own[3] = "LOGNAME" /\ Own[4] = "TERM"
            /\ Own[5] = "LANG" /\ Own[6] = "LC_ALL" /\ Own[7] = "PATH" /\ Own[8] = "XDG_RUNTIME_DIR"
        BY DEF Own
      <3>2. {1, 2, 3, 4, 5, 6, 7, 8} \subseteq 1..8
        OBVIOUS
      <3> QED BY <3>1, <3>2 DEF Reserved
    <2>3. \A i \in 1..8 : O[i] \in QuietSet /\ O[i].op = "setenv" /\ O[i].key = Own[i]
      BY <2>1 DEF SetEnv, QuietSet, OwnSet
    <2>4. O \in [1..8 -> QuietSet]
      BY <2>1, <2>3
    <2> HIDE DEF O
    <2>5. O \in Seq(QuietSet) /\ Len(O) = 8
      <3>1. 8 \in Nat
        OBVIOUS
      <3> QED BY <2>4, <3>1, ListIs
    <2> QED BY <2>2, <2>3, <2>5
  <1>4. C \in Seq(QuietSet)
    <2> DEFINE E == [key : STRING, valid : BOOLEAN, pass : BOOLEAN]
    <2>1. es \in Seq(E)
      BY <1>1, CommandIs
    <2>2. \A e \in E : e.key \in STRING
      OBVIOUS
    <2>3. DOMAIN es = 1..Len(es) /\ Len(es) \in Nat /\ \A i \in DOMAIN es : es[i] \in E
      <3> HIDE DEF es, E
      <3> QED BY <2>1
    <2>4. ASSUME NEW i \in DOMAIN es PROVE SetEnv(es[i].key, "caller") \in QuietSet
      <3>1. es[i].key \in STRING \ Reserved
        BY <1>1, <2>2, <2>3 DEF EnvOk
      <3> QED BY <3>1 DEF SetEnv, QuietSet, CallerSet
    <2>5. C \in [1..Len(es) -> QuietSet]
      BY <2>3, <2>4
    <2> HIDE DEF C, es
    <2> QED BY <2>3, <2>5
  <1>5. EnvOps = F \o O \o C
    BY DEF EnvOps
  <1> HIDE DEF F, O, C
  <1> DEFINE FO == F \o O
  <1>a. F \in Seq(QuietSet) /\ O \in Seq(QuietSet)
    BY <1>2, <1>3
  <1>b. /\ FO \in Seq(QuietSet) /\ Len(FO) = Len(F) + Len(O)
        /\ \A i \in 1..Len(O) : FO[i + Len(F)] = O[i]
    BY <1>a, Joined
  <1> HIDE DEF FO
  <1>c. FO \in Seq(QuietSet)
    BY <1>b
  <1>7. /\ FO \o C \in Seq(QuietSet) /\ Len(FO \o C) = Len(FO) + Len(C)
        /\ \A i \in 1..Len(FO) : (FO \o C)[i] = FO[i]
    BY <1>4, <1>c, Joined
  <1> DEFINE m == Len(FO)
             n == Len(O)
             k == Len(F)
  <1>d. m = k + n /\ k = 1 /\ n = 8 /\ \A i \in 1..n : FO[i + k] = O[i]
    BY <1>b, <1>2, <1>3
  <1> HIDE DEF m, n, k
  <1>6. m = 9 /\ \A i \in 1..8 : FO[i + 1] = O[i]
    BY <1>d
  <1>8. EnvOps = FO \o C
    BY <1>5 DEF FO
  <1>9. Len(C) \in Nat
    BY <1>4
  <1>10. ASSUME NEW key \in Reserved
         PROVE  \E i \in 1..Len(EnvOps) : EnvOps[i].op = "setenv" /\ EnvOps[i].key = key
    <2>1. PICK i \in 1..8 : O[i].op = "setenv" /\ O[i].key = key
      BY <1>3
    <2>2. i + 1 \in 1..m /\ FO[i + 1] = O[i]
      BY <1>6
    <2>3. i + 1 \in 1..(m + Len(C))
      BY <1>6, <1>9, <2>2
    <2>4. EnvOps[i + 1] = O[i]
      BY <1>7, <1>8, <2>2 DEF m
    <2>5. Len(EnvOps) = m + Len(C)
      BY <1>7, <1>8 DEF m
    <2> QED BY <2>1, <2>3, <2>4, <2>5
  <1> QED
    BY <1>7, <1>8, <1>10

-----------------------------------------------------------------------------
(* The arguments as far as each part, and what may come behind.            *)

LateSet == DeviceSet \cup WorkSet \cup QuietSet
OverSet == PersistSet \cup ToolSet \cup OverlaySet \cup ResolvSet \cup LateSet
OpSet == SystemSet \cup HomeSet \cup SeedSet \cup OverSet

AtHome == System \o Made("tmpfs", host.home)
AtSeeds == AtHome \o SeedOps
AtPersist == AtSeeds \o PersistOps
AtTools == AtPersist \o Exposed
AtResolv == AtTools \o ResolverOps
AtUid == AtResolv \o Flag("uid")
AtNet == AtUid \o Flag(IF ShareNet THEN "share-net" ELSE "unshare-net")
AtGpu == AtNet \o Gpu
AtWork == AtGpu \o WorkspaceOps
AtEnv == AtWork \o EnvOps

LEMMA Wider ==
    ASSUME NEW S, NEW B, B \subseteq S, NEW s \in Seq(B)
    PROVE  s \in Seq(S)
  OBVIOUS

LEMMA GoesOnOne ==
    ASSUME NEW S, NEW B \in SUBSET S, NEW s \in Seq(S), NEW t \in Seq(B)
    PROVE  s \o t \in Seq(S) /\ GoesOn(s, s \o t, B)
  <1>1. GoesOn(s, s, B)
    BY GoesOnNowhere
  <1> QED BY <1>1, GoesOnFurther

LEMMA PartsGoOn ==
    ASSUME IInv, pc \in AfterBuild
    PROVE  /\ System \in Seq(SystemSet) /\ AtHome \in Seq(OpSet) /\ GoesOn(System, AtHome, HomeSet)
           /\ AtSeeds \in Seq(OpSet) /\ GoesOn(AtHome, AtSeeds, SeedSet)
           /\ AtPersist \in Seq(OpSet) /\ GoesOn(AtSeeds, AtPersist, PersistSet)
           /\ AtTools \in Seq(OpSet) /\ GoesOn(AtPersist, AtTools, ToolSet)
           /\ AtResolv \in Seq(OpSet) /\ GoesOn(AtTools, AtResolv, OverlaySet \cup ResolvSet)
           /\ AtUid \in Seq(OpSet) /\ GoesOn(AtResolv, AtUid, FlagSet)
           /\ AtNet \in Seq(OpSet) /\ GoesOn(AtUid, AtNet, FlagSet)
           /\ AtGpu \in Seq(OpSet) /\ GoesOn(AtNet, AtGpu, DeviceSet)
           /\ AtWork \in Seq(OpSet) /\ GoesOn(AtGpu, AtWork, WorkSet)
           /\ AtEnv \in Seq(OpSet) /\ GoesOn(AtWork, AtEnv, QuietSet)
  <1>1. /\ SystemSet \in SUBSET OpSet /\ HomeSet \in SUBSET OpSet /\ SeedSet \in SUBSET OpSet
        /\ PersistSet \in SUBSET OpSet /\ ToolSet \in SUBSET OpSet
        /\ OverlaySet \cup ResolvSet \in SUBSET OpSet
        /\ FlagSet \in SUBSET OpSet /\ DeviceSet \in SUBSET OpSet /\ WorkSet \in SUBSET OpSet
        /\ QuietSet \in SUBSET OpSet
    BY DEF OpSet, OverSet, LateSet, QuietSet
  <1>2. System \in Seq(SystemSet) /\ System \in Seq(OpSet)
    BY <1>1, SystemIs, Wider
  <1>3. AtHome \in Seq(OpSet) /\ GoesOn(System, AtHome, HomeSet)
    <2> DEFINE m == Mount("tmpfs", <<>>, host.home, TRUE)
    <2>1. m \in HomeSet /\ Made("tmpfs", host.home) = <<m>>
      BY HomeIs
    <2>2. Made("tmpfs", host.home) \in Seq(HomeSet)
      <3> HIDE DEF m
      <3> QED BY <2>1, One
    <2> QED BY <1>1, <1>2, <2>2, GoesOnOne DEF AtHome
  <1>4. AtSeeds \in Seq(OpSet) /\ GoesOn(AtHome, AtSeeds, SeedSet)
    BY <1>1, <1>3, SeedsAre, GoesOnOne DEF AtSeeds
  <1>5. AtPersist \in Seq(OpSet) /\ GoesOn(AtSeeds, AtPersist, PersistSet)
    BY <1>1, <1>4, PersistsAre, GoesOnOne DEF AtPersist
  <1>6. AtTools \in Seq(OpSet) /\ GoesOn(AtPersist, AtTools, ToolSet)
    BY <1>1, <1>5, ExposedIs, GoesOnOne DEF AtTools
  <1>7. AtResolv \in Seq(OpSet) /\ GoesOn(AtTools, AtResolv, OverlaySet \cup ResolvSet)
    BY <1>1, <1>6, ResolversAre, GoesOnOne DEF AtResolv
  <1>8. AtUid \in Seq(OpSet) /\ GoesOn(AtResolv, AtUid, FlagSet)
    <2>1. Flag("uid") \in Seq(FlagSet)
      BY FlagIs
    <2> QED BY <1>1, <1>7, <2>1, GoesOnOne DEF AtUid
  <1>9. AtNet \in Seq(OpSet) /\ GoesOn(AtUid, AtNet, FlagSet)
    <2>1. Flag(IF ShareNet THEN "share-net" ELSE "unshare-net") \in Seq(FlagSet)
      BY FlagIs
    <2> QED BY <1>1, <1>8, <2>1, GoesOnOne DEF AtNet
  <1>10. AtGpu \in Seq(OpSet) /\ GoesOn(AtNet, AtGpu, DeviceSet)
    BY <1>1, <1>9, DevicesAre, GoesOnOne DEF AtGpu
  <1>11. AtWork \in Seq(OpSet) /\ GoesOn(AtGpu, AtWork, WorkSet)
    BY <1>1, <1>10, WorkspaceOpsAre, GoesOnOne DEF AtWork
  <1>12. AtEnv \in Seq(OpSet) /\ GoesOn(AtWork, AtEnv, QuietSet)
    BY <1>1, <1>11, EnvIs, GoesOnOne DEF AtEnv
  <1> QED
    BY <1>2, <1>3, <1>4, <1>5, <1>6, <1>7, <1>8, <1>9, <1>10, <1>11, <1>12

LEMMA GoesOnWider ==
    ASSUME NEW s, NEW r, NEW B, NEW C, GoesOn(s, r, B), B \subseteq C
    PROVE  GoesOn(s, r, C)
  BY DEF GoesOn

\* What lies behind each part.
LEMMA Behind ==
    ASSUME IInv, pc \in AfterBuild
    PROVE  /\ ops = AtEnv /\ ops \in Seq(OpSet)
           /\ GoesOn(AtWork, ops, QuietSet) /\ GoesOn(AtResolv, ops, LateSet)
           /\ GoesOn(AtSeeds, ops, OverSet)
           /\ GoesOn(AtUid, ops, OpSet) /\ GoesOn(AtNet, ops, OpSet)
  <1>g. /\ AtEnv \in Seq(OpSet) /\ GoesOn(AtWork, AtEnv, QuietSet) /\ GoesOn(AtGpu, AtWork, WorkSet)
        /\ GoesOn(AtNet, AtGpu, DeviceSet) /\ GoesOn(AtUid, AtNet, FlagSet)
        /\ GoesOn(AtResolv, AtUid, FlagSet) /\ GoesOn(AtTools, AtResolv, OverlaySet \cup ResolvSet)
        /\ GoesOn(AtPersist, AtTools, ToolSet) /\ GoesOn(AtSeeds, AtPersist, PersistSet)
    BY PartsGoOn
  <1>1. ops = AtEnv
    <2>1. ops = Arguments
      BY DEF IInv, Listed
    <2>2. HomeOps = SeedOps \o PersistOps
      BY DEF HomeOps
    <2>3. AtHome \in Seq(OpSet) /\ SeedOps \in Seq(OpSet) /\ PersistOps \in Seq(OpSet)
      BY PartsGoOn, SeedsAre, PersistsAre, Wider DEF OpSet, OverSet
    <2>4. AtHome \o (SeedOps \o PersistOps) = AtPersist
      <3>1. AtHome \o (SeedOps \o PersistOps) = (AtHome \o SeedOps) \o PersistOps
        <4> HIDE DEF OpSet
        <4> QED BY <2>3, Append3
      <3> QED BY <3>1 DEF AtPersist, AtSeeds
    <2> QED
      BY <2>1, <2>2, <2>4 DEF Arguments, AtHome, AtTools, AtResolv, AtUid, AtNet, AtGpu, AtWork, AtEnv
  <1>2. GoesOn(AtWork, ops, QuietSet)
    BY <1>1, <1>g
  <1>s. /\ QuietSet \subseteq LateSet /\ WorkSet \subseteq LateSet /\ DeviceSet \subseteq LateSet
        /\ FlagSet \subseteq LateSet /\ LateSet \subseteq OverSet /\ OverlaySet \cup ResolvSet \subseteq OverSet
        /\ ToolSet \subseteq OverSet /\ PersistSet \subseteq OverSet /\ LateSet \subseteq OpSet
    BY DEF OpSet, OverSet, LateSet, QuietSet
  <1>c. \A a, b, c, B : GoesOn(a, b, B) /\ GoesOn(b, c, B) => GoesOn(a, c, B)
    <2>1. \A B : B \cup B = B
      OBVIOUS
    <2> QED BY <2>1, GoesOnThen
  <1>3. GoesOn(AtGpu, ops, LateSet)
    <2>1. GoesOn(AtGpu, AtWork, LateSet)
      BY <1>g, <1>s, GoesOnWider
    <2>2. GoesOn(AtWork, ops, LateSet)
      BY <1>2, <1>s, GoesOnWider
    <2> QED BY <2>1, <2>2, <1>c
  <1>4. GoesOn(AtNet, ops, LateSet)
    <2>1. GoesOn(AtNet, AtGpu, LateSet)
      BY <1>g, <1>s, GoesOnWider
    <2>2. GoesOn(AtGpu, ops, LateSet)
      BY <1>3, <1>s, GoesOnWider
    <2> QED BY <2>1, <2>2, <1>c
  <1>5. GoesOn(AtUid, ops, LateSet)
    <2>1. GoesOn(AtUid, AtNet, LateSet)
      BY <1>g, <1>s, GoesOnWider
    <2>2. GoesOn(AtNet, ops, LateSet)
      BY <1>4, <1>s, GoesOnWider
    <2> QED BY <2>1, <2>2, <1>c
  <1>6. GoesOn(AtResolv, ops, LateSet)
    <2>1. GoesOn(AtResolv, AtUid, LateSet)
      BY <1>g, <1>s, GoesOnWider
    <2>2. GoesOn(AtUid, ops, LateSet)
      BY <1>5, <1>s, GoesOnWider
    <2> QED BY <2>1, <2>2, <1>c
  <1>7. GoesOn(AtTools, ops, OverSet)
    <2>1. GoesOn(AtTools, AtResolv, OverSet)
      BY <1>g, <1>s, GoesOnWider
    <2>2. GoesOn(AtResolv, ops, OverSet)
      BY <1>6, <1>s, GoesOnWider
    <2> QED BY <2>1, <2>2, <1>c
  <1>8. GoesOn(AtPersist, ops, OverSet)
    <2>1. GoesOn(AtPersist, AtTools, OverSet)
      BY <1>g, <1>s, GoesOnWider
    <2>2. GoesOn(AtTools, ops, OverSet)
      BY <1>7, <1>s, GoesOnWider
    <2> QED BY <2>1, <2>2, <1>c
  <1>9. GoesOn(AtSeeds, ops, OverSet)
    <2>1. GoesOn(AtSeeds, AtPersist, OverSet)
      BY <1>g, <1>s, GoesOnWider
    <2>2. GoesOn(AtPersist, ops, OverSet)
      BY <1>8, <1>s, GoesOnWider
    <2> QED BY <2>1, <2>2, <1>c
  <1>10. GoesOn(AtUid, ops, OpSet) /\ GoesOn(AtNet, ops, OpSet)
    BY <1>4, <1>5, <1>s, GoesOnWider
  <1> QED
    BY <1>1, <1>2, <1>6, <1>9, <1>10, <1>g

-----------------------------------------------------------------------------
(* What the properties need of it.                                         *)

\* The home is made over the system and under all else; what is seeded is
\* put right into it.
LEMMA HomeLayout ==
    ASSUME IInv, pc \in AfterBuild
    PROVE  /\ ops \in Seq(OpSet) /\ Len(ops) \in Nat
           /\ \E h \in 1..Len(ops), n \in Nat :
                 /\ ops[h] \in HomeSet /\ h <= n
                 /\ \A i \in 1..Len(ops) :
                       /\ i < h => ops[i] \in SystemSet
                       /\ h < i /\ i <= n => ops[i] \in SeedSet
                       /\ n < i => ops[i] \in OverSet
  <1> DEFINE k == Len(System)
             h == Len(AtHome)
             n == Len(AtSeeds)
             L == Len(ops)
  <1>1. /\ ops \in Seq(OpSet) /\ GoesOn(AtSeeds, ops, OverSet)
        /\ GoesOn(AtHome, AtSeeds, SeedSet) /\ GoesOn(System, AtHome, HomeSet) /\ System \in Seq(SystemSet)
    BY Behind, PartsGoOn
  <1>2. h = k + 1
    <2> DEFINE m == Mount("tmpfs", <<>>, host.home, TRUE)
               s == <<m>>
    <2>1. m \in HomeSet /\ Made("tmpfs", host.home) = s
      BY HomeIs
    <2> HIDE DEF m
    <2>2. s \in Seq(OpSet) /\ Len(s) = 1
      BY <2>1 DEF OpSet
    <2> HIDE DEF s
    <2>3. System \in Seq(OpSet)
      BY <1>1, Wider DEF OpSet
    <2>4. Len(System \o s) = Len(System) + Len(s)
      BY <2>2, <2>3, Joined
    <2> QED BY <2>1, <2>2, <2>4 DEF AtHome
  <1>3. /\ k \in Nat /\ h \in Nat /\ n \in Nat /\ L \in Nat /\ k <= h /\ h <= n /\ n <= L
    BY <1>1 DEF GoesOn
  <1>4. \A i \in 1..k : i \in 1..h /\ i \in 1..n /\ i \in 1..L
    <2> HIDE DEF k, h, n, L
    <2> QED BY <1>3
  <1>5. \A i \in 1..h : i \in 1..n /\ i \in 1..L
    <2> HIDE DEF k, h, n, L
    <2> QED BY <1>3
  <1>6. \A i \in 1..k : ops[i] \in SystemSet
    <2>1. \A i \in 1..k : ops[i] = AtSeeds[i] /\ AtSeeds[i] = AtHome[i] /\ AtHome[i] = System[i]
      BY <1>1, <1>4 DEF GoesOn
    <2>2. \A i \in 1..k : System[i] \in SystemSet
      BY <1>1
    <2> QED BY <2>1, <2>2
  <1>7. h \in 1..h /\ h > k /\ h \in 1..L
    <2> HIDE DEF k, h, n, L
    <2> QED BY <1>2, <1>3
  <1>8. ops[h] \in HomeSet
    <2>1. ops[h] = AtSeeds[h] /\ AtSeeds[h] = AtHome[h] /\ AtHome[h] \in HomeSet
      BY <1>1, <1>5, <1>7 DEF GoesOn
    <2> QED BY <2>1
  <1>9. ASSUME NEW i \in 1..L, h < i, i <= n PROVE ops[i] \in SeedSet
    <2>1. i \in 1..n
      <3> HIDE DEF k, h, n, L
      <3> QED BY <1>3, <1>9
    <2> QED BY <1>1, <1>9, <2>1 DEF GoesOn
  <1>10. ASSUME NEW i \in 1..L, n < i PROVE ops[i] \in OverSet
    <2>1. i > n
      <3> HIDE DEF k, h, n, L
      <3> QED BY <1>3, <1>10
    <2> QED BY <1>1, <2>1 DEF GoesOn
  <1>11. \A i \in 1..L : i < h => i \in 1..k
    <2> HIDE DEF k, h, n, L
    <2> QED BY <1>2, <1>3
  <1> HIDE DEF k, h, n
  <1> QED
    BY <1>1, <1>3, <1>6, <1>7, <1>8, <1>9, <1>10, <1>11

\* Over the two files of the resolver lie only devices and workspaces.
LEMMA OverlayLayout ==
    ASSUME IInv, pc \in AfterBuild, Overlays, NEW d \in {<<"etc", "hosts">>, ResolvDest}
    PROVE  \E o \in 1..Len(ops) :
              /\ ops[o] \in OverlaySet /\ ops[o].dest = d
              /\ \A i \in 1..Len(ops) : o < i => ops[i] \in OverlaySet \cup LateSet
  <1> DEFINE t == Len(AtTools)
             r == Len(AtResolv)
             L == Len(ops)
             R == ResolverOps
  <1>1. /\ ResolverOps \in Seq(OverlaySet) /\ Len(ResolverOps) = 2
        /\ ResolverOps[1].dest = <<"etc", "hosts">> /\ ResolverOps[2].dest = ResolvDest
    BY ResolversAre
  <1>2. AtTools \in Seq(OpSet) /\ GoesOn(AtResolv, ops, LateSet)
    BY PartsGoOn, Behind
  <1>3. R \in Seq(OpSet)
    <2>1. OverlaySet \subseteq OpSet
      BY DEF OpSet, OverSet
    <2> QED BY <1>1, <2>1, Wider
  <1>4. /\ Len(AtResolv) = Len(AtTools) + Len(R)
        /\ \A i \in 1..Len(R) : AtResolv[i + Len(AtTools)] = R[i]
    <2> HIDE DEF R
    <2>1. AtResolv = AtTools \o R
      BY DEF AtResolv, R
    <2> QED BY <1>2, <1>3, <2>1, Joined
  <1>5. t \in Nat /\ r \in Nat /\ L \in Nat /\ r <= L
    BY <1>2 DEF GoesOn
  <1>6. r = t + 2 /\ AtResolv[1 + t] = R[1] /\ AtResolv[2 + t] = R[2]
    <2> DEFINE two == Len(R)
    <2>1. two = 2 /\ r = t + two /\ \A i \in 1..two : AtResolv[i + t] = R[i]
      BY <1>1, <1>4
    <2> HIDE DEF R, two, t, r
    <2> QED BY <2>1
  <1>7. ASSUME NEW j \in {1, 2}
        PROVE  /\ j + t \in 1..r /\ j + t \in 1..L /\ ops[j + t] = R[j] /\ R[j] \in OverlaySet
    <2>1. j + t \in 1..r /\ j + t \in 1..L
      <3> HIDE DEF t, r, L
      <3> QED BY <1>5, <1>6
    <2>2. ops[j + t] = AtResolv[j + t]
      BY <1>2, <2>1 DEF GoesOn
    <2>3. R[j] \in OverlaySet
      <3>1. j \in 1..2
        OBVIOUS
      <3> DEFINE two == Len(R)
      <3>2. two = 2 /\ \A i \in 1..two : R[i] \in OverlaySet
        BY <1>1
      <3> HIDE DEF R, two
      <3> QED BY <3>1, <3>2
    <2> QED BY <1>6, <2>1, <2>2, <2>3
  <1>8. \A i \in 1..L : i > r => ops[i] \in LateSet
    BY <1>2 DEF GoesOn
  <1>9. \A i \in 1..L : 1 + t < i => i = 2 + t \/ i > r
    <2> HIDE DEF t, r, L
    <2> QED BY <1>5, <1>6
  <1>10. \A i \in 1..L : 2 + t < i => i > r
    <2> HIDE DEF t, r, L
    <2> QED BY <1>5, <1>6
  <1>11. CASE d = <<"etc", "hosts">>
    <2>1. ops[1 + t].dest = d /\ ops[1 + t] \in OverlaySet /\ 1 + t \in 1..L
      BY <1>1, <1>7, <1>11
    <2>2. \A i \in 1..L : 1 + t < i => ops[i] \in OverlaySet \cup LateSet
      BY <1>7, <1>8, <1>9
    <2> HIDE DEF t
    <2> QED BY <2>1, <2>2
  <1>12. CASE d = ResolvDest
    <2>1. ops[2 + t].dest = d /\ ops[2 + t] \in OverlaySet /\ 2 + t \in 1..L
      BY <1>1, <1>7, <1>12
    <2>2. \A i \in 1..L : 2 + t < i => ops[i] \in OverlaySet \cup LateSet
      BY <1>8, <1>10
    <2> HIDE DEF t
    <2> QED BY <2>1, <2>2
  <1> QED
    BY <1>11, <1>12

\* The workspaces are mounted in their order, over everything else.
LEMMA WorkLayout ==
    ASSUME IInv, pc \in AfterBuild
    PROVE  \E w \in Nat :
              /\ \A i \in 1..Len(workspaces) :
                    w + i \in 1..Len(ops) /\ ops[w + i] = WorkspaceOps[i]
              /\ \A j \in 1..Len(ops) :
                    w < j => ops[j] \in QuietSet \/ j - w \in 1..Len(workspaces)
  <1> DEFINE w == Len(AtGpu)
             z == Len(AtWork)
             L == Len(ops)
             n == Len(workspaces)
  <1>1. /\ AtGpu \in Seq(OpSet) /\ GoesOn(AtWork, ops, QuietSet)
        /\ WorkspaceOps \in Seq(OpSet) /\ Len(WorkspaceOps) = n
    <2>1. WorkSet \subseteq OpSet
      BY DEF OpSet, OverSet, LateSet
    <2> QED BY <2>1, PartsGoOn, Behind, WorkspaceOpsAre, Wider
  <1>2. /\ z = w + Len(WorkspaceOps)
        /\ \A i \in 1..Len(WorkspaceOps) : AtWork[i + w] = WorkspaceOps[i]
    <2>1. AtGpu \in Seq(OpSet) /\ WorkspaceOps \in Seq(OpSet)
      BY <1>1
    <2> QED BY <2>1, Joined DEF AtWork
  <1>3. z = w + n /\ \A i \in 1..n : AtWork[i + w] = WorkspaceOps[i]
    BY <1>1, <1>2
  <1>4. w \in Nat /\ z \in Nat /\ L \in Nat /\ z <= L /\ n \in Nat
    <2>1. WorkspaceOps \in Seq(OpSet)
      BY <1>1
    <2>2. Len(WorkspaceOps) \in Nat
      BY <2>1
    <2> QED BY <1>1, <2>2 DEF GoesOn
  <1>5. /\ \A i \in 1..z : ops[i] = AtWork[i]
        /\ \A i \in 1..L : i > z => ops[i] \in QuietSet
    BY <1>1 DEF GoesOn
  <1> HIDE DEF w, z, L, n
  <1>6. ASSUME NEW i \in 1..n PROVE w + i \in 1..L /\ ops[w + i] = WorkspaceOps[i]
    <2>1. w + i \in 1..z /\ w + i \in 1..L /\ w + i = i + w
      BY <1>3, <1>4
    <2> QED BY <1>3, <1>5, <2>1
  <1>7. ASSUME NEW j \in 1..L, w < j PROVE ops[j] \in QuietSet \/ j - w \in 1..n
    <2>1. j > z \/ j - w \in 1..n
      BY <1>3, <1>4, <1>7
    <2> QED BY <1>5, <2>1
  <1> QED
    BY <1>4, <1>6, <1>7 DEF L, n

\* The uid is set, and the network shared or not.
LEMMA FlagLayout ==
    ASSUME IInv, pc \in AfterBuild
    PROVE  Has("uid") /\ (Has("share-net") <=> ShareNet)
  <1>1. ASSUME NEW s \in Seq(OpSet), NEW name,
               name \in {"uid", IF ShareNet THEN "share-net" ELSE "unshare-net", "clearenv"},
               GoesOn(s \o Flag(name), ops, OpSet)
        PROVE  Has(name)
    <2> DEFINE F == Flag(name)
               sf == s \o F
               k == Len(s)
               L == Len(ops)
               one == Len(F)
    <2>1. F \in Seq(FlagSet) /\ one = 1 /\ F[1].op = name
      BY <1>1, FlagIs
    <2>2. F \in Seq(OpSet)
      <3>1. FlagSet \subseteq OpSet
        BY DEF OpSet, OverSet, LateSet, QuietSet
      <3> HIDE DEF F
      <3> QED BY <2>1, <3>1, Wider
    <2>3. Len(sf) = k + one /\ \A i \in 1..one : sf[i + k] = F[i]
      <3> HIDE DEF F
      <3> QED BY <2>2, Joined
    <2>4. /\ Len(sf) <= L /\ L \in Nat /\ \A i \in 1..Len(sf) : ops[i] = sf[i]
      BY <1>1 DEF GoesOn
    <2>5. k \in Nat
      OBVIOUS
    <2>6. DOMAIN ops = 1..L
      BY Behind
    <2> HIDE DEF F, sf, k, L, one
    <2>7. 1 + k \in 1..L /\ 1 + k \in 1..Len(sf) /\ sf[1 + k] = F[1]
      BY <2>1, <2>3, <2>4, <2>5
    <2>8. ops[1 + k].op = name /\ 1 + k \in DOMAIN ops
      BY <2>1, <2>4, <2>6, <2>7
    <2> QED BY <2>8 DEF Has
  <1>2. Has("uid")
    BY <1>1, PartsGoOn, Behind DEF AtUid
  <1>3. Has(IF ShareNet THEN "share-net" ELSE "unshare-net")
    BY <1>1, PartsGoOn, Behind DEF AtNet
  <1>4. ASSUME Has("share-net") PROVE ShareNet
    <2>1. PICK i \in DOMAIN ops : ops[i].op = "share-net"
      BY <1>4 DEF Has
    <2>2. ops[i] \in OpSet
      BY Behind
    <2>3. ops[i] \in FlagSet
      BY <2>1, <2>2 DEF OpSet, OverSet, LateSet, QuietSet, SystemSet, HomeSet, SeedSet, PersistSet, ToolSet,
         OverlaySet, ResolvSet, DeviceSet, WorkSet, OwnSet, CallerSet, MountSet
    <2> QED BY <2>1, <2>3 DEF FlagSet
  <1> QED
    BY <1>2, <1>3, <1>4

\* Whoever sets one of basta's variables is basta.
LEMMA EnvLayout ==
    ASSUME IInv, pc \in AfterBuild, NEW key \in Reserved
    PROVE  Setting(key) = "basta"
  <1> DEFINE I == {i \in DOMAIN ops : ops[i].op = "setenv" /\ ops[i].key = key}
             L == Len(ops)
  <1>1. ops \in Seq(OpSet) /\ ops = AtWork \o EnvOps /\ AtWork \in Seq(OpSet) /\ EnvOps \in Seq(OpSet)
    <2>1. QuietSet \subseteq OpSet
      BY DEF OpSet, OverSet, LateSet
    <2> QED BY <2>1, Behind, PartsGoOn, EnvIs, Wider DEF AtEnv
  <1>2. L \in Nat /\ DOMAIN ops = 1..L
    BY <1>1
  <1>3. I # {}
    <2>1. PICK i \in 1..Len(EnvOps) : EnvOps[i].op = "setenv" /\ EnvOps[i].key = key
      BY EnvIs
    <2>2. /\ L = Len(AtWork) + Len(EnvOps)
          /\ \A j \in 1..Len(EnvOps) : ops[j + Len(AtWork)] = EnvOps[j]
      BY <1>1, Joined
    <2>3. Len(AtWork) \in Nat /\ Len(EnvOps) \in Nat
      BY <1>1
    <2>4. i + Len(AtWork) \in 1..L
      <3> DEFINE a == Len(AtWork)
                 e == Len(EnvOps)
      <3>1. a \in Nat /\ e \in Nat /\ L = a + e /\ i \in 1..e
        BY <2>2, <2>3
      <3> HIDE DEF a, e, L
      <3>2. i + a \in 1..L
        BY <3>1
      <3> QED BY <3>2 DEF a
    <2> HIDE DEF L
    <2>5. i + Len(AtWork) \in I
      BY <1>2, <2>1, <2>2, <2>4
    <2> QED BY <2>5
  <1>4. Max(I) \in I
    <2>1. I \in Indices(L)
      BY <1>2 DEF Indices
    <2> HIDE DEF I, L
    <2> QED BY <1>2, <1>3, <2>1, MaxIs
  <1>5. ASSUME NEW i \in I PROVE ops[i].by = "basta"
    <2>1. ops[i] \in OpSet /\ ops[i].op = "setenv" /\ ops[i].key = key
      BY <1>1
    <2>2. ops[i] \in OwnSet \cup CallerSet
      BY <2>1 DEF OpSet, OverSet, LateSet, QuietSet, SystemSet, HomeSet, SeedSet, PersistSet, ToolSet,
         OverlaySet, ResolvSet, DeviceSet, WorkSet, FlagSet, MountSet
    <2>3. ops[i] \notin CallerSet
      BY <2>1 DEF CallerSet
    <2>4. ops[i] \in OwnSet
      BY <2>2, <2>3
    <2> QED BY <2>4 DEF OwnSet
  <1> QED
    BY <1>4, <1>5 DEF Setting

-----------------------------------------------------------------------------
(* What the agent finds.                                                   *)

LEMMA MountAtIs ==
    ASSUME NEW path, NEW n \in Nat
    PROVE  /\ MountAt(path, n) = 0 \/ MountAt(path, n) \in 1..n
           /\ MountAt(path, n) # 0 =>
                 ops[MountAt(path, n)].op = "mount" /\ Under(path, ops[MountAt(path, n)].dest)
           /\ \A j \in 1..n : ops[j].op = "mount" /\ Under(path, ops[j].dest) =>
                 MountAt(path, n) # 0 /\ j <= MountAt(path, n)
  <1> DEFINE over == {i \in 1..n : ops[i].op = "mount" /\ Under(path, ops[i].dest)}
  <1>1. MountAt(path, n) = IF over = {} THEN 0 ELSE Max(over)
    BY DEF MountAt
  <1>2. over \in Indices(n)
    BY DEF Indices
  <1>3. over # {} => Max(over) \in over /\ Max(over) \in 1..n /\ \A x \in over : x <= Max(over)
    <2> HIDE DEF over
    <2> QED BY <1>2, MaxIs
  <1>4. \A j \in 1..n : j # 0
    OBVIOUS
  <1>5. CASE over = {}
    BY <1>1, <1>5
  <1>6. CASE over # {}
    <2>1. MountAt(path, n) \in over /\ MountAt(path, n) \in 1..n /\ \A x \in over : x <= MountAt(path, n)
      <3> HIDE DEF over
      <3> QED BY <1>1, <1>3, <1>6
    <2> QED BY <1>4, <2>1
  <1> QED BY <1>5, <1>6

LEMMA ShowsIs ==
    ASSUME NEW path, NEW i, i = MountAt(path, Len(ops))
    PROVE  /\ i = 0 => Shows(path).kind = "root"
           /\ i # 0 => /\ Shows(path).kind = ops[i].kind /\ Shows(path).rw = ops[i].rw
                       /\ Shows(path).src =
                             ops[i].src \o SubSeq(path, Len(ops[i].dest) + 1, Len(path))
  BY DEF Shows, Mount

\* Where a mount shows the host's own path, it shows it at that path.
LEMMA ShowsItself ==
    ASSUME NEW path \in PathSeq, NEW i, i = MountAt(path, Len(ops)), i # 0, Len(ops) \in Nat,
           ops[i].dest \in PathSeq, ops[i].src = ops[i].dest
    PROVE  Shows(path).src = path
  <1>1. Under(path, ops[i].dest)
    BY MountAtIs
  <1>2. ops[i].dest \o SubSeq(path, Len(ops[i].dest) + 1, Len(path)) = path
    BY <1>1, Split
  <1> QED BY <1>2, ShowsIs

LEMMA OpIs ==
    ASSUME NEW o
    PROVE  /\ o \in SystemSet \cup HomeSet \cup PersistSet \cup ToolSet \cup OverlaySet \cup ResolvSet
                      \cup DeviceSet \cup WorkSet => o \in MountSet /\ o.op = "mount"
           /\ o \in SeedSet => o.op \in {"dir", "file"}
           /\ o \in QuietSet => o.op \notin {"mount", "dir", "file"}
           /\ o \in OverSet /\ o.op = "mount" => o.dest \in Apart
           /\ o \in OverSet => o.op \notin {"dir", "file"}
  <1>1. o \in MountSet => o.op = "mount"
    BY DEF MountSet
  <1>2. o \in SystemSet \cup HomeSet \cup PersistSet \cup ToolSet \cup OverlaySet \cup ResolvSet
             \cup DeviceSet \cup WorkSet => o \in MountSet
    BY DEF SystemSet, HomeSet, PersistSet, ToolSet, OverlaySet, ResolvSet, DeviceSet, WorkSet
  <1>3. o \in SeedSet => o.op \in {"dir", "file"}
    BY DEF SeedSet
  <1>4. o \in QuietSet => o.op \notin {"mount", "dir", "file"}
    BY DEF QuietSet, FlagSet, OwnSet, CallerSet
  <1>5. o \in PersistSet \cup ToolSet \cup OverlaySet \cup ResolvSet \cup DeviceSet \cup WorkSet => o.dest \in Apart
    BY DEF PersistSet, ToolSet, OverlaySet, ResolvSet, DeviceSet, WorkSet
  <1>6. o \in OverSet <=> o \in PersistSet \cup ToolSet \cup OverlaySet \cup ResolvSet \cup DeviceSet \cup WorkSet
                          \/ o \in QuietSet
    BY DEF OverSet, LateSet
  <1> QED BY <1>1, <1>2, <1>3, <1>4, <1>5, <1>6

LEMMA PathsLooked ==
    ASSUME IInv, pc \in AfterBuild
    PROVE  /\ \A path \in Looked : path \in PathSeq
           /\ host.home \in PathSeq
  <1>1. host \in Hosts
    BY DEF IInv, TypeOK
  <1>2. host.home \in PathSeq
    BY <1>1, HostIs
  <1>3. \A p \in Places : p \in PathSeq
    <2>1. ASSUME NEW i \in DOMAIN ops, ops[i].op = "mount" PROVE ops[i].dest \in PathSeq
      <3>1. ops[i] \in OpSet
        BY Behind
      <3>2. ops[i] \in MountSet
        BY <2>1, <3>1, OpIs DEF OpSet, OverSet, LateSet
      <3> QED BY <3>2 DEF MountSet
    <2> QED BY <2>1 DEF Places
  <1>4. \A p \in PathSeq : Append(p, "x") \in PathSeq
    BY DEF PathSeq, Alphabet
  <1>5. host.home \o <<".ssh">> \in PathSeq
    BY <1>2, Longer, Spelled
  <1> QED BY <1>2, <1>3, <1>4, <1>5 DEF Looked

\* No home is above /dev/null.
LEMMA NotDevices ==
    ASSUME NEW p \in PathSeq, p \notin SystemDirs, ~Under(p, <<"dev", "null">>)
    PROVE  ~Under(<<"dev", "null">>, p)
  <1> DEFINE q == <<"dev", "null">>
  <1>1. q \in PathSeq /\ q[1] = "dev" /\ q[2] = "null" /\ Len(q) = 2
    BY Spelled
  <1> SUFFICES ASSUME Under(q, p) PROVE FALSE
    OBVIOUS
  <1> HIDE DEF q
  <1>2. Len(p) <= Len(q) /\ \A i \in 1..Len(p) : q[i] = p[i]
    BY <1>1, UnderIs
  <1>3. Len(p) \in Nat /\ p \in Seq(Alphabet)
    BY DEF PathSeq
  <1>4. Len(p) \in {0, 1, 2}
    <2> DEFINE a == Len(p)
               b == Len(q)
    <2>1. a \in Nat /\ b = 2 /\ a <= b
      BY <1>1, <1>2, <1>3
    <2> HIDE DEF a, b
    <2>2. a \in {0, 1, 2}
      BY <2>1
    <2> QED BY <2>2 DEF a
  <1>5. CASE Len(p) = 0
    <2>1. p = <<>>
      BY <1>3, <1>5
    <2> QED BY <2>1 DEF SystemDirs
  <1>6. CASE Len(p) = 1
    <2>1. p[1] = "dev"
      BY <1>1, <1>2, <1>6
    <2>2. p = <<"dev">>
      BY <1>3, <1>6, <2>1
    <2> QED BY <2>2 DEF SystemDirs
  <1>7. CASE Len(p) = 2
    <2>1. Len(q) <= Len(p) /\ \A i \in 1..Len(q) : p[i] = q[i]
      BY <1>1, <1>2, <1>7
    <2>2. Under(p, q)
      BY <1>1, <2>1, UnderIs
    <2> QED BY <2>2 DEF q
  <1> QED BY <1>4, <1>5, <1>6, <1>7

-----------------------------------------------------------------------------
(* The theorems.                                                           *)

\* /etc/resolv.conf is not a link into a home.
ResolvElsewhere == \A h \in Hosts : h.resolv # <<>> => ~Under(h.resolv, h.home)

LEMMA HomeHeld ==
    ASSUME IInv, ResolvElsewhere
    PROVE  HomePrivate
  <1> SUFFICES ASSUME pc = "running" PROVE HomePrivate
    BY DEF HomePrivate
  <1>0. /\ pc \in AfterBuild /\ host \in Hosts /\ cmd \in Commands /\ HomeOk
    BY DEF IInv, TypeOK, Unmasked, AfterBuild, AfterEgress, AfterSeeds, AfterEnvs, AfterMasking, AfterResolve
  <1> DEFINE home == host.home
             L == Len(ops)
  <1>1. home \in PathSeq /\ \A path \in Looked : path \in PathSeq
    BY <1>0, PathsLooked
  <1>2. L \in Nat
    BY <1>0, HomeLayout
  <1>3. PICK h \in 1..L, n \in Nat :
           /\ ops[h] \in HomeSet /\ h <= n
           /\ \A i \in 1..L :
                 /\ i < h => ops[i] \in SystemSet
                 /\ h < i /\ i <= n => ops[i] \in SeedSet
                 /\ n < i => ops[i] \in OverSet
    BY <1>0, HomeLayout
  <1>4. ops[h].op = "mount" /\ ops[h].kind = "tmpfs" /\ ops[h].dest = home
    BY <1>3, OpIs DEF HomeSet
  <1> HIDE DEF home, L
  \* Below the home, the home's own mount covers whatever was there before.
  <1>5. ASSUME NEW path, Under(path, home)
        PROVE  MountAt(path, L) \in 1..L /\ h <= MountAt(path, L)
    BY <1>2, <1>3, <1>4, <1>5, MountAtIs
  <1>6. \A i \in 1..L : ops[i].op = "mount" => i < h \/ i = h \/ (i > h /\ ops[i] \in OverSet)
    <2>1. \A i \in 1..L : i < h \/ i = h \/ (h < i /\ i <= n) \/ (i > h /\ n < i)
      BY <1>2, <1>3
    <2>2. \A i \in 1..L : ops[i] \in SeedSet => ops[i].op # "mount"
      BY OpIs
    <2> QED BY <1>3, <2>1, <2>2
  <1>7. Shows(home).kind = "tmpfs"
    <2> DEFINE i == MountAt(home, L)
    <2>1. i \in 1..L /\ h <= i
      BY <1>1, <1>5, UnderOrder
    <2>2. i # 0 /\ ops[i].op = "mount" /\ Under(home, ops[i].dest)
      BY <1>2, <2>1, MountAtIs
    <2>3. ~(i > h /\ ops[i] \in OverSet)
      BY <2>2, OpIs DEF Apart, home
    <2> HIDE DEF i
    <2>4. i = h
      BY <1>2, <1>3, <1>6, <2>1, <2>2, <2>3
    <2> QED BY <1>4, <2>2, <2>4, ShowsIs DEF i, L
  <1>8. ASSUME NEW path \in Looked, Shows(path).kind = "host"
        PROVE  /\ Under(Shows(path).src, home) =>
                     \/ InWorkspace(path, FALSE) \/ Persisted(path)
                     \/ \E tool \in Tools : Under(path, tool)
               /\ Shows(path).rw => InWorkspace(path, TRUE) \/ Persisted(path)
    <2> DEFINE i == MountAt(path, L)
               m == ops[i]
    <2>1. path \in PathSeq
      BY <1>1
    <2>2. /\ i # 0 /\ i \in 1..L /\ m.op = "mount" /\ m.kind = "host" /\ Under(path, m.dest)
          /\ Shows(path).rw = m.rw
          /\ Shows(path).src = m.src \o SubSeq(path, Len(m.dest) + 1, Len(path))
      <3>1. i # 0
        BY <1>8, ShowsIs DEF L
      <3>2. i \in 1..L /\ m.op = "mount" /\ Under(path, m.dest)
        BY <1>2, <3>1, MountAtIs
      <3> QED BY <1>8, <3>1, <3>2, ShowsIs DEF L
    <2>3. Under(path, home) => h <= i
      BY <1>5
    <2>4. i < h \/ m \in OverSet
      BY <1>4, <1>6, <2>2
    <2>5. m \in MountSet
      BY <1>3, <2>2, <2>4, OpIs DEF OverSet, LateSet
    <2>6. m.src \in PathSeq /\ m.dest \in PathSeq
      BY <2>5 DEF MountSet
    <2> DEFINE rest == SubSeq(path, Len(m.dest) + 1, Len(path))
    <2>7. rest \in PathSeq /\ m.dest \o rest = path
      BY <2>1, <2>2, <2>6, Split
    <2>i. i \in Nat /\ h \in Nat
      BY <1>2, <1>3, <2>2
    <2> HIDE DEF i, m, rest
    <2>8. CASE i < h
      <3>1. m \in SystemSet
        BY <1>3, <2>2, <2>8 DEF m
      <3>2. ~m.rw /\ (m.src = m.dest \/ m.src = <<"dev", "null">>)
        BY <2>2, <3>1 DEF SystemSet
      <3>3. CASE m.src = m.dest
        <4>1. Shows(path).src = path
          BY <2>2, <2>7, <3>3 DEF rest
        <4>2. ~Under(path, home)
          BY <2>3, <2>8, <2>i
        <4>3. ~Shows(path).rw
          BY <2>2, <3>2 DEF m
        <4> QED BY <4>1, <4>2, <4>3
      <3>4. CASE m.src = <<"dev", "null">>
        <4> DEFINE null == <<"dev", "null">>
                   s == null \o rest
        <4>1. null \in PathSeq /\ ~Under(home, null) /\ ~Under(null, home)
          <5>1. null \in PathSeq
            BY Spelled
          <5>2. null # <<>> /\ home \notin SystemDirs
            BY <1>0 DEF HomeOk, home
          <5>3. ~Under(home, null)
            BY <1>0, <5>2, HostIs DEF home
          <5> QED BY <1>1, <5>1, <5>2, <5>3, NotDevices
        <4>2. Shows(path).src = s
          BY <2>2, <3>4 DEF rest
        <4>3. s \in PathSeq /\ Under(s, null)
          <5> HIDE DEF null
          <5> QED BY <2>7, <4>1, Longer
        <4>4. ~Under(s, home)
          <5> HIDE DEF s, null
          <5> QED BY <1>1, <4>1, <4>3, UnderOrder
        <4> QED BY <2>2, <3>2, <4>2, <4>4
      <3> QED BY <3>2, <3>3, <3>4
    <2>9. CASE m \in OverSet
      <3>1. m \in PersistSet \cup ToolSet \cup ResolvSet \cup WorkSet
        <4>1. m \notin QuietSet
          BY <2>2, OpIs DEF m
        <4> QED BY <2>2, <2>9, <4>1 DEF OverSet, LateSet, OverlaySet, DeviceSet
      <3>2. CASE m \in PersistSet
        <4>1. PICK k \in DOMAIN cmd.persist : Under(m.dest, home \o cmd.persist[k].dest)
          BY <3>2 DEF PersistSet, Persisted, home
        <4> DEFINE ps == cmd.persist
                   R == [src : Path, dest : Path]
        <4>2. ps[k].dest \in PathSeq
          <5>1. ps \in Seq(R)
            BY <1>0, CommandIs
          <5>2. \A r \in R : r.dest \in Path
            OBVIOUS
          <5> HIDE DEF R
          <5>3. ps[k] \in R
            BY <5>1
          <5> QED BY <5>2, <5>3, PathsAre
        <4>3. home \o ps[k].dest \in PathSeq
          BY <1>1, <4>2, Longer
        <4>4. Under(path, home \o ps[k].dest)
          BY <2>1, <2>2, <2>6, <4>1, <4>3, UnderOrder DEF m
        <4> QED BY <4>4 DEF Persisted, home
      <3>3. CASE m \in ToolSet
        BY <2>2, <3>3 DEF ToolSet, m
      <3>4. CASE m \in ResolvSet
        <4>1. ~m.rw /\ m.src = m.dest /\ m.dest = host.resolv /\ host.resolv # <<>> /\ m.dest \in Apart
          BY <3>4 DEF ResolvSet
        <4>2. Shows(path).src = path
          BY <2>2, <2>7, <4>1 DEF rest
        <4>3. ~Under(m.dest, home)
          BY <1>0, <4>1 DEF ResolvElsewhere, home
        <4>4. ~Under(home, m.dest)
          BY <4>1 DEF Apart, home
        <4>5. ~Under(path, home)
          BY <1>1, <2>1, <2>2, <2>6, <4>3, <4>4, UnderOrder DEF m
        <4> QED BY <2>2, <4>1, <4>2, <4>5
      <3>5. CASE m \in WorkSet
        <4>1. PICK k \in DOMAIN workspaces : m.dest = workspaces[k].path /\ m.rw = ~workspaces[k].ro
          BY <3>5 DEF WorkSet
        <4>2. Under(path, workspaces[k].path)
          BY <2>2, <4>1 DEF m
        <4>3. InWorkspace(path, FALSE)
          BY <4>2 DEF InWorkspace
        <4>4. m.rw => InWorkspace(path, TRUE)
          BY <4>1, <4>2 DEF InWorkspace
        <4> QED BY <2>2, <4>3, <4>4
      <3> QED BY <3>1, <3>2, <3>3, <3>4, <3>5
    <2> QED BY <2>4, <2>8, <2>9 DEF m
  <1> QED BY <1>7, <1>8 DEF HomePrivate, home

\* README.md:139, "a fresh tmpfs every run": whatever is given, of the caller's
\* home the agent finds only the workspaces below it, what was persisted and
\* the tools, and of the host it can write only the read-write workspaces
\* and what was persisted; unless resolv.conf is a link into the home, which
\* --net host would then bind there.
THEOREM Private ==
    ASSUME ResolvElsewhere
    PROVE  Spec => []HomePrivate
  <1>1. IInv => HomePrivate
    BY HomeHeld
  <1> QED
    BY <1>1, Invariant, PTL

\* cli.rs:65, "writable but ephemeral": whatever is seeded lands in the fresh
\* $HOME.
THEOREM Ephemeral == Spec => []SeedsEphemeral
  <1>1. ASSUME IInv PROVE SeedsEphemeral
    <2> SUFFICES ASSUME pc = "running", NEW j \in DOMAIN ops, ops[j].op \in {"dir", "file"}
                 PROVE  ops[MountAt(ops[j].dest, j)].kind = "tmpfs"
      BY DEF SeedsEphemeral
    <2>0. pc \in AfterBuild
      BY DEF AfterBuild, AfterEgress, AfterSeeds, AfterEnvs, AfterMasking, AfterResolve
    <2> DEFINE L == Len(ops)
               i == MountAt(ops[j].dest, j)
    <2>1. L \in Nat /\ ops \in Seq(OpSet)
      BY <1>1, <2>0, HomeLayout
    <2>2. PICK h \in 1..L, n \in Nat :
             /\ ops[h] \in HomeSet /\ h <= n
             /\ \A k \in 1..L :
                   /\ k < h => ops[k] \in SystemSet
                   /\ h < k /\ k <= n => ops[k] \in SeedSet
                   /\ n < k => ops[k] \in OverSet
      BY <1>1, <2>0, HomeLayout
    <2>3. ops[h].op = "mount" /\ ops[h].kind = "tmpfs" /\ ops[h].dest = host.home
      BY <2>2, OpIs DEF HomeSet
    <2>4. j \in 1..L /\ j \in Nat
      BY <2>1
    <2> HIDE DEF L
    <2>5. h < j /\ j <= n
      <3>1. ~(j < h) /\ ~(n < j) /\ j # h
        BY <2>2, <2>3, <2>4, OpIs
      <3> QED BY <2>1, <2>2, <2>4, <3>1
    <2>6. Under(ops[j].dest, host.home)
      <3>1. ops[j] \in SeedSet
        BY <2>2, <2>4, <2>5
      <3> QED BY <3>1 DEF SeedSet
    <2>7. h \in 1..j
      BY <2>1, <2>2, <2>4, <2>5
    <2>8. i # 0 /\ h <= i /\ i \in 1..j /\ ops[i].op = "mount"
      BY <2>3, <2>4, <2>6, <2>7, MountAtIs
    <2>9. i = h
      <3> HIDE DEF i
      <3>1. ASSUME h < i PROVE FALSE
        <4>1. i \in 1..L /\ i <= n
          BY <2>1, <2>2, <2>4, <2>5, <2>8
        <4>2. ops[i] \in SeedSet
          BY <2>2, <3>1, <4>1
        <4> QED BY <2>8, <4>2, OpIs
      <3> QED BY <2>1, <2>2, <2>4, <2>8, <3>1
    <2> QED BY <2>3, <2>9
  <1> QED
    BY <1>1, Invariant, PTL

\* Three places decide what network the agent is in (preflight and run() from
\* the switches, the arguments from the overlays); they agree with the command
\* line, and nothing that is mounted hides the generated files but a
\* workspace that contains them.
THEOREM AsAsked == Spec => []NetAsAsked
  <1>1. ASSUME IInv PROVE NetAsAsked
    <2> SUFFICES ASSUME pc = "running" PROVE NetAsAsked
      BY DEF NetAsAsked
    <2>0. pc \in AfterBuild /\ pc \in AfterEgress /\ pc \notin {"preflight", "refused"}
      BY DEF AfterBuild, AfterEgress, AfterSeeds, AfterEnvs, AfterMasking, AfterResolve
    <2>1. /\ EgressRequested => cmd.net # "host"
          /\ runner = "egress" <=> EgressRequested
          /\ seeds.resolv = IF EgressRequested THEN ResolvDest ELSE NoOverlay
      BY <1>1, <2>0 DEF IInv, Checked, Ran, Overlaid
    <2>2. Overlays <=> EgressRequested
      <3>1. ResolvDest # NoOverlay
        BY DEF ResolvDest, NoOverlay
      <3> QED BY <2>1, <3>1 DEF Overlays
    <2>3. Has("share-net") <=> Overlays \/ cmd.net = "host"
      BY <1>1, <2>0, FlagLayout DEF ShareNet
    <2>4. Network = IF cmd.net = "host" THEN "host"
                    ELSE IF <<cmd.allow, cmd.sni, cmd.loopback, cmd.publish>> # <<{}, {}, {}, {}>>
                    THEN "filtered" ELSE "empty"
      BY <2>1, <2>2, <2>3 DEF Network, EgressRequested
    <2>5. ASSUME Network = "filtered", NEW path \in {<<"etc", "hosts">>, ResolvDest}
          PROVE  Shows(path).kind = "overlay" \/ InWorkspace(path, FALSE)
      <3> DEFINE L == Len(ops)
                 i == MountAt(path, L)
      <3>1. Overlays
        BY <2>1, <2>2, <2>5 DEF Network
      <3>2. PICK o \in 1..L : /\ ops[o] \in OverlaySet /\ ops[o].dest = path
                              /\ \A k \in 1..L : o < k => ops[k] \in OverlaySet \cup LateSet
        BY <1>1, <2>0, <3>1, OverlayLayout
      <3>3. L \in Nat /\ path \in PathSeq
        <4>1. path \in Apart
          BY <1>1, <2>5, ResolvIs
        <4> QED BY <1>1, <2>0, <4>1, HomeLayout DEF Apart
      <3>4. Under(path, path)
        BY <3>3, UnderOrder
      <3>5. /\ i # 0 /\ i \in 1..L /\ o <= i /\ ops[i].op = "mount" /\ Under(path, ops[i].dest)
            /\ Shows(path).kind = ops[i].kind
        <4>1. ops[o].op = "mount"
          BY <3>2, OpIs
        <4>2. i # 0 /\ i \in 1..L /\ o <= i /\ ops[i].op = "mount" /\ Under(path, ops[i].dest)
          BY <3>2, <3>3, <3>4, <4>1, MountAtIs
        <4> QED BY <4>2, ShowsIs
      <3> HIDE DEF i, L
      <3>6. ops[i] \in OverlaySet \cup LateSet
        <4>1. i = o \/ o < i
          BY <3>2, <3>3, <3>5
        <4> QED BY <3>2, <3>5, <4>1
      <3>7. ops[i] \in OverlaySet \cup DeviceSet \cup WorkSet
        BY <3>5, <3>6, OpIs DEF LateSet
      <3>8. CASE ops[i] \in OverlaySet
        BY <3>5, <3>8 DEF OverlaySet
      <3>9. CASE ops[i] \in DeviceSet
        BY <2>5, <3>5, <3>9 DEF DeviceSet
      <3>10. CASE ops[i] \in WorkSet
        BY <3>5, <3>10 DEF WorkSet, InWorkspace
      <3> QED BY <3>7, <3>8, <3>9, <3>10
    <2> QED BY <2>4, <2>5 DEF NetAsAsked
  <1> QED
    BY <1>1, Invariant, PTL

\* cli.rs:7, "First RW one becomes cwd": where the agent starts, as whom, and
\* with whose variables.
THEOREM Placement == Spec => []AgentPlaced
  <1>1. ASSUME IInv PROVE AgentPlaced
    <2> SUFFICES ASSUME pc = "running" PROVE AgentPlaced
      BY DEF AgentPlaced
    <2>0. pc \in AfterBuild /\ pc \in AfterMasking
      BY DEF AfterBuild, AfterEgress, AfterSeeds, AfterEnvs, AfterMasking, AfterResolve
    <2>1. Uid = "caller" /\ \A key \in Reserved : Setting(key) = "basta"
      BY <1>1, <2>0, FlagLayout, EnvLayout DEF Uid
    <2> DEFINE L == Len(ops)
               n == Len(workspaces)
               writable == {c \in DOMAIN workspaces : ~workspaces[c].ro}
               first == IF writable = {} THEN 1 ELSE Min(writable)
               i == MountAt(cwd, L)
    <2>2. /\ n \in Nat \ {0} /\ DOMAIN workspaces = 1..n
          /\ \A k \in DOMAIN workspaces : workspaces[k].path \in Apart /\ workspaces[k].ro \in BOOLEAN
      BY <1>1, <2>0, WorkspacesAre
    <2>3. cwd = workspaces[first].path
      BY <1>1, <2>0 DEF IInv, Unmasked, CwdOf
    <2>4. /\ first \in 1..n
          /\ writable # {} => first \in writable
      <3>1. writable \in Indices(n)
        BY <2>2 DEF Indices
      <3> HIDE DEF writable, n
      <3>2. CASE writable = {}
        BY <2>2, <3>2
      <3>3. CASE writable # {}
        BY <2>2, <3>1, <3>3, MinIs
      <3> QED BY <3>2, <3>3
    <2>5. L \in Nat
      BY <1>1, <2>0, HomeLayout
    <2>6. PICK w \in Nat :
             /\ \A k \in 1..n : w + k \in 1..L /\ ops[w + k] = WorkspaceOps[k]
             /\ \A j \in 1..L : w < j => ops[j] \in QuietSet \/ j - w \in 1..n
      BY <1>1, <2>0, WorkLayout
    <2>7. ASSUME NEW k \in 1..n
          PROVE  /\ WorkspaceOps[k].op = "mount" /\ WorkspaceOps[k].kind = "host"
                 /\ WorkspaceOps[k].src = workspaces[k].path /\ WorkspaceOps[k].dest = workspaces[k].path
                 /\ WorkspaceOps[k].rw = ~workspaces[k].ro
      <3>1. WorkspaceOps[k] = Mount("host", workspaces[k].path, workspaces[k].path, ~workspaces[k].ro)
        BY <2>2 DEF WorkspaceOps
      <3> QED BY <3>1 DEF Mount
    <2>8. cwd \in PathSeq /\ Under(cwd, cwd)
      <3>1. cwd \in Apart
        BY <2>2, <2>3, <2>4
      <3> QED BY <3>1, UnderOrder DEF Apart
    <2> HIDE DEF L, first, writable, i
    <2>9. i \in 1..L /\ i # 0 /\ w + first <= i /\ ops[i].op = "mount" /\ Under(cwd, ops[i].dest)
      <3>1. w + first \in 1..L /\ ops[w + first].op = "mount" /\ Under(cwd, ops[w + first].dest)
        BY <2>3, <2>4, <2>6, <2>7, <2>8
      <3> QED BY <2>5, <3>1, MountAtIs DEF i
    <2> DEFINE k == i - w
    <2>10. k \in 1..n /\ first <= k /\ w + k = i
      <3>1. w < i /\ w + (i - w) = i /\ first <= i - w
        BY <2>2, <2>4, <2>5, <2>9
      <3>2. ops[i] \notin QuietSet
        BY <2>9, OpIs
      <3> QED BY <2>6, <2>9, <3>1, <3>2
    <2> HIDE DEF k
    <2>11. /\ ops[i].kind = "host" /\ ops[i].src = ops[i].dest
           /\ ops[i].dest = workspaces[k].path /\ ops[i].rw = ~workspaces[k].ro
      BY <2>6, <2>7, <2>10
    <2>12. Shows(cwd).kind = "host" /\ Shows(cwd).src = cwd /\ Shows(cwd).rw = ~workspaces[k].ro
      <3>1. ops[i].dest \in PathSeq
        BY <2>2, <2>10, <2>11 DEF Apart
      <3> QED BY <2>5, <2>8, <2>9, <2>11, <3>1, ShowsIs, ShowsItself DEF i, L
    <2>13. \/ Shows(cwd).rw
           \/ \A j \in DOMAIN workspaces : workspaces[j].ro
           \/ \E j, l \in DOMAIN workspaces :
                 j < l /\ workspaces[j].path = cwd /\ workspaces[l].ro /\ Under(cwd, workspaces[l].path)
      <3> SUFFICES ASSUME workspaces[k].ro, writable # {}
                   PROVE  \E j, l \in DOMAIN workspaces :
                             j < l /\ workspaces[j].path = cwd /\ workspaces[l].ro /\ Under(cwd, workspaces[l].path)
        BY <2>2, <2>10, <2>12 DEF writable
      <3>1. first # k
        BY <2>4 DEF writable
      <3>2. first < k
        BY <2>2, <2>4, <2>10, <3>1
      <3>3. Under(cwd, workspaces[k].path)
        BY <2>9, <2>11
      <3> QED BY <2>2, <2>3, <2>4, <2>10, <3>2, <3>3
    <2> QED BY <2>1, <2>12, <2>13 DEF AgentPlaced
  <1> QED
    BY <1>1, Invariant, PTL
=============================================================================
