--------------------------- MODULE Lockset_proof ---------------------------
(***************************************************************************)
(* What holds of the workspace lock for every file system, every command   *)
(* line and any number of operations of the agent: the types; that a row   *)
(* that appeared is reported; that a node keeps its mount wherever it is   *)
(* moved; and that what is locked, or read-only, stays as it was.          *)
(***************************************************************************)
EXTENDS Lockset, Integers, WellFoundedInduction, FiniteSetTheorems, TLAPS

-----------------------------------------------------------------------------
(* Paths.                                                                  *)

\* The names of the model: any string, and those the lock set spells out.
Alphabet == STRING \cup DefaultLock \cup {".git", "config", "hooks"}
PathSeq == Seq(Alphabet)

LEMMA PathsAre == Paths \subseteq PathSeq /\ \A p \in Paths : p # <<>> /\ Len(p) \in Nat \ {0}
  <1>1. Seq(STRING) \subseteq PathSeq
    BY DEF PathSeq, Alphabet
  <1>2. \A p \in PathSeq : p # <<>> => Len(p) \in Nat \ {0}
    BY DEF PathSeq
  <1>3. \A p \in Paths : p \in Seq(STRING) /\ p # <<>>
    BY LocksetAssumption
  <1> QED
    BY <1>1, <1>2, <1>3

LEMMA Joined ==
    ASSUME NEW S, NEW a \in Seq(S), NEW b \in Seq(S)
    PROVE  /\ a \o b \in Seq(S) /\ Len(a \o b) = Len(a) + Len(b)
           /\ \A i \in 1..Len(a) : (a \o b)[i] = a[i]
           /\ \A i \in 1..Len(b) : (a \o b)[i + Len(a)] = b[i]
  <1>1. a \o b \in Seq(S) /\ Len(a \o b) = Len(a) + Len(b)
    OBVIOUS
  <1>2. \A i \in 1..Len(a) : (a \o b)[i] = a[i]
    OBVIOUS
  <1>3. ASSUME NEW i \in 1..Len(b) PROVE (a \o b)[i + Len(a)] = b[i]
    <2>1. i + Len(a) \in 1..(Len(a) + Len(b)) /\ i + Len(a) > Len(a) /\ (i + Len(a)) - Len(a) = i
      OBVIOUS
    <2> QED BY <2>1
  <1> QED BY <1>1, <1>2, <1>3

LEMMA UnderIs ==
    ASSUME NEW p \in PathSeq, NEW q \in PathSeq
    PROVE  Under(p, q) <=> (Len(q) <= Len(p) /\ \A i \in 1..Len(q) : p[i] = q[i])
  <1>0. p \in Seq(Alphabet) /\ q \in Seq(Alphabet)
    BY DEF PathSeq
  <1>1. ASSUME Under(p, q) PROVE Len(q) <= Len(p) /\ \A i \in 1..Len(q) : p[i] = q[i]
    BY <1>0, <1>1 DEF Under, IsPrefix
  <1>2. ASSUME Len(q) <= Len(p), \A i \in 1..Len(q) : p[i] = q[i] PROVE Under(p, q)
    BY <1>0, <1>2 DEF Under, IsPrefix
  <1> QED
    BY <1>1, <1>2

LEMMA Same ==
    ASSUME NEW p \in PathSeq, NEW q \in PathSeq, Len(p) = Len(q),
           \A i \in 1..Len(p) : p[i] = q[i]
    PROVE  p = q
  BY DEF PathSeq

\* Lying under one another is an order, and what is above one path is a chain.
LEMMA UnderOrder ==
    ASSUME NEW p \in PathSeq, NEW q \in PathSeq, NEW r \in PathSeq
    PROVE  /\ Under(p, p)
           /\ Under(p, q) /\ Under(q, r) => Under(p, r)
           /\ Under(p, q) /\ Under(q, p) => p = q
           /\ Under(r, p) /\ Under(r, q) => Under(p, q) \/ Under(q, p)
  <1>0. Len(p) \in Nat /\ Len(q) \in Nat /\ Len(r) \in Nat
    BY DEF PathSeq
  <1>1. Under(p, p)
    BY <1>0, UnderIs
  <1>2. ASSUME Under(p, q), Under(q, r) PROVE Under(p, r)
    <2>1. Len(q) <= Len(p) /\ Len(r) <= Len(q)
      BY <1>2, UnderIs
    <2>2. ASSUME NEW i \in 1..Len(r) PROVE p[i] = r[i]
      <3>1. i \in 1..Len(q)
        BY <1>0, <2>1
      <3> QED BY <3>1, <1>2, UnderIs
    <2>3. Len(r) <= Len(p)
      BY <1>0, <2>1
    <2> QED BY <2>2, <2>3, UnderIs
  <1>3. ASSUME Under(p, q), Under(q, p) PROVE p = q
    <2>1. Len(p) = Len(q) /\ \A i \in 1..Len(q) : p[i] = q[i]
      BY <1>0, <1>3, UnderIs
    <2> QED BY <2>1, Same
  <1>4. ASSUME Under(r, p), Under(r, q) PROVE Under(p, q) \/ Under(q, p)
    <2>1. /\ \A i \in 1..Len(p) : r[i] = p[i]
          /\ \A i \in 1..Len(q) : r[i] = q[i]
      BY <1>4, UnderIs
    <2>2. CASE Len(q) <= Len(p)
      <3>1. \A i \in 1..Len(q) : i \in 1..Len(p)
        BY <1>0, <2>2
      <3> QED BY <2>1, <2>2, <3>1, UnderIs
    <2>3. CASE Len(p) <= Len(q)
      <3>1. \A i \in 1..Len(p) : i \in 1..Len(q)
        BY <1>0, <2>3
      <3> QED BY <2>1, <2>3, <3>1, UnderIs
    <2> QED BY <1>0, <2>2, <2>3
  <1> QED
    BY <1>1, <1>2, <1>3, <1>4

\* What is above a path is the path and what is above its parent.
LEMMA ParentIs ==
    ASSUME NEW p \in Paths, Parent(p) \in Paths
    PROVE  /\ Under(p, Parent(p)) /\ Parent(p) # p
           /\ \A x \in Paths : Under(p, x) <=> x = p \/ Under(Parent(p), x)
  <1>0. p \in PathSeq /\ Parent(p) \in PathSeq /\ Len(p) \in Nat \ {0}
    BY PathsAre
  <1>1. /\ Len(Parent(p)) = Len(p) - 1
        /\ \A i \in 1..(Len(p) - 1) : Parent(p)[i] = p[i]
    <2> DEFINE n == Len(p) - 1
    <2>1. p \in Seq(Alphabet) /\ n \in 0..Len(p)
      BY <1>0 DEF PathSeq
    <2>2. Parent(p) = SubSeq(p, 1, n)
      BY DEF Parent, Front
    <2> HIDE DEF n
    <2>3. Len(Parent(p)) = n /\ \A i \in 1..n : Parent(p)[i] = p[i]
      BY <2>1, <2>2
    <2> QED BY <2>3 DEF n
  <1>2. Under(p, Parent(p)) /\ Parent(p) # p
    BY <1>0, <1>1, UnderIs
  <1>3. ASSUME NEW x \in Paths, Under(p, x), x # p PROVE Under(Parent(p), x)
    <2>1. x \in PathSeq /\ Len(x) \in Nat
      BY PathsAre
    <2>2. Len(x) <= Len(p) /\ \A i \in 1..Len(x) : p[i] = x[i]
      BY <1>0, <1>3, <2>1, UnderIs
    <2>3. Len(x) # Len(p)
      BY <1>0, <1>3, <2>1, <2>2, Same
    <2>4. Len(x) <= Len(p) - 1
      BY <1>0, <2>1, <2>2, <2>3
    <2>5. \A i \in 1..Len(x) : i \in 1..(Len(p) - 1)
      BY <1>0, <2>1, <2>4
    <2>6. \A i \in 1..Len(x) : Parent(p)[i] = x[i]
      BY <1>1, <2>2, <2>5
    <2> QED BY <1>0, <1>1, <2>1, <2>4, <2>6, UnderIs
  <1>4. ASSUME NEW x \in Paths, x = p \/ Under(Parent(p), x) PROVE Under(p, x)
    BY <1>0, <1>2, <1>4, PathsAre, UnderOrder
  <1> QED
    BY <1>2, <1>3, <1>4

\* What lies above a path and below another is a path.
LEMMA AboveIn ==
    ASSUME NEW r \in Paths, NEW q \in Paths, NEW x \in PathSeq, Under(r, x), Under(x, q)
    PROVE  x \in Paths
  <1>1. /\ r \in Seq(Alphabet) /\ x \in Seq(Alphabet)
        /\ Len(q) \in Nat \ {0} /\ Len(x) \in Nat /\ Len(r) \in Nat
    BY PathsAre DEF PathSeq
  <1>2. Len(x) <= Len(r) /\ SubSeq(x, 1, Len(x)) = SubSeq(r, 1, Len(x)) /\ Len(q) <= Len(x)
    BY DEF Under, IsPrefix
  <1>3. SubSeq(x, 1, Len(x)) = x
    BY <1>1
  <1>4. Len(x) \in 1..Len(r)
    BY <1>1, <1>2
  <1>5. SubSeq(r, 1, Len(x)) \in Paths
    BY <1>4, LocksetAssumption
  <1> QED
    BY <1>2, <1>3, <1>5

\* The part of r below q, put below p.
Graft(r, q, p) == p \o SubSeq(r, Len(q) + 1, Len(r))

LEMMA GraftIs ==
    ASSUME NEW p \in PathSeq, NEW q \in PathSeq, NEW r \in PathSeq, Under(r, q)
    PROVE  /\ Graft(r, q, p) \in PathSeq
           /\ Len(Graft(r, q, p)) = Len(p) + (Len(r) - Len(q))
           /\ \A i \in 1..Len(p) : Graft(r, q, p)[i] = p[i]
           /\ \A i \in (Len(q) + 1)..Len(r) : Graft(r, q, p)[i - Len(q) + Len(p)] = r[i]
  <1> DEFINE s == SubSeq(r, Len(q) + 1, Len(r))
  <1>0. Len(p) \in Nat /\ Len(q) \in Nat /\ Len(r) \in Nat /\ Len(q) <= Len(r)
    BY UnderIs DEF PathSeq
  <1>1. /\ s \in Seq(Alphabet) /\ Len(s) = Len(r) - Len(q)
        /\ \A i \in 1..(Len(r) - Len(q)) : s[i] = r[i + Len(q)]
    BY <1>0 DEF PathSeq
  <1>2. p \in Seq(Alphabet) /\ s \in Seq(Alphabet)
    BY <1>1 DEF PathSeq
  <1> HIDE DEF s
  <1>3. /\ p \o s \in Seq(Alphabet) /\ Len(p \o s) = Len(p) + Len(s)
        /\ \A i \in 1..Len(p) : (p \o s)[i] = p[i]
        /\ \A i \in 1..Len(s) : (p \o s)[i + Len(p)] = s[i]
    BY <1>2, Joined
  <1>4. Graft(r, q, p) = p \o s
    BY DEF Graft, s
  <1>5. ASSUME NEW i \in (Len(q) + 1)..Len(r)
        PROVE  (p \o s)[i - Len(q) + Len(p)] = r[i]
    <2>1. /\ i - Len(q) \in 1..Len(s) /\ i - Len(q) \in 1..(Len(r) - Len(q))
          /\ (i - Len(q)) + Len(q) = i
      BY <1>0, <1>1
    <2> QED BY <1>1, <1>3, <2>1
  <1> QED
    BY <1>1, <1>3, <1>4, <1>5 DEF PathSeq

\* What is above r and not above q grafts to what is above the graft of r
\* and not above p.
LEMMA GraftUnder ==
    ASSUME NEW p \in PathSeq, NEW q \in PathSeq, NEW r \in PathSeq, NEW x \in PathSeq,
           Under(r, x), Under(x, q)
    PROVE  /\ Under(Graft(r, q, p), Graft(x, q, p)) /\ Under(Graft(x, q, p), p)
           /\ Graft(r, q, p) = Graft(x, q, p) => r = x
  <1> DEFINE a == Graft(r, q, p)
             b == Graft(x, q, p)
  <1>0. Len(p) \in Nat /\ Len(q) \in Nat /\ Len(r) \in Nat /\ Len(x) \in Nat
    BY DEF PathSeq
  <1>1. Len(q) <= Len(x) /\ Len(x) <= Len(r) /\ Under(r, q) /\ \A i \in 1..Len(x) : r[i] = x[i]
    BY UnderIs, UnderOrder
  <1>2. /\ a \in PathSeq /\ Len(a) = Len(p) + (Len(r) - Len(q))
        /\ \A i \in 1..Len(p) : a[i] = p[i]
        /\ \A i \in (Len(q) + 1)..Len(r) : a[i - Len(q) + Len(p)] = r[i]
    BY <1>1, GraftIs
  <1>3. /\ b \in PathSeq /\ Len(b) = Len(p) + (Len(x) - Len(q))
        /\ \A i \in 1..Len(p) : b[i] = p[i]
        /\ \A i \in (Len(q) + 1)..Len(x) : b[i - Len(q) + Len(p)] = x[i]
    BY <1>1, GraftIs
  <1> HIDE DEF a, b
  <1>4. Len(b) <= Len(a) /\ Len(p) <= Len(b) /\ (Len(a) = Len(b) => Len(r) = Len(x))
    BY <1>0, <1>1, <1>2, <1>3
  <1>5. ASSUME NEW i \in 1..Len(b) PROVE a[i] = b[i]
    <2>1. CASE i \in 1..Len(p)
      BY <1>2, <1>3, <2>1
    <2>2. CASE i \notin 1..Len(p)
      <3> DEFINE j == i - Len(p) + Len(q)
      <3>1. j \in (Len(q) + 1)..Len(x) /\ j \in (Len(q) + 1)..Len(r) /\ j \in 1..Len(x)
        BY <1>0, <1>1, <1>3, <2>2
      <3>2. i = j - Len(q) + Len(p)
        BY <1>0, <1>3
      <3> HIDE DEF j
      <3> QED BY <1>1, <1>2, <1>3, <3>1, <3>2
    <2> QED BY <2>1, <2>2
  <1>6. Under(a, b) /\ Under(b, p)
    BY <1>2, <1>3, <1>4, <1>5, UnderIs
  <1>7. a = b => r = x
    BY <1>1, <1>4, Same
  <1> QED
    BY <1>6, <1>7 DEF a, b

\* Every path between the graft of r and p is a graft.
LEMMA GraftBack ==
    ASSUME NEW p \in PathSeq, NEW q \in Paths, NEW r \in Paths, Under(r, q),
           NEW y \in PathSeq, Under(Graft(r, q, p), y), Under(y, p)
    PROVE  \E x \in Paths : Under(r, x) /\ Under(x, q) /\ y = Graft(x, q, p)
  <1> DEFINE a == Graft(r, q, p)
             n == Len(y) - Len(p) + Len(q)
             x == SubSeq(r, 1, n)
             b == Graft(x, q, p)
  <1>p. q \in PathSeq /\ r \in PathSeq
    BY PathsAre
  <1>0. Len(p) \in Nat /\ Len(q) \in Nat \ {0} /\ Len(r) \in Nat /\ Len(y) \in Nat
    BY PathsAre DEF PathSeq
  <1>1. Len(q) <= Len(r) /\ Len(p) <= Len(y)
    BY <1>p, UnderIs
  <1>2. /\ a \in PathSeq /\ Len(a) = Len(p) + (Len(r) - Len(q))
    BY <1>p, GraftIs
  <1>a. Under(a, y)
    OBVIOUS
  <1> HIDE DEF a
  <1>3. Len(y) <= Len(a) /\ \A i \in 1..Len(y) : a[i] = y[i]
    BY <1>a, <1>2, UnderIs
  <1>4. n \in 1..Len(r) /\ n \in Nat /\ Len(q) <= n
    BY <1>0, <1>1, <1>2, <1>3
  <1>9. n - Len(q) + Len(p) = Len(y)
    BY <1>0
  <1> HIDE DEF n
  <1>5. x \in Paths
    BY <1>4, LocksetAssumption
  <1>6. Len(x) = n /\ \A i \in 1..n : x[i] = r[i]
    <2>1. r \in Seq(Alphabet)
      BY <1>p DEF PathSeq
    <2> QED BY <1>4, <2>1
  <1> HIDE DEF x
  <1>x. x \in PathSeq
    BY <1>5, PathsAre
  <1>7. Under(r, x)
    BY <1>p, <1>x, <1>4, <1>6, UnderIs
  <1>8. Under(x, q)
    <2>1. \A i \in 1..Len(q) : r[i] = q[i]
      BY <1>p, UnderIs
    <2>2. \A i \in 1..Len(q) : i \in 1..n
      BY <1>0, <1>4
    <2> QED BY <1>p, <1>x, <1>4, <1>6, <2>1, <2>2, UnderIs
  <1>b. b \in PathSeq /\ Len(b) = Len(p) + (n - Len(q)) /\ Under(a, b)
    BY <1>p, <1>x, <1>6, <1>7, <1>8, GraftIs, GraftUnder DEF a
  <1> HIDE DEF b
  <1>c. Len(b) = Len(y) /\ \A i \in 1..Len(b) : a[i] = b[i]
    <2>1. Len(b) = Len(y)
      BY <1>0, <1>4, <1>9, <1>b
    <2> QED BY <2>1, <1>b, <1>2, UnderIs
  <1>d. y = b
    BY <1>3, <1>b, <1>c, Same
  <1> QED
    BY <1>5, <1>7, <1>8, <1>d DEF b
-----------------------------------------------------------------------------
(* Induction on the numbers, in the form of facts about sets of them.      *)

LEMMA SmallestOf ==
    ASSUME NEW T, T \subseteq Nat, T # {}
    PROVE  \E x \in T : \A y \in T : x <= y
  <1> DEFINE Smaller == {p \in Nat \X Nat : p[1] < p[2]}
  <1>1. OpToRel(<, Nat) = Smaller
    BY DEF OpToRel
  <1>2. IsWellFoundedOn(Smaller, Nat)
    BY <1>1, NatLessThanWellFounded
  <1>3. PICK x \in T : \A y \in T : ~ (<<y, x>> \in Smaller)
    <2> HIDE DEF Smaller
    <2> QED BY <1>2, WFMin
  <1>4. ASSUME NEW y \in T PROVE x <= y
    <2>1. x \in Nat /\ y \in Nat /\ <<y, x>> \notin Smaller
      BY <1>3
    <2> QED BY <2>1
  <1> QED BY <1>4

LEMMA Induction ==
    ASSUME NEW T, 0 \in T, \A n \in Nat : n \in T => n + 1 \in T
    PROVE  Nat \subseteq T
  <1> DEFINE U == Nat \ T
  <1> SUFFICES ASSUME U # {} PROVE FALSE
    OBVIOUS
  <1>1. PICK x \in U : \A y \in U : x <= y
    <2> U \subseteq Nat OBVIOUS
    <2> HIDE DEF U
    <2> QED BY SmallestOf
  <1> QED BY <1>1

LEMMA LargestOf ==
    ASSUME NEW T, T \subseteq Nat, T # {}, NEW n \in Nat, \A x \in T : x <= n
    PROVE  \E x \in T : \A y \in T : y <= x
  <1> DEFINE U == {n - x : x \in T}
  <1>1. U \subseteq Nat /\ U # {}
    <2>1. \A x \in T : n - x \in Nat
      OBVIOUS
    <2> QED BY <2>1
  <1>2. PICK u \in U : \A v \in U : u <= v
    <2> HIDE DEF U
    <2> QED BY <1>1, SmallestOf
  <1>3. PICK x \in T : u = n - x
    OBVIOUS
  <1>4. ASSUME NEW y \in T PROVE y <= x
    <2>1. n - y \in U
      OBVIOUS
    <2>2. u <= n - y
      BY <1>2, <2>1
    <2> QED BY <1>3, <2>2
  <1> QED BY <1>4

-----------------------------------------------------------------------------
(* The bind that decides.                                                  *)

\* The last of a set of binds, zero where there is none.
Top(S) == IF S = {} THEN 0 ELSE Max(S)

LEMMA TopIs ==
    ASSUME NEW n \in Nat, NEW S, S \subseteq 1..n
    PROVE  /\ S = {} => Top(S) = 0
           /\ S # {} => Top(S) \in S /\ \A y \in S : y <= Top(S)
           /\ Top(S) \in 0..n
  <1>1. CASE S = {}
    BY <1>1 DEF Top
  <1>2. CASE S # {}
    <2>1. PICK x \in S : \A y \in S : y <= x
      <3>1. S \subseteq Nat /\ \A y \in S : y <= n
        OBVIOUS
      <3> QED BY <1>2, <3>1, LargestOf
    <2>2. \A y \in S : x >= y
      BY <2>1
    <2>3. Max(S) \in S /\ \A y \in S : Max(S) >= y
      BY <2>2 DEF Max
    <2>4. Top(S) = Max(S)
      BY <1>2 DEF Top
    <2>5. Top(S) \in S /\ \A y \in S : Top(S) >= y
      BY <2>3, <2>4
    <2>6. Top(S) \in 0..n
      <3>1. Top(S) \in 1..n
        BY <2>5
      <3> QED BY <3>1
    <2>7. \A y \in S : y <= Top(S)
      BY <2>5
    <2> QED BY <1>2, <2>5, <2>6, <2>7
  <1> QED BY <1>1, <1>2

LEMMA TopAt ==
    ASSUME NEW n \in Nat, NEW S, S \subseteq 1..n, NEW m \in S, \A y \in S : y <= m
    PROVE  Top(S) = m
  <1>1. Top(S) \in S /\ m <= Top(S)
    BY TopIs
  <1>2. Top(S) <= m
    BY <1>1
  <1>3. Top(S) \in Nat /\ m \in Nat
    <2>1. Top(S) \in 1..n /\ m \in 1..n
      BY <1>1
    <2> QED BY <2>1
  <1> QED BY <1>1, <1>2, <1>3

Binds(n) == SUBSET (1..n)

\* Two sets with the same last bind keep it when the same binds are added.
LEMMA TopJoin ==
    ASSUME NEW n \in Nat, NEW S \in Binds(n), NEW T \in Binds(n), NEW U \in Binds(n), Top(S) = Top(T)
    PROVE  Top(S \cup U) = Top(T \cup U)
  <1>0. S \subseteq 1..n /\ T \subseteq 1..n /\ U \subseteq 1..n
    BY DEF Binds
  <1>t. Top(S) \in Nat /\ Top(U) \in Nat
    <2>1. Top(S) \in 0..n /\ Top(U) \in 0..n
      BY <1>0, TopIs
    <2> QED BY <2>1
  <1>s. S = {} <=> T = {}
    <2>1. \A X \in SUBSET (1..n) : X = {} <=> Top(X) = 0
      <3>1. TAKE X \in SUBSET (1..n)
      <3>2. X # {} => Top(X) \in X
        BY TopIs
      <3>3. X = {} => Top(X) = 0
        BY DEF Top
      <3>4. 0 \notin X
        OBVIOUS
      <3> QED BY <3>2, <3>3, <3>4
    <2>2. S \in SUBSET (1..n) /\ T \in SUBSET (1..n)
      BY DEF Binds
    <2> QED BY <2>1, <2>2
  <1>1. CASE S = {}
    BY <1>1, <1>s
  <1>2. CASE S # {} /\ U = {}
    <2>1. S \cup U = S /\ T \cup U = T
      BY <1>2
    <2> QED BY <2>1
  <1>3. CASE S # {} /\ U # {}
    <2>1. Top(U) \in U /\ \A y \in U : y <= Top(U)
      BY <1>0, <1>3, TopIs
    <2>2. ASSUME NEW X \in {S, T}
          PROVE  Top(X \cup U) = IF Top(U) <= Top(S) THEN Top(S) ELSE Top(U)
      <3>1. Top(X) \in X /\ Top(X) = Top(S) /\ (\A y \in X : y <= Top(S)) /\ X \subseteq 1..n
        BY <1>0, <1>3, <1>s, TopIs
      <3>2. CASE Top(U) <= Top(S)
        <4>1. \A y \in U : y <= Top(S)
          <5>1. TAKE y \in U
          <5>2. y \in Nat /\ y <= Top(U)
            BY <1>0, <2>1
          <5> QED BY <5>2, <3>2, <1>t
        <4>2. Top(S) \in X \cup U /\ \A y \in X \cup U : y <= Top(S)
          BY <3>1, <4>1
        <4> QED BY <1>0, <3>1, <3>2, <4>2, TopAt
      <3>3. CASE ~ (Top(U) <= Top(S))
        <4>1. \A y \in X : y <= Top(U)
          <5>1. TAKE y \in X
          <5>2. y \in Nat /\ y <= Top(S)
            BY <3>1
          <5> QED BY <5>2, <3>3, <1>t
        <4>2. Top(U) \in X \cup U /\ \A y \in X \cup U : y <= Top(U)
          BY <2>1, <4>1
        <4> QED BY <1>0, <3>1, <3>3, <4>2, TopAt
      <3> QED BY <3>2, <3>3
    <2> QED BY <2>2
  <1> QED BY <1>1, <1>2, <1>3

-----------------------------------------------------------------------------
(* What the agent's operations leave alone, and what they make of fs.      *)

Nodes == [kind : {"none", "file", "dir", "link"}, id : Paths \cup {<<>>, Fresh}]

LEMMA NodesMade ==
    ASSUME NEW k \in {"none", "file", "dir", "link"}, NEW p \in Paths \cup {<<>>, Fresh}
    PROVE  Node(k, p) \in Nodes /\ None \in Nodes
  BY DEF Node, None, Nodes

LEMMA AgentKeeps ==
    ASSUME Agent
    PROVE  /\ phase = "run" /\ ops < MaxOps /\ ops' = ops + 1
           /\ UNCHANGED <<phase, cmd, tree, binds, watch, dangling, created, exit>>
  <1>1. Operation
    BY DEF Agent, Modify, Delete, Create, Rename
  <1>2. phase = "run" /\ ops < MaxOps /\ ops' = ops + 1
    BY <1>1 DEF Operation
  <1>3. UNCHANGED <<phase, cmd, tree, binds, watch, dangling, created, exit>>
    BY <1>1 DEF Operation
  <1> QED
    BY <1>2, <1>3

LEMMA AgentTypes ==
    ASSUME TypeOK, Agent
    PROVE  fs' \in [Paths -> Nodes] /\ dirty' \subseteq Paths \cup {<<>>, Fresh}
  <1>fs. fs \in [Paths -> Nodes] /\ dirty \subseteq Paths \cup {<<>>, Fresh}
    BY DEF TypeOK, Nodes
  <1>1. ASSUME NEW p \in Paths, Modify(p)
        PROVE  fs' \in [Paths -> Nodes] /\ dirty' \subseteq Paths \cup {<<>>, Fresh}
    <2>1. fs[p].id \in Paths \cup {<<>>, Fresh}
      BY <1>fs DEF Nodes
    <2> QED
      BY <1>1, <1>fs, <2>1 DEF Modify
  <1>2. ASSUME NEW p \in Paths, Delete(p)
        PROVE  fs' \in [Paths -> Nodes] /\ dirty' = dirty
    <2>1. None \in Nodes
      BY DEF None, Nodes
    <2> QED
      BY <1>2, <1>fs, <2>1 DEF Delete
  <1>3. ASSUME NEW p \in Paths, NEW kind \in Kinds, Create(p, kind)
        PROVE  fs' \in [Paths -> Nodes] /\ dirty' = dirty
    <2>1. Node(kind, Fresh) \in Nodes
      BY LocksetAssumption, NodesMade
    <2> QED
      BY <1>3, <1>fs, <2>1 DEF Create
  <1>4. ASSUME NEW p \in Paths, NEW q \in Paths, Rename(p, q)
        PROVE  fs' \in [Paths -> Nodes] /\ dirty' = dirty
    <2> DEFINE at(r) == p \o SubSeq(r, Len(q) + 1, Len(r))
    <2>1. None \in Nodes
      BY DEF None, Nodes
    <2>2. /\ fs' = [r \in Paths |-> IF Under(r, p) THEN None
                                    ELSE IF Under(r, q) /\ at(r) \in Paths
                                    THEN fs[at(r)] ELSE fs[r]]
          /\ dirty' = dirty
      BY <1>4 DEF Rename
    <2> HIDE DEF at
    <2> QED
      BY <1>fs, <2>1, <2>2
  <1> QED
    BY <1>1, <1>2, <1>3, <1>4, <1>fs DEF Agent

-----------------------------------------------------------------------------
(* The nodes and their mounts.                                             *)

\* The binds over a path now, and the binds over it at launch.
Over(p) == {i \in 1..Len(binds) : binds[i].path \in Chain(p)}
AtLaunch(p) == {i \in 1..Len(binds) : Under(p, binds[i].path)}

\* At launch the agent could not write what was at p.
ReadOnly(p) == Top(AtLaunch(p)) = 0 \/ binds[Top(AtLaunch(p))].ro

\* What lies above a node is a directory.
Rooted ==
    \A r, x \in Paths :
        fs[r].kind # "none" /\ Under(r, x) /\ r # x => fs[x].kind = "dir"

\* A node is reached through the mount it was reached through at launch,
\* wherever it has been moved.
MountsKept ==
    Launched =>
        \A r \in Paths :
            fs[r].kind # "none" /\ fs[r].id \in Paths => MountOf(r) = Top(AtLaunch(fs[r].id))

LEMMA MountIs ==
    ASSUME NEW p
    PROVE  MountOf(p) = Top(Over(p))
  BY DEF MountOf, Top, Over

LEMMA ChainKept ==
    ASSUME NEW r \in Paths, \A x \in Paths : Under(r, x) => fs'[x] = fs[x], binds' = binds
    PROVE  MountOf(r)' = MountOf(r)
  <1>1. Chain(r)' = Chain(r)
    BY DEF Chain
  <1> QED
    BY <1>1 DEF MountOf

\* What a path is reached through is decided by the path and by its parent.
LEMMA OverParent ==
    ASSUME NEW p \in Paths, Parent(p) \in Paths
    PROVE  Over(p) = Over(Parent(p)) \cup {i \in 1..Len(binds) : binds[i].path = fs[p].id}
  <1>1. \A x \in Paths : Under(p, x) <=> x = p \/ Under(Parent(p), x)
    BY ParentIs
  <1>2. Chain(p) = Chain(Parent(p)) \cup {fs[p].id}
    BY <1>1 DEF Chain
  <1> QED
    BY <1>2 DEF Over

-----------------------------------------------------------------------------
(* The agent's operations.                                                 *)

LEMMA CreateFacts ==
    ASSUME fs \in [Paths -> Nodes], Rooted, NEW p \in Paths, NEW kind \in Kinds, Create(p, kind)
    PROVE  /\ fs[p].kind = "none" /\ CanEdit(Parent(p)) /\ fs'[p] = Node(kind, Fresh)
           /\ \A r \in Paths : r # p => fs'[r] = fs[r]
           /\ \A r \in Paths : Under(r, p) => fs[r].kind = "none"
  <1>1. fs[p].kind = "none" /\ CanEdit(Parent(p)) /\ fs' = [fs EXCEPT ![p] = Node(kind, Fresh)]
    BY DEF Create
  <1>2. fs'[p] = Node(kind, Fresh) /\ \A r \in Paths : r # p => fs'[r] = fs[r]
    BY <1>1
  <1>3. \A r \in Paths : Under(r, p) => fs[r].kind = "none"
    BY <1>1 DEF Rooted
  <1> QED
    BY <1>1, <1>2, <1>3

LEMMA DeleteFacts ==
    ASSUME fs \in [Paths -> Nodes], NEW p \in Paths, Delete(p)
    PROVE  /\ CanEdit(Parent(p)) /\ ~IsMountpoint(p) /\ fs[p].kind # "none" /\ fs'[p] = None
           /\ \A r \in Paths : r # p => fs'[r] = fs[r]
           /\ \A r \in Paths : Under(r, p) /\ r # p => fs[r].kind = "none"
  <1>1. fs' = [fs EXCEPT ![p] = None]
    BY DEF Delete
  <1>2. fs'[p] = None /\ \A r \in Paths : r # p => fs'[r] = fs[r]
    BY <1>1
  <1> QED
    BY <1>2 DEF Delete

LEMMA RenameFacts ==
    ASSUME fs \in [Paths -> Nodes], Rooted, NEW p \in Paths, NEW q \in Paths, Rename(p, q)
    PROVE  /\ fs[p].kind # "none" /\ CanEdit(Parent(p)) /\ CanEdit(Parent(q))
           /\ MountOf(Parent(p)) = MountOf(Parent(q)) /\ ~IsMountpoint(p)
           /\ ~Under(q, p) /\ ~Under(p, q)
           /\ \A r \in Paths : Under(r, q) => fs[r].kind = "none"
           /\ \A r \in Paths : Under(r, p) => fs'[r] = None
           /\ \A r \in Paths : Under(r, q) /\ Graft(r, q, p) \in Paths => fs'[r] = fs[Graft(r, q, p)]
           /\ \A r \in Paths : ~Under(r, p) /\ ~(Under(r, q) /\ Graft(r, q, p) \in Paths) => fs'[r] = fs[r]
  <1>1. /\ fs[p].kind # "none" /\ fs[q].kind = "none" /\ ~Under(q, p)
        /\ CanEdit(Parent(p)) /\ CanEdit(Parent(q))
        /\ MountOf(Parent(p)) = MountOf(Parent(q)) /\ ~IsMountpoint(p)
    BY DEF Rename
  <1>2. fs' = [r \in Paths |-> IF Under(r, p) THEN None
                               ELSE IF Under(r, q) /\ Graft(r, q, p) \in Paths
                               THEN fs[Graft(r, q, p)] ELSE fs[r]]
    BY DEF Rename, Graft
  <1>3. \A r \in Paths : Under(r, q) => fs[r].kind = "none"
    BY <1>1 DEF Rooted
  <1>4. ~Under(p, q)
    BY <1>1, <1>3
  <1>5. \A r \in Paths : Under(r, q) => ~Under(r, p)
    <2>1. TAKE r \in Paths
    <2> QED BY <1>1, <1>4, PathsAre, UnderOrder
  <1>6. /\ \A r \in Paths : Under(r, p) => fs'[r] = None
        /\ \A r \in Paths : Under(r, q) /\ Graft(r, q, p) \in Paths => fs'[r] = fs[Graft(r, q, p)]
        /\ \A r \in Paths : ~Under(r, p) /\ ~(Under(r, q) /\ Graft(r, q, p) \in Paths) => fs'[r] = fs[r]
    BY <1>2, <1>5
  <1> QED
    BY <1>1, <1>3, <1>4, <1>6

\* After a renaming, what is there is what was moved or what was elsewhere.
LEMMA RenameCases ==
    ASSUME fs \in [Paths -> Nodes], Rooted, NEW p \in Paths, NEW q \in Paths, Rename(p, q),
           NEW r \in Paths, fs'[r].kind # "none"
    PROVE  \/ /\ Under(r, q) /\ Graft(r, q, p) \in Paths
              /\ fs'[r] = fs[Graft(r, q, p)]
           \/ /\ ~Under(r, q) /\ ~Under(r, p) /\ fs'[r] = fs[r]
              /\ \A x \in Paths : Under(r, x) => fs'[x] = fs[x]
  <1>0. None.kind = "none"
    BY DEF None
  <1>1. ~Under(r, p)
    BY <1>0, RenameFacts
  <1>2. CASE Under(r, q)
    <2>1. Graft(r, q, p) \in Paths
      BY <1>1, <1>2, RenameFacts
    <2> QED BY <1>2, <2>1, RenameFacts
  <1>3. CASE ~Under(r, q)
    <2>1. ASSUME NEW x \in Paths, Under(r, x) PROVE fs'[x] = fs[x]
      <3>1. ~Under(x, p) /\ ~Under(x, q)
        BY <1>1, <1>3, <2>1, PathsAre, UnderOrder
      <3> QED BY <3>1, RenameFacts
    <2>2. Under(r, r)
      BY PathsAre, UnderOrder
    <2> QED BY <1>1, <1>3, <2>1, <2>2
  <1> QED BY <1>2, <1>3

LEMMA RootedStep ==
    ASSUME fs \in [Paths -> Nodes], Rooted, Agent
    PROVE  Rooted'
  <1>n. None.kind = "none"
    BY DEF None
  <1>1. ASSUME NEW p \in Paths, Modify(p) PROVE Rooted'
    BY <1>1 DEF Modify, Rooted
  <1>2. ASSUME NEW p \in Paths, Delete(p) PROVE Rooted'
    <2>1. SUFFICES ASSUME NEW r \in Paths, NEW x \in Paths, fs'[r].kind # "none", Under(r, x), r # x
                   PROVE  fs'[x].kind = "dir"
      BY DEF Rooted
    <2>2. r # p /\ fs'[r] = fs[r]
      BY <1>2, <1>n, <2>1, DeleteFacts
    <2>3. x # p
      BY <1>2, <2>1, <2>2, DeleteFacts
    <2>4. fs'[x] = fs[x]
      BY <1>2, <2>3, DeleteFacts
    <2> QED BY <2>1, <2>2, <2>4 DEF Rooted
  <1>3. ASSUME NEW p \in Paths, NEW kind \in Kinds, Create(p, kind) PROVE Rooted'
    <2>1. SUFFICES ASSUME NEW r \in Paths, NEW x \in Paths, fs'[r].kind # "none", Under(r, x), r # x
                   PROVE  fs'[x].kind = "dir"
      BY DEF Rooted
    <2>2. CASE r = p
      <3>1. Parent(p) \in Paths /\ fs[Parent(p)].kind = "dir" /\ fs[p].kind = "none"
        BY <1>3, CreateFacts DEF CanEdit
      <3>2. Parent(p) # p /\ Under(Parent(p), x)
        BY <2>1, <2>2, <3>1, ParentIs
      <3>3. x = Parent(p) \/ fs[x].kind = "dir"
        BY <3>1, <3>2 DEF Rooted
      <3>4. fs[x].kind = "dir" /\ x # p
        BY <3>1, <3>3
      <3> QED BY <1>3, <3>4, CreateFacts
    <2>3. CASE r # p
      <3>1. fs'[r] = fs[r]
        BY <1>3, <2>3, CreateFacts
      <3>2. x # p
        BY <1>3, <2>1, <3>1, CreateFacts
      <3>3. fs'[x] = fs[x]
        BY <1>3, <3>2, CreateFacts
      <3> QED BY <2>1, <3>1, <3>3 DEF Rooted
    <2> QED BY <2>2, <2>3
  <1>4. ASSUME NEW p \in Paths, NEW q \in Paths, Rename(p, q) PROVE Rooted'
    <2>1. SUFFICES ASSUME NEW r \in Paths, NEW x \in Paths, fs'[r].kind # "none", Under(r, x), r # x
                   PROVE  fs'[x].kind = "dir"
      BY DEF Rooted
    <2>0. p \in PathSeq /\ q \in PathSeq /\ r \in PathSeq /\ x \in PathSeq
      BY PathsAre
    <2>2. CASE ~Under(r, q)
      <3>1. fs'[r] = fs[r] /\ fs'[x] = fs[x]
        BY <1>4, <2>1, <2>2, RenameCases
      <3> QED BY <2>1, <3>1 DEF Rooted
    <2>3. CASE Under(r, q)
      <3> DEFINE a == Graft(r, q, p)
      <3>1. a \in Paths /\ fs[a].kind # "none"
        BY <1>4, <2>1, <2>3, RenameCases
      <3>2. CASE Under(x, q)
        <4> DEFINE b == Graft(x, q, p)
        <4>1. Under(a, b) /\ a # b /\ Under(b, p)
          BY <2>0, <2>1, <3>2, GraftUnder
        <4>2. b \in Paths
          <5>1. b \in PathSeq
            BY <2>0, <3>2, GraftIs
          <5> HIDE DEF a, b
          <5> QED BY <3>1, <4>1, <5>1, AboveIn
        <4>3. fs'[x] = fs[b]
          BY <1>4, <3>2, <4>2, RenameFacts
        <4> HIDE DEF a, b
        <4> QED BY <3>1, <4>1, <4>2, <4>3 DEF Rooted
      <3>3. CASE ~Under(x, q)
        <4>1. Under(q, x) /\ q # x
          BY <2>0, <2>1, <2>3, <3>3, UnderOrder
        <4>2. Parent(q) \in Paths /\ fs[Parent(q)].kind = "dir"
          BY <1>4, RenameFacts DEF CanEdit
        <4>3. Under(Parent(q), x)
          BY <4>1, <4>2, ParentIs
        <4>4. fs[x].kind = "dir"
          BY <4>2, <4>3 DEF Rooted
        <4>5. ~Under(x, p)
          BY <1>4, <2>0, <4>1, UnderOrder, RenameFacts
        <4>6. fs'[x] = fs[x]
          BY <1>4, <3>3, <4>5, RenameFacts
        <4> QED BY <4>4, <4>6
      <3> QED BY <3>2, <3>3
    <2> QED BY <2>2, <2>3
  <1> QED
    BY <1>1, <1>2, <1>3, <1>4 DEF Agent

LEMMA RenameMounts ==
    ASSUME fs \in [Paths -> Nodes], Rooted, Len(binds) \in Nat, binds' = binds,
           NEW p \in Paths, NEW q \in Paths, Rename(p, q),
           NEW r \in Paths, Under(r, q), Graft(r, q, p) \in Paths
    PROVE  MountOf(r)' = MountOf(Graft(r, q, p))
  <1> DEFINE a == Graft(r, q, p)
             tail == {fs[y].id : y \in {y \in Paths : Under(a, y) /\ Under(y, p)}}
             C == {i \in 1..Len(binds) : binds[i].path \in tail}
  <1>0. p \in PathSeq /\ q \in PathSeq /\ r \in PathSeq /\ a \in PathSeq
    BY PathsAre
  <1>1. /\ Parent(p) \in Paths /\ Parent(q) \in Paths
        /\ Top(Over(Parent(p))) = Top(Over(Parent(q)))
    BY RenameFacts, MountIs DEF CanEdit
  <1>2. Under(a, p)
    BY <1>0, GraftUnder, UnderOrder
  <1>3. ASSUME NEW y \in Paths
        PROVE  Under(a, y) <=> Under(Parent(p), y) \/ (Under(a, y) /\ Under(y, p))
    <2>1. y \in PathSeq
      BY PathsAre
    <2>2. ASSUME Under(a, y), ~Under(y, p) PROVE Under(Parent(p), y)
      <3>1. Under(p, y) /\ y # p
        BY <1>0, <1>2, <2>1, <2>2, UnderOrder
      <3> QED BY <1>1, <3>1, ParentIs
    <2>3. ASSUME Under(Parent(p), y) PROVE Under(a, y)
      <3>1. Under(p, y)
        BY <1>1, <2>3, ParentIs
      <3> QED BY <1>0, <1>2, <2>1, <3>1, UnderOrder
    <2> QED BY <2>2, <2>3
  <1>4. Chain(a) = Chain(Parent(p)) \cup tail
    <2> HIDE DEF a
    <2> QED BY <1>3 DEF Chain
  <1>5. ASSUME NEW x \in Paths, Under(r, x), ~Under(x, q)
        PROVE  Under(Parent(q), x) /\ fs'[x] = fs[x]
    <2>1. x \in PathSeq
      BY PathsAre
    <2>2. Under(q, x) /\ x # q
      BY <1>0, <1>5, <2>1, UnderOrder
    <2>3. ~Under(x, p)
      BY <1>0, <2>1, <2>2, UnderOrder, RenameFacts
    <2> QED BY <1>1, <1>5, <2>2, <2>3, ParentIs, RenameFacts
  <1>6. ASSUME NEW x \in Paths, Under(Parent(q), x)
        PROVE  Under(r, x) /\ fs'[x] = fs[x]
    <2>1. x \in PathSeq
      BY PathsAre
    <2>2. Under(q, x) /\ ~Under(x, q)
      <3>1. Under(q, x)
        BY <1>1, <1>6, ParentIs
      <3>2. ASSUME x = q PROVE FALSE
        <4>1. Under(Parent(q), q) /\ Under(q, Parent(q)) /\ Parent(q) # q
          BY <1>1, <1>6, <3>2, ParentIs
        <4>2. Parent(q) \in PathSeq
          BY <1>1, PathsAre
        <4> QED BY <1>0, <4>1, <4>2, UnderOrder
      <3> QED BY <1>0, <2>1, <3>1, <3>2, UnderOrder
    <2>3. ~Under(x, p)
      BY <1>0, <2>1, <2>2, UnderOrder, RenameFacts
    <2> QED BY <1>0, <2>1, <2>2, <2>3, UnderOrder, RenameFacts
  <1>7. ASSUME NEW x \in Paths, Under(r, x), Under(x, q)
        PROVE  /\ Graft(x, q, p) \in Paths /\ Under(a, Graft(x, q, p)) /\ Under(Graft(x, q, p), p)
               /\ fs'[x] = fs[Graft(x, q, p)]
    <2>1. x \in PathSeq
      BY PathsAre
    <2>2. Under(a, Graft(x, q, p)) /\ Under(Graft(x, q, p), p) /\ Graft(x, q, p) \in PathSeq
      BY <1>0, <1>7, <2>1, GraftUnder, GraftIs
    <2>3. Graft(x, q, p) \in Paths
      BY <2>2, AboveIn
    <2> QED BY <1>7, <2>2, <2>3, RenameFacts
  <1>8. ASSUME NEW y \in Paths, Under(a, y), Under(y, p)
        PROVE  \E x \in Paths : Under(r, x) /\ fs'[x] = fs[y]
    <2>1. PICK x \in Paths : Under(r, x) /\ Under(x, q) /\ y = Graft(x, q, p)
      BY <1>0, <1>8, PathsAre, GraftBack
    <2> QED BY <2>1, <1>7
  <1>9. Chain(r)' = Chain(Parent(q)) \cup tail
    <2>1. ASSUME NEW id \in Chain(r)' PROVE id \in Chain(Parent(q)) \cup tail
      <3>1. PICK x \in Paths : Under(r, x) /\ id = fs'[x].id
        BY <2>1 DEF Chain
      <3>2. CASE Under(x, q)
        BY <1>7, <3>1, <3>2
      <3>3. CASE ~Under(x, q)
        BY <1>5, <3>1, <3>3 DEF Chain
      <3> QED BY <3>2, <3>3
    <2>2. ASSUME NEW id \in Chain(Parent(q)) PROVE id \in Chain(r)'
      <3>1. PICK x \in Paths : Under(Parent(q), x) /\ id = fs[x].id
        BY <2>2 DEF Chain
      <3> QED BY <1>6, <3>1 DEF Chain
    <2>3. ASSUME NEW id \in tail PROVE id \in Chain(r)'
      <3>1. PICK y \in Paths : Under(a, y) /\ Under(y, p) /\ id = fs[y].id
        BY <2>3
      <3>2. PICK x \in Paths : Under(r, x) /\ fs'[x] = fs[y]
        BY <1>8, <3>1
      <3> QED BY <3>1, <3>2 DEF Chain
    <2> HIDE DEF tail
    <2> QED BY <2>1, <2>2, <2>3
  <1> HIDE DEF tail, a
  <1>10. Over(a) = Over(Parent(p)) \cup C
    BY <1>4 DEF Over
  <1>11. Over(r)' = Over(Parent(q)) \cup C
    BY <1>9 DEF Over
  <1>12. Over(Parent(p)) \subseteq 1..Len(binds) /\ Over(Parent(q)) \subseteq 1..Len(binds) /\ C \subseteq 1..Len(binds)
    BY DEF Over
  <1>13. Top(Over(Parent(p)) \cup C) = Top(Over(Parent(q)) \cup C)
    <2> DEFINE n == Len(binds)
               S == Over(Parent(p))
               T == Over(Parent(q))
    <2>1. n \in Nat /\ S \subseteq 1..n /\ T \subseteq 1..n /\ C \subseteq 1..n /\ Top(S) = Top(T)
      BY <1>1, <1>12
    <2> HIDE DEF n, S, T, C
    <2>2. S \in Binds(n) /\ T \in Binds(n) /\ C \in Binds(n)
      BY <2>1 DEF Binds
    <2>3. Top(S \cup C) = Top(T \cup C)
      BY <2>1, <2>2, TopJoin
    <2> QED BY <2>3 DEF S, T
  <1>14. MountOf(r)' = Top(Over(r)')
    BY DEF MountOf, Top, Over
  <1> QED
    BY <1>10, <1>11, <1>13, <1>14, MountIs DEF a

LEMMA MountsStep ==
    ASSUME fs \in [Paths -> Nodes], Rooted, Len(binds) \in Nat, MountsKept, Agent
    PROVE  MountsKept'
  <1>n. None.kind = "none" /\ \A kind \in Kinds : Node(kind, Fresh).id = Fresh
    BY DEF None, Node
  <1>f. Fresh \notin Paths
    BY LocksetAssumption
  <1>k. /\ phase = "run" /\ binds' = binds /\ phase' = phase
        /\ \A p : AtLaunch(p)' = AtLaunch(p)
    BY AgentKeeps DEF AtLaunch
  <1>m. \A r \in Paths :
            fs[r].kind # "none" /\ fs[r].id \in Paths => MountOf(r) = Top(AtLaunch(fs[r].id))
    BY <1>k DEF MountsKept, Launched
  <1>g. SUFFICES ASSUME NEW r \in Paths, fs'[r].kind # "none", fs'[r].id \in Paths
                 PROVE  MountOf(r)' = Top(AtLaunch(fs'[r].id))
    BY <1>k DEF MountsKept, Launched
  <1>s. ASSUME \A x \in Paths : Under(r, x) => fs'[x] = fs[x]
        PROVE  MountOf(r)' = Top(AtLaunch(fs'[r].id))
    <2>1. MountOf(r)' = MountOf(r)
      BY <1>k, <1>s, ChainKept
    <2>2. fs'[r] = fs[r]
      BY <1>s, PathsAre, UnderOrder
    <2> QED BY <1>m, <1>g, <2>1, <2>2
  <1>1. ASSUME NEW p \in Paths, Modify(p) PROVE MountOf(r)' = Top(AtLaunch(fs'[r].id))
    BY <1>1, <1>s DEF Modify
  <1>2. ASSUME NEW p \in Paths, Delete(p) PROVE MountOf(r)' = Top(AtLaunch(fs'[r].id))
    <2>1. r # p /\ fs'[r] = fs[r]
      BY <1>2, <1>n, <1>g, DeleteFacts
    <2>2. ~Under(r, p)
      BY <1>2, <1>g, <2>1, DeleteFacts
    <2>3. \A x \in Paths : Under(r, x) => fs'[x] = fs[x]
      BY <1>2, <2>2, DeleteFacts
    <2> QED BY <1>s, <2>3
  <1>3. ASSUME NEW p \in Paths, NEW kind \in Kinds, Create(p, kind)
        PROVE  MountOf(r)' = Top(AtLaunch(fs'[r].id))
    <2>1. r # p
      BY <1>3, <1>n, <1>f, <1>g, CreateFacts
    <2>2. fs'[r] = fs[r]
      BY <1>3, <2>1, CreateFacts
    <2>3. ~Under(r, p)
      BY <1>3, <1>g, <2>2, CreateFacts
    <2>4. \A x \in Paths : Under(r, x) => fs'[x] = fs[x]
      BY <1>3, <2>3, CreateFacts
    <2> QED BY <1>s, <2>4
  <1>4. ASSUME NEW p \in Paths, NEW q \in Paths, Rename(p, q)
        PROVE  MountOf(r)' = Top(AtLaunch(fs'[r].id))
    <2>1. CASE Under(r, q) /\ Graft(r, q, p) \in Paths /\ fs'[r] = fs[Graft(r, q, p)]
      <3>1. MountOf(r)' = MountOf(Graft(r, q, p))
        BY <1>4, <1>k, <2>1, RenameMounts
      <3> QED BY <1>m, <1>g, <2>1, <3>1
    <2>2. CASE \A x \in Paths : Under(r, x) => fs'[x] = fs[x]
      BY <1>s, <2>2
    <2> QED BY <1>4, <1>g, <2>1, <2>2, RenameCases
  <1> QED
    BY <1>1, <1>2, <1>3, <1>4 DEF Agent

-----------------------------------------------------------------------------
(* What stays as it was.                                                   *)

Bound(p) == \E i \in 1..Len(binds) : binds[i].path = p

\* A bound node that stays at its path: each directory above it is bound as
\* well, or lies where the agent could not write.
Held(p) ==
    /\ Bound(p) /\ tree[p].kind # "none"
    /\ \A d \in Paths :
          Under(p, d) => Bound(d) \/ (Parent(d) \in Paths => ReadOnly(Parent(d)))

\* Nothing from p down to q can be written.
Sealed(p, q) == Under(q, p) /\ \A x \in Paths : Under(q, x) /\ Under(x, p) => ReadOnly(x)

Placed ==
    Launched => \A p, q \in Paths : Held(p) /\ (Under(p, q) \/ Sealed(p, q)) => fs[q] = tree[q]

Clean == Launched => \A q \in dirty \cap Paths : ~ReadOnly(q)

\* The node of launch, where it still is, is written only through its mount.
LEMMA InPlace ==
    ASSUME Launched, MountsKept, NEW x \in Paths, fs[x] = tree[x], tree[x].kind # "none",
           tree[x].id = x, ReadOnly(x)
    PROVE  ~CanWrite(x)
  BY DEF MountsKept, CanWrite, ReadOnly

TreeShape ==
    \A p \in Paths :
        tree[p].kind # "none" =>
            /\ tree[p].id = p
            /\ \A q \in Paths : Under(p, q) => q = p \/ tree[q].kind = "dir"

LEMMA TreeShaped ==
    ASSUME NEW l \in Launches, tree = l.tree
    PROVE  TreeShape
  BY LocksetAssumption DEF TreeShape

\* Between the directory above and what is to be kept, the agent can edit
\* only where a mountpoint stands.
LEMMA Guarded ==
    ASSUME Launched, TreeShape, MountsKept, Placed,
           NEW p \in Paths, NEW q \in Paths, Held(p), Under(p, q) \/ Sealed(p, q),
           NEW x \in Paths, Under(q, x), CanEdit(Parent(x))
    PROVE  fs[x].kind # "none" /\ IsMountpoint(x)
  <1>0. p \in PathSeq /\ q \in PathSeq /\ x \in PathSeq
    BY PathsAre
  <1>1. Parent(x) \in Paths /\ fs[Parent(x)].kind = "dir" /\ CanWrite(Parent(x))
    BY DEF CanEdit
  <1>2. Parent(x) \in PathSeq /\ Under(x, Parent(x)) /\ Parent(x) # x
    BY <1>1, PathsAre, ParentIs
  <1>3. CASE Under(p, x)
    <2>1. fs[x] = tree[x] /\ tree[x].kind # "none" /\ tree[x].id = x
      <3>1. fs[x] = tree[x]
        BY <1>3 DEF Placed
      <3>2. tree[x].kind # "none"
        BY <1>3 DEF Held, TreeShape
      <3> QED BY <3>1, <3>2 DEF TreeShape
    <2>2. CASE Bound(x)
      BY <2>1, <2>2 DEF Bound, IsMountpoint
    <2>3. CASE ~Bound(x)
      <3>1. ReadOnly(Parent(x))
        BY <1>1, <1>3, <2>3 DEF Held
      <3>2. Under(p, Parent(x))
        BY <1>0, <1>2, <1>3, UnderOrder
      <3>3. fs[Parent(x)] = tree[Parent(x)]
        BY <1>1, <3>2 DEF Placed
      <3>4. tree[Parent(x)].kind # "none" /\ tree[Parent(x)].id = Parent(x)
        BY <1>1, <3>3 DEF TreeShape
      <3> QED BY <1>1, <3>1, <3>3, <3>4, InPlace
    <2> QED BY <2>2, <2>3
  <1>4. CASE ~Under(p, x)
    <2>1. Sealed(p, q) /\ Under(q, p)
      BY <1>0, <1>4, UnderOrder DEF Sealed
    <2>2. Under(x, p) /\ x # p
      <3>1. Under(x, p)
        BY <1>0, <1>4, <2>1, UnderOrder
      <3> QED BY <1>0, <1>4, <3>1, UnderOrder
    <2>3. Under(Parent(x), p) /\ Under(q, Parent(x))
      BY <1>0, <1>1, <1>2, <2>2, UnderOrder, ParentIs
    <2>4. ReadOnly(Parent(x)) /\ Sealed(p, Parent(x))
      <3>1. \A y \in Paths : Under(Parent(x), y) => Under(q, y)
        BY <1>0, <1>2, <2>3, PathsAre, UnderOrder
      <3> QED BY <1>1, <2>1, <2>3, <3>1 DEF Sealed
    <2>5. fs[Parent(x)] = tree[Parent(x)]
      BY <1>1, <2>4 DEF Placed
    <2>6. tree[Parent(x)].kind # "none" /\ tree[Parent(x)].id = Parent(x)
      BY <1>1, <2>5 DEF TreeShape
    <2> QED BY <1>1, <2>4, <2>5, <2>6, InPlace
  <1> QED BY <1>3, <1>4

LEMMA PlacedStep ==
    ASSUME fs \in [Paths -> Nodes], TreeShape, Rooted, MountsKept, Placed, Agent
    PROVE  Placed'
  <1>k. /\ phase = "run" /\ Launched /\ binds' = binds /\ phase' = phase /\ tree' = tree
        /\ \A p : ReadOnly(p)' = ReadOnly(p) /\ Held(p)' = Held(p)
        /\ \A p, q : Sealed(p, q)' = Sealed(p, q)
    <2>1. phase = "run" /\ binds' = binds /\ phase' = phase /\ tree' = tree
      BY AgentKeeps
    <2>2. \A p : ReadOnly(p)' = ReadOnly(p)
      BY <2>1 DEF ReadOnly, AtLaunch
    <2> QED BY <2>1, <2>2 DEF Launched, Held, Sealed, Bound
  <1>g. SUFFICES ASSUME NEW p \in Paths, NEW q \in Paths, Held(p), Under(p, q) \/ Sealed(p, q)
                 PROVE  fs'[q] = fs[q]
    BY <1>k DEF Placed
  <1>0. Under(q, q)
    BY PathsAre, UnderOrder
  <1>1. ASSUME NEW x \in Paths, Modify(x) PROVE fs'[q] = fs[q]
    BY <1>1 DEF Modify
  <1>2. ASSUME NEW x \in Paths, Delete(x) PROVE fs'[q] = fs[q]
    <2>1. ~Under(q, x)
      BY <1>2, <1>k, <1>g, Guarded, DeleteFacts
    <2> QED BY <1>0, <1>2, <2>1, DeleteFacts
  <1>3. ASSUME NEW x \in Paths, NEW kind \in Kinds, Create(x, kind) PROVE fs'[q] = fs[q]
    <2>1. ~Under(q, x)
      BY <1>3, <1>k, <1>g, Guarded, CreateFacts
    <2> QED BY <1>0, <1>3, <2>1, CreateFacts
  <1>4. ASSUME NEW x \in Paths, NEW y \in Paths, Rename(x, y) PROVE fs'[q] = fs[q]
    <2>1. ~Under(q, x)
      BY <1>4, <1>k, <1>g, Guarded, RenameFacts
    <2>2. ~Under(q, y)
      <3>1. fs[y].kind = "none"
        BY <1>4 DEF Rename
      <3> QED BY <1>4, <1>k, <1>g, <3>1, Guarded, RenameFacts
    <2> QED BY <1>4, <2>1, <2>2, RenameFacts
  <1> QED
    BY <1>1, <1>2, <1>3, <1>4 DEF Agent

LEMMA CleanStep ==
    ASSUME fs \in [Paths -> Nodes], MountsKept, Clean, Agent
    PROVE  Clean'
  <1>k. /\ phase = "run" /\ Launched /\ binds' = binds /\ phase' = phase
        /\ \A p : ReadOnly(p)' = ReadOnly(p)
    BY AgentKeeps DEF Launched, ReadOnly, AtLaunch
  <1>1. ASSUME NEW p \in Paths, Modify(p) PROVE Clean'
    <2>1. fs[p].kind = "file" /\ CanWrite(p) /\ dirty' = dirty \cup {fs[p].id}
      BY <1>1 DEF Modify
    <2>2. fs[p].id \in Paths => ~ReadOnly(fs[p].id)
      BY <1>k, <2>1 DEF MountsKept, CanWrite, ReadOnly
    <2> QED BY <1>k, <2>1, <2>2 DEF Clean
  <1>2. ASSUME dirty' = dirty PROVE Clean'
    BY <1>2, <1>k DEF Clean
  <1> QED
    BY <1>1, <1>2 DEF Agent, Delete, Create, Rename

-----------------------------------------------------------------------------
(* The lock plan.                                                          *)

LEMMA SortedIs ==
    ASSUME NEW S \in SUBSET Paths
    PROVE  /\ Cardinality(S) \in Nat
           /\ Sorted(S) \in [1..Cardinality(S) -> S] /\ Range(Sorted(S)) = S
  <1> DEFINE Ordered(X, s) == /\ Range(s) = X
                              /\ \A i, j \in DOMAIN s : i < j => Len(s[i]) <= Len(s[j])
             T == {n \in Nat : \A X \in SUBSET Paths :
                      Cardinality(X) = n => \E s \in [1..n -> X] : Ordered(X, s)}
  <1>f. \A X \in SUBSET Paths : IsFiniteSet(X) /\ Cardinality(X) \in Nat
    <2>1. IsFiniteSet(Paths)
      BY LocksetAssumption
    <2> QED BY <2>1, FS_Subset, FS_CardinalityType
  <1>1. 0 \in T
    <2>1. ASSUME NEW X \in SUBSET Paths, Cardinality(X) = 0
          PROVE  \E s \in [1..0 -> X] : Ordered(X, s)
      <3>1. X = {}
        BY <1>f, <2>1, FS_EmptySet
      <3> DEFINE s == [i \in 1..0 |-> i]
      <3>2. s \in [1..0 -> X] /\ Range(s) = X /\ DOMAIN s = {}
        BY <3>1 DEF Range
      <3> HIDE DEF s
      <3> QED BY <3>2
    <2> QED BY <2>1
  <1>2. ASSUME NEW n \in Nat, n \in T PROVE n + 1 \in T
    <2>1. ASSUME NEW X \in SUBSET Paths, Cardinality(X) = n + 1
          PROVE  \E s \in [1..(n + 1) -> X] : Ordered(X, s)
      <3> DEFINE lens == {Len(p) : p \in X}
      <3>1. lens \subseteq Nat /\ X # {}
        <4>1. X # {}
          BY <1>f, <2>1, FS_EmptySet
        <4> QED BY <4>1, PathsAre
      <3>2. PICK x \in X : \A y \in X : Len(x) <= Len(y)
        <4>1. lens # {}
          BY <3>1
        <4>2. PICK m \in lens : \A k \in lens : m <= k
          <5> HIDE DEF lens
          <5> QED BY <3>1, <4>1, SmallestOf
        <4> QED BY <4>2
      <3> DEFINE Y == X \ {x}
      <3>3. Y \in SUBSET Paths /\ Cardinality(Y) = n
        <4>1. Cardinality(Y) = Cardinality(X) - 1
          BY <1>f, FS_RemoveElement
        <4> QED BY <2>1, <4>1
      <3>4. PICK r \in [1..n -> Y] : Ordered(Y, r)
        <4> HIDE DEF Y, Ordered
        <4> QED BY <1>2, <3>3
      <3> DEFINE s == [i \in 1..(n + 1) |-> IF i = 1 THEN x ELSE r[i - 1]]
      <3>5. \A i \in 1..(n + 1) : i # 1 => i - 1 \in 1..n /\ s[i] = r[i - 1] /\ r[i - 1] \in Y
        OBVIOUS
      <3>6. s[1] = x /\ DOMAIN s = 1..(n + 1) /\ 1 \in 1..(n + 1)
        OBVIOUS
      <3>7. \A i \in 1..n : i + 1 \in 1..(n + 1) /\ s[i + 1] = r[i]
        OBVIOUS
      <3>8. s \in [1..(n + 1) -> X]
        BY <3>5
      <3> HIDE DEF s
      <3>9. Range(s) = X
        <4>1. \A y \in X : \E i \in 1..(n + 1) : s[i] = y
          <5>1. TAKE y \in X
          <5>2. CASE y = x
            BY <3>6, <5>2
          <5>3. CASE y # x
            <6>1. PICK i \in 1..n : r[i] = y
              BY <3>4, <5>3 DEF Range
            <6> QED BY <3>7, <6>1
          <5> QED BY <5>2, <5>3
        <4> QED BY <3>6, <3>8, <4>1 DEF Range
      <3>10. ASSUME NEW i \in 1..(n + 1), NEW j \in 1..(n + 1), i < j
             PROVE  Len(s[i]) <= Len(s[j])
        <4>1. j # 1
          BY <3>10
        <4>2. CASE i = 1
          BY <3>2, <3>5, <3>6, <4>1, <4>2
        <4>3. CASE i # 1
          <5>1. i - 1 \in DOMAIN r /\ j - 1 \in DOMAIN r /\ i - 1 < j - 1
            BY <3>10, <4>1, <4>3
          <5>2. Len(r[i - 1]) <= Len(r[j - 1])
            BY <3>4, <5>1
          <5> QED BY <3>5, <4>1, <4>3, <5>2
        <4> QED BY <4>2, <4>3
      <3> QED BY <3>6, <3>8, <3>9, <3>10
    <2> HIDE DEF Ordered
    <2> QED BY <2>1
  <1>3. Nat \subseteq T
    <2> HIDE DEF T
    <2> QED BY <1>1, <1>2, Induction
  <1>4. \E s \in [1..Cardinality(S) -> S] : Ordered(S, s)
    <2> HIDE DEF Ordered
    <2> QED BY <1>3, <1>f
  <1> QED
    BY <1>4, <1>f DEF Sorted

BindSet == [path : Paths, ro : BOOLEAN]

LEMMA BindAllIs ==
    ASSUME NEW S \in SUBSET Paths, NEW ro \in BOOLEAN
    PROVE  /\ BindAll(S, ro) \in Seq(BindSet) /\ Len(BindAll(S, ro)) \in Nat
           /\ \A i \in 1..Len(BindAll(S, ro)) :
                 BindAll(S, ro)[i].path \in S /\ BindAll(S, ro)[i].ro = ro
           /\ \A p \in S : \E i \in 1..Len(BindAll(S, ro)) : BindAll(S, ro)[i].path = p
  <1> DEFINE s == Sorted(S)
             n == Cardinality(S)
             b == [i \in DOMAIN s |-> [path |-> s[i], ro |-> ro]]
  <1>1. n \in Nat /\ s \in [1..n -> S] /\ Range(s) = S
    BY SortedIs
  <1>2. BindAll(S, ro) = b
    BY DEF BindAll
  <1> HIDE DEF s, n
  <1>3. DOMAIN s = 1..n /\ \A i \in 1..n : s[i] \in S
    BY <1>1
  <1>4. b \in [1..n -> BindSet]
    BY <1>3 DEF BindSet
  <1>5. b \in Seq(BindSet) /\ Len(b) = n
    BY <1>1, <1>4
  <1>6. \A i \in 1..n : b[i].path = s[i] /\ b[i].ro = ro
    BY <1>3
  <1>7. \A p \in S : \E i \in 1..n : s[i] = p
    BY <1>1, <1>3 DEF Range
  <1> HIDE DEF b
  <1> QED
    BY <1>1, <1>2, <1>3, <1>5, <1>6, <1>7

\* The leaves and the pins of the i-th workspace.
LeavesOf(t, c, i) == LockedLeaves(t, c, c.ws[i].path)
PinsOf(t, c, i) == Pins(c.ws[i].path, LeavesOf(t, c, i))

LEMMA LeavesArePaths ==
    ASSUME NEW t, NEW c, NEW i
    PROVE  LeavesOf(t, c, i) \in SUBSET Paths /\ PinsOf(t, c, i) \in SUBSET Paths
  BY DEF LeavesOf, PinsOf, Pins, LockedLeaves, GitLeaves, Present

\* A plan is its pins and then its leaves.
LEMMA LockOfIs ==
    ASSUME NEW t, NEW c, NEW i
    PROVE  LET lock == LockOf(t, c, c.ws[i].path) IN
           /\ lock \in Seq(BindSet)
           /\ \A m \in 1..Len(lock) :
                 lock[m].path \in IF lock[m].ro THEN LeavesOf(t, c, i) ELSE PinsOf(t, c, i)
           /\ \A p \in PinsOf(t, c, i) : \E m \in 1..Len(lock) : lock[m].path = p
           /\ \A p \in LeavesOf(t, c, i) : \A m \in 0..Len(lock) :
                 m = 0 \/ ~lock[m].ro =>
                     \E k \in (m + 1)..Len(lock) : lock[k].path = p /\ lock[k].ro
  <1> DEFINE pins == BindAll(PinsOf(t, c, i), FALSE)
             leaves == BindAll(LeavesOf(t, c, i), TRUE)
             lock == pins \o leaves
  <1>1. LockOf(t, c, c.ws[i].path) = lock
    BY DEF LockOf, PinsOf, LeavesOf
  <1>2. /\ pins \in Seq(BindSet) /\ Len(pins) \in Nat
        /\ \A m \in 1..Len(pins) : pins[m].path \in PinsOf(t, c, i) /\ pins[m].ro = FALSE
        /\ \A p \in PinsOf(t, c, i) : \E m \in 1..Len(pins) : pins[m].path = p
    BY LeavesArePaths, BindAllIs
  <1>3. /\ leaves \in Seq(BindSet) /\ Len(leaves) \in Nat
        /\ \A m \in 1..Len(leaves) : leaves[m].path \in LeavesOf(t, c, i) /\ leaves[m].ro = TRUE
        /\ \A p \in LeavesOf(t, c, i) : \E m \in 1..Len(leaves) : leaves[m].path = p
    <2>1. LeavesOf(t, c, i) \in SUBSET Paths
      BY LeavesArePaths
    <2>2. TRUE \in BOOLEAN
      OBVIOUS
    <2> QED BY <2>1, <2>2, BindAllIs
  <1> HIDE DEF pins, leaves
  <1>4. /\ lock \in Seq(BindSet) /\ Len(lock) = Len(pins) + Len(leaves)
        /\ \A m \in 1..Len(pins) : lock[m] = pins[m]
        /\ \A m \in 1..Len(leaves) : lock[m + Len(pins)] = leaves[m]
    <2>1. pins \in Seq(BindSet) /\ leaves \in Seq(BindSet)
      BY <1>2, <1>3
    <2> QED BY <2>1, Joined
  <1> HIDE DEF lock
  <1>5. ASSUME NEW m \in 1..Len(lock), m \notin 1..Len(pins)
        PROVE  \E k \in 1..Len(leaves) : m = k + Len(pins) /\ lock[m] = leaves[k]
    <2>1. m - Len(pins) \in 1..Len(leaves) /\ (m - Len(pins)) + Len(pins) = m
      BY <1>2, <1>3, <1>4, <1>5
    <2> QED BY <1>4, <2>1
  <1>6. ASSUME NEW m \in 1..Len(lock)
        PROVE  lock[m].path \in IF lock[m].ro THEN LeavesOf(t, c, i) ELSE PinsOf(t, c, i)
    <2>1. CASE m \in 1..Len(pins)
      BY <1>2, <1>4, <2>1
    <2>2. CASE m \notin 1..Len(pins)
      BY <1>3, <1>5, <2>2
    <2> QED BY <2>1, <2>2
  <1>7. ASSUME NEW p \in PinsOf(t, c, i) PROVE \E m \in 1..Len(lock) : lock[m].path = p
    <2>1. PICK m \in 1..Len(pins) : pins[m].path = p
      BY <1>2
    <2>2. m \in 1..Len(lock)
      BY <1>2, <1>3, <1>4
    <2> QED BY <1>4, <2>1, <2>2
  <1>8. ASSUME NEW p \in LeavesOf(t, c, i), NEW m \in 0..Len(lock), m = 0 \/ ~lock[m].ro
        PROVE  \E k \in (m + 1)..Len(lock) : lock[k].path = p /\ lock[k].ro
    <2>1. m <= Len(pins)
      <3>1. CASE m = 0
        BY <1>2, <3>1
      <3>2. CASE m # 0
        <4>1. m \in 1..Len(lock)
          BY <1>2, <1>3, <1>4, <3>2
        <4>2. m \in 1..Len(pins)
          BY <1>3, <1>5, <1>8, <3>2, <4>1
        <4> QED BY <1>2, <4>2
      <3> QED BY <3>1, <3>2
    <2>2. PICK k \in 1..Len(leaves) : leaves[k].path = p
      BY <1>3
    <2>3. k + Len(pins) \in (m + 1)..Len(lock)
      BY <1>2, <1>3, <1>4, <2>1
    <2> QED BY <1>3, <1>4, <2>2, <2>3
  <1> QED
    BY <1>1, <1>4, <1>6, <1>7, <1>8

-----------------------------------------------------------------------------
(* The plans of all workspaces.                                            *)

RwOf(c) == {i \in 1..Len(c.ws) : ~c.ws[i].ro}

StepOf(t, c, n) == IF c.ws[n].ro THEN <<>> ELSE LockOf(t, c, c.ws[n].path)

LEMMA PlansAre ==
    ASSUME NEW t, NEW c, Len(c.ws) \in Nat
    PROVE  Plans(t, c) = [n \in 0..Len(c.ws) |->
               IF n = 0 THEN <<>> ELSE Plans(t, c)[n - 1] \o StepOf(t, c, n)]
  <1> DEFINE W(w, n) == [i \in 0..n |-> IF i = 0 THEN <<>> ELSE w[i - 1] \o StepOf(t, c, i)]
             T == {n \in Nat : \E w : w = W(w, n)}
  <1>1. 0 \in T
    <2> DEFINE w == [i \in 0..0 |-> <<>>]
    <2>1. w = W(w, 0)
      OBVIOUS
    <2> HIDE DEF w, W
    <2> QED BY <2>1
  <1>2. ASSUME NEW n \in Nat, n \in T PROVE n + 1 \in T
    <2>1. PICK w : w = W(w, n)
      BY <1>2
    <2> DEFINE v == [i \in 0..(n + 1) |-> IF i = n + 1 THEN w[n] \o StepOf(t, c, n + 1) ELSE w[i]]
    <2>2. \A i \in 0..(n + 1) : v[i] = IF i = 0 THEN <<>> ELSE v[i - 1] \o StepOf(t, c, i)
      <3>1. TAKE i \in 0..(n + 1)
      <3>2. CASE i = n + 1
        <4>1. n \in 0..(n + 1) /\ n + 1 \in 0..(n + 1) /\ n + 1 # 0 /\ n # n + 1 /\ (n + 1) - 1 = n
          OBVIOUS
        <4>2. v[n] = w[n] /\ v[n + 1] = w[n] \o StepOf(t, c, n + 1)
          BY <4>1
        <4> HIDE DEF v
        <4> QED BY <3>2, <4>1, <4>2
      <3>3. CASE i # n + 1
        <4>1. i \in 0..n /\ v[i] = w[i] /\ (i # 0 => v[i - 1] = w[i - 1])
          BY <3>3
        <4>2. w[i] = IF i = 0 THEN <<>> ELSE w[i - 1] \o StepOf(t, c, i)
          BY <2>1, <4>1
        <4> QED BY <4>1, <4>2
      <3> QED BY <3>2, <3>3
    <2>3. v = W(v, n + 1)
      BY <2>2
    <2> HIDE DEF v, W
    <2> QED BY <2>3
  <1>3. Nat \subseteq T
    <2> HIDE DEF T
    <2> QED BY <1>1, <1>2, Induction
  <1>4. PICK w : w = W(w, Len(c.ws))
    BY <1>3
  <1> QED BY <1>4 DEF Plans, StepOf

\* What the binds b of the first n workspaces are: a pin or a leaf of one of
\* them each, all of them, and a leaf after every bind that could re-open it
\* but the pins of a later workspace.
Shape(t, c, n, b) ==
    /\ b \in Seq(BindSet)
    /\ \A m \in 1..Len(b) : \E i \in RwOf(c) :
          i <= n /\ b[m].path \in IF b[m].ro THEN LeavesOf(t, c, i) ELSE PinsOf(t, c, i)
    /\ \A i \in RwOf(c) : i <= n =>
          \A p \in PinsOf(t, c, i) : \E m \in 1..Len(b) : b[m].path = p
    /\ \A i \in RwOf(c) : i <= n =>
          \A p \in LeavesOf(t, c, i) : \A m \in 0..Len(b) :
              m = 0 \/ ~b[m].ro =>
                  \/ \E k \in (m + 1)..Len(b) : b[k].path = p /\ b[k].ro
                  \/ m # 0 /\ \E j \in RwOf(c) : i < j /\ j <= n /\ b[m].path \in PinsOf(t, c, j)

LEMMA ShapeStep ==
    ASSUME NEW t, NEW c, Len(c.ws) \in Nat, NEW n \in Nat, n + 1 <= Len(c.ws),
           NEW a, Shape(t, c, n, a)
    PROVE  Shape(t, c, n + 1, a \o StepOf(t, c, n + 1))
  <1>rw. \A i \in RwOf(c) : i \in Nat /\ (i <= n + 1 <=> i <= n \/ i = n + 1)
    BY DEF RwOf
  <1>a. a \in Seq(BindSet) /\ Len(a) \in Nat
    BY DEF Shape
  <1>1. CASE c.ws[n + 1].ro
    <2>1. a \o StepOf(t, c, n + 1) = a
      BY <1>1, <1>a DEF StepOf
    <2>2. n + 1 \notin RwOf(c)
      BY <1>1 DEF RwOf
    <2>3. \A i \in RwOf(c) : i <= n + 1 <=> i <= n
      BY <1>rw, <2>2
    <2> DEFINE i0 == n + 1
    <2>4. \A i \in RwOf(c) : i <= i0 <=> i <= n
      BY <2>3
    <2> HIDE DEF i0
    <2>5. Shape(t, c, i0, a)
      <3>1. a \in Seq(BindSet)
        BY DEF Shape
      <3>2. \A m \in 1..Len(a) : \E i \in RwOf(c) :
               i <= i0 /\ a[m].path \in IF a[m].ro THEN LeavesOf(t, c, i) ELSE PinsOf(t, c, i)
        BY <2>4 DEF Shape
      <3>3. \A i \in RwOf(c) : i <= i0 =>
               \A p \in PinsOf(t, c, i) : \E m \in 1..Len(a) : a[m].path = p
        BY <2>4 DEF Shape
      <3>4. ASSUME NEW i \in RwOf(c), i <= i0, NEW p \in LeavesOf(t, c, i), NEW m \in 0..Len(a),
                   m = 0 \/ ~a[m].ro
            PROVE  \/ \E k \in (m + 1)..Len(a) : a[k].path = p /\ a[k].ro
                   \/ m # 0 /\ \E j \in RwOf(c) : i < j /\ j <= i0 /\ a[m].path \in PinsOf(t, c, j)
        <4>1. \/ \E k \in (m + 1)..Len(a) : a[k].path = p /\ a[k].ro
              \/ m # 0 /\ \E j \in RwOf(c) : i < j /\ j <= n /\ a[m].path \in PinsOf(t, c, j)
          BY <2>4, <3>4 DEF Shape
        <4> QED BY <2>4, <4>1
      <3> QED BY <3>1, <3>2, <3>3, <3>4 DEF Shape
    <2> QED BY <2>1, <2>5 DEF i0
  <1>2. CASE ~c.ws[n + 1].ro
    <2> DEFINE i0 == n + 1
               lock == LockOf(t, c, c.ws[i0].path)
               b == a \o lock
    <2>0. i0 \in RwOf(c) /\ StepOf(t, c, n + 1) = lock
      BY <1>2 DEF RwOf, StepOf
    <2>1. /\ lock \in Seq(BindSet)
          /\ \A m \in 1..Len(lock) :
                lock[m].path \in IF lock[m].ro THEN LeavesOf(t, c, i0) ELSE PinsOf(t, c, i0)
          /\ \A p \in PinsOf(t, c, i0) : \E m \in 1..Len(lock) : lock[m].path = p
          /\ \A p \in LeavesOf(t, c, i0) : \A m \in 0..Len(lock) :
                m = 0 \/ ~lock[m].ro =>
                    \E k \in (m + 1)..Len(lock) : lock[k].path = p /\ lock[k].ro
      BY LockOfIs
    <2>l. Len(lock) \in Nat
      BY <2>1
    <2>i. i0 \in Nat /\ n < i0 /\ i0 <= i0 /\ \A i \in RwOf(c) : i <= i0 <=> i <= n \/ i = i0
      BY <1>rw
    <2> HIDE DEF i0, lock
    <2>2. /\ b \in Seq(BindSet) /\ Len(b) = Len(a) + Len(lock)
          /\ \A m \in 1..Len(a) : b[m] = a[m]
          /\ \A m \in 1..Len(lock) : b[m + Len(a)] = lock[m]
      <3>1. lock \in Seq(BindSet)
        BY <2>1
      <3> QED BY <1>a, <3>1, Joined
    <2> HIDE DEF b
    <2>3. ASSUME NEW m \in 1..Len(b), m \notin 1..Len(a)
          PROVE  m - Len(a) \in 1..Len(lock) /\ b[m] = lock[m - Len(a)]
      <3>1. m - Len(a) \in 1..Len(lock) /\ (m - Len(a)) + Len(a) = m
        BY <1>a, <2>l, <2>2, <2>3
      <3> QED BY <2>2, <3>1
    <2>4. ASSUME NEW m \in 1..Len(b)
          PROVE  \E i \in RwOf(c) :
                    i <= i0 /\ b[m].path \in IF b[m].ro THEN LeavesOf(t, c, i) ELSE PinsOf(t, c, i)
      <3>1. CASE m \in 1..Len(a)
        <4>1. PICK i \in RwOf(c) :
                 i <= n /\ a[m].path \in IF a[m].ro THEN LeavesOf(t, c, i) ELSE PinsOf(t, c, i)
          BY <3>1 DEF Shape
        <4> QED BY <2>i, <2>2, <3>1, <4>1
      <3>2. CASE m \notin 1..Len(a)
        <4> DEFINE k == m - Len(a)
        <4>1. k \in 1..Len(lock) /\ b[m] = lock[k]
          BY <2>3, <3>2
        <4> HIDE DEF k
        <4>2. b[m].path \in IF b[m].ro THEN LeavesOf(t, c, i0) ELSE PinsOf(t, c, i0)
          BY <2>1, <4>1
        <4> QED BY <2>0, <2>i, <4>2
      <3> QED BY <3>1, <3>2
    <2>5. ASSUME NEW i \in RwOf(c), i <= i0, NEW p \in PinsOf(t, c, i)
          PROVE  \E m \in 1..Len(b) : b[m].path = p
      <3>1. CASE i <= n
        <4>1. PICK m \in 1..Len(a) : a[m].path = p
          BY <2>5, <3>1 DEF Shape
        <4>2. m \in 1..Len(b)
          BY <1>a, <2>l, <2>2
        <4> QED BY <2>2, <4>1, <4>2
      <3>2. CASE i = i0
        <4>1. PICK m \in 1..Len(lock) : lock[m].path = p
          BY <2>1, <2>5, <3>2
        <4>2. m + Len(a) \in 1..Len(b)
          BY <1>a, <2>l, <2>2
        <4> QED BY <2>2, <4>1, <4>2
      <3> QED BY <2>5, <2>i, <3>1, <3>2
    <2>6. ASSUME NEW i \in RwOf(c), i <= i0, NEW p \in LeavesOf(t, c, i), NEW m \in 0..Len(b),
                 m = 0 \/ ~b[m].ro
          PROVE  \/ \E k \in (m + 1)..Len(b) : b[k].path = p /\ b[k].ro
                 \/ m # 0 /\ \E j \in RwOf(c) : i < j /\ j <= i0 /\ b[m].path \in PinsOf(t, c, j)
      <3>1. CASE i <= n /\ m \in 0..Len(a)
        <4>1. m = 0 \/ ~a[m].ro
          BY <2>2, <2>6, <3>1
        <4>2. CASE \E k \in (m + 1)..Len(a) : a[k].path = p /\ a[k].ro
          <5>1. PICK k \in (m + 1)..Len(a) : a[k].path = p /\ a[k].ro
            BY <4>2
          <5>2. k \in (m + 1)..Len(b) /\ k \in 1..Len(a)
            BY <1>a, <2>l, <2>2
          <5> QED BY <2>2, <5>1, <5>2
        <4>3. CASE m # 0 /\ \E j \in RwOf(c) : i < j /\ j <= n /\ a[m].path \in PinsOf(t, c, j)
          <5>1. m \in 1..Len(a)
            BY <3>1, <4>3
          <5> QED BY <2>2, <2>i, <4>3, <5>1
        <4>4. \/ \E k \in (m + 1)..Len(a) : a[k].path = p /\ a[k].ro
              \/ m # 0 /\ \E j \in RwOf(c) : i < j /\ j <= n /\ a[m].path \in PinsOf(t, c, j)
          BY <2>6, <3>1, <4>1 DEF Shape
        <4> QED BY <4>2, <4>3, <4>4
      <3>2. CASE i <= n /\ m \notin 0..Len(a)
        <4>1. m \in 1..Len(b) /\ m \notin 1..Len(a) /\ m # 0
          BY <1>a, <2>l, <2>2, <3>2
        <4>2. b[m].path \in PinsOf(t, c, i0)
          BY <2>1, <2>3, <2>6, <4>1
        <4>3. i < i0 /\ i0 <= i0
          BY <2>i, <1>rw, <3>2
        <4> QED BY <2>0, <4>1, <4>2, <4>3
      <3>3. CASE i = i0
        <4>1. \E m1 \in 0..Len(lock) : m <= m1 + Len(a) /\ (m1 = 0 \/ ~lock[m1].ro)
          <5>1. CASE m \in 0..Len(a)
            <6>1. 0 \in 0..Len(lock) /\ m <= 0 + Len(a)
              BY <1>a, <2>l, <5>1
            <6> QED BY <6>1
          <5>2. CASE m \notin 0..Len(a)
            <6>1. m \in 1..Len(b) /\ m \notin 1..Len(a) /\ m # 0
              BY <1>a, <2>l, <2>2, <5>2
            <6>2. ~lock[m - Len(a)].ro /\ m - Len(a) \in 1..Len(lock)
              BY <2>3, <2>6, <6>1
            <6>3. m - Len(a) \in 0..Len(lock) /\ m <= (m - Len(a)) + Len(a)
              BY <1>a, <2>l, <2>2, <6>2
            <6> QED BY <6>2, <6>3
          <5> QED BY <5>1, <5>2
        <4>2. PICK m1 \in 0..Len(lock) : m <= m1 + Len(a) /\ (m1 = 0 \/ ~lock[m1].ro)
          BY <4>1
        <4>3. PICK k \in (m1 + 1)..Len(lock) : lock[k].path = p /\ lock[k].ro
          BY <2>1, <2>6, <3>3, <4>2
        <4>4. k + Len(a) \in (m + 1)..Len(b) /\ k \in 1..Len(lock)
          BY <1>a, <2>l, <2>2, <4>2
        <4> QED BY <2>2, <4>3, <4>4
      <3> QED BY <2>6, <2>i, <3>1, <3>2, <3>3
    <2>7. Shape(t, c, i0, b)
      BY <2>2, <2>4, <2>5, <2>6 DEF Shape
    <2> QED BY <2>0, <2>7 DEF i0, b
  <1> QED BY <1>1, <1>2

LEMMA PlanIs ==
    ASSUME NEW t, NEW c, Len(c.ws) \in Nat
    PROVE  Shape(t, c, Len(c.ws), PlanFor(t, c))
  <1> DEFINE T == {n \in Nat : n <= Len(c.ws) => Shape(t, c, n, Plans(t, c)[n])}
  <1>p. /\ Plans(t, c)[0] = <<>>
        /\ \A n \in Nat : n + 1 <= Len(c.ws) =>
              Plans(t, c)[n + 1] = Plans(t, c)[n] \o StepOf(t, c, n + 1)
    <2> DEFINE N == Len(c.ws)
               w == Plans(t, c)
    <2>1. N \in Nat /\ w = [n \in 0..N |-> IF n = 0 THEN <<>> ELSE w[n - 1] \o StepOf(t, c, n)]
      BY PlansAre
    <2> HIDE DEF w, N
    <2>2. \A n \in 0..N : w[n] = IF n = 0 THEN <<>> ELSE w[n - 1] \o StepOf(t, c, n)
      BY <2>1
    <2>3. w[0] = <<>>
      <3>1. 0 \in 0..N
        BY <2>1
      <3> QED BY <2>2, <3>1
    <2>4. ASSUME NEW n \in Nat, n + 1 <= N PROVE w[n + 1] = w[n] \o StepOf(t, c, n + 1)
      <3>1. n + 1 \in 0..N /\ n + 1 # 0 /\ (n + 1) - 1 = n
        BY <2>1, <2>4
      <3> QED BY <2>2, <3>1
    <2> QED BY <2>3, <2>4 DEF w, N
  <1>1. 0 \in T
    <2>1. \A i \in RwOf(c) : ~(i <= 0)
      BY DEF RwOf
    <2>2. <<>> \in Seq(BindSet) /\ Len(<<>>) = 0 /\ 1..0 = {}
      OBVIOUS
    <2>3. Shape(t, c, 0, <<>>)
      BY <2>1, <2>2 DEF Shape
    <2> QED BY <1>p, <2>3
  <1>2. ASSUME NEW n \in Nat, n \in T PROVE n + 1 \in T
    <2>1. SUFFICES ASSUME n + 1 <= Len(c.ws) PROVE Shape(t, c, n + 1, Plans(t, c)[n + 1])
      OBVIOUS
    <2>2. n <= Len(c.ws)
      BY <2>1
    <2>3. Shape(t, c, n, Plans(t, c)[n])
      BY <1>2, <2>2
    <2> QED BY <1>p, <2>1, <2>3, ShapeStep
  <1>3. Nat \subseteq T
    <2> HIDE DEF T
    <2> QED BY <1>1, <1>2, Induction
  <1> QED BY <1>3 DEF PlanFor

-----------------------------------------------------------------------------
(* What the binds do at launch.                                            *)

\* The command line and the file system are those of a launch.
Given == \E l \in Launches : cmd = l.cmd /\ tree = l.tree

LEMMA GivenFacts ==
    ASSUME Given
    PROVE  /\ cmd.ws \in Seq(BindSet) /\ Len(cmd.ws) \in Nat
           /\ \A i \in 1..Len(cmd.ws) : cmd.ws[i] \in BindSet /\ tree[cmd.ws[i].path].kind = "dir"
           /\ cmd.lock \subseteq Seq(STRING)
           /\ TreeShape
  <1>1. PICK l \in Launches : cmd = l.cmd /\ tree = l.tree
    BY DEF Given
  <1> DEFINE dirs == {p \in Paths : tree[p].kind = "dir"}
             S == [path : dirs, ro : BOOLEAN]
  <1>2. cmd.ws \in Seq(S) /\ cmd.lock \subseteq Seq(STRING)
    BY <1>1, LocksetAssumption
  <1>3. S \subseteq BindSet /\ \A b \in S : b.path \in dirs
    BY DEF BindSet
  <1> HIDE DEF S
  <1>4. \A i \in 1..Len(cmd.ws) : cmd.ws[i] \in S
    BY <1>2
  <1>5. cmd.ws \in Seq(BindSet) /\ Len(cmd.ws) \in Nat
    BY <1>2, <1>3
  <1>6. TreeShape
    BY <1>1, TreeShaped
  <1> QED BY <1>2, <1>3, <1>4, <1>5, <1>6

\* The binds are the workspaces and then the plan.
Planned == binds = cmd.ws \o PlanFor(tree, cmd)

LEMMA BindsAre ==
    ASSUME Given, Planned
    PROVE  LET N == Len(cmd.ws)
               plan == PlanFor(tree, cmd) IN
           /\ Shape(tree, cmd, N, plan)
           /\ N \in Nat /\ Len(plan) \in Nat /\ Len(binds) = N + Len(plan)
           /\ \A m \in 1..N : m \in 1..Len(binds) /\ binds[m] = cmd.ws[m]
           /\ \A m \in 1..Len(plan) : m + N \in 1..Len(binds) /\ binds[m + N] = plan[m]
           /\ \A m \in 1..Len(binds) : binds[m] \in BindSet
           /\ \A m \in 1..Len(binds) : m \notin 1..N => \E k \in 1..Len(plan) : m = k + N
  <1> DEFINE N == Len(cmd.ws)
             plan == PlanFor(tree, cmd)
             w == cmd.ws
  <1>1. w \in Seq(BindSet) /\ N \in Nat /\ N = Len(w)
    BY GivenFacts
  <1>2. Shape(tree, cmd, N, plan)
    BY <1>1, PlanIs
  <1>3. plan \in Seq(BindSet) /\ Len(plan) \in Nat
    BY <1>2 DEF Shape
  <1>4. binds = w \o plan
    BY DEF Planned
  <1> HIDE DEF N, plan, w
  <1>5. /\ binds \in Seq(BindSet) /\ Len(binds) = N + Len(plan)
        /\ \A m \in 1..N : binds[m] = w[m]
        /\ \A m \in 1..Len(plan) : binds[m + N] = plan[m]
    BY <1>1, <1>3, <1>4, Joined
  <1>6. /\ \A m \in 1..N : m \in 1..Len(binds)
        /\ \A m \in 1..Len(plan) : m + N \in 1..Len(binds)
    BY <1>1, <1>3, <1>5
  <1>7. \A m \in 1..Len(binds) : binds[m] \in BindSet
    BY <1>5
  <1>8. ASSUME NEW m \in 1..Len(binds), m \notin 1..N PROVE \E k \in 1..Len(plan) : m = k + N
    <2>1. m - N \in 1..Len(plan) /\ m = (m - N) + N
      BY <1>1, <1>3, <1>5, <1>8
    <2> QED BY <2>1
  <1>9. \A m \in 1..N : m \in 1..Len(binds) /\ binds[m] = w[m]
    BY <1>5, <1>6
  <1>10. \A m \in 1..Len(plan) : m + N \in 1..Len(binds) /\ binds[m + N] = plan[m]
    BY <1>5, <1>6
  <1>11. w = cmd.ws /\ N = Len(cmd.ws) /\ plan = PlanFor(tree, cmd)
    BY DEF w, N, plan
  <1> QED BY <1>1, <1>2, <1>3, <1>5, <1>7, <1>8, <1>9, <1>10, <1>11

LEMMA JoinedUnder ==
    ASSUME NEW w \in PathSeq, NEW r \in PathSeq
    PROVE  w \o r \in PathSeq /\ Under(w \o r, w)
  <1>1. w \in Seq(Alphabet) /\ r \in Seq(Alphabet) /\ Len(w) \in Nat /\ Len(r) \in Nat
    BY DEF PathSeq
  <1>2. /\ w \o r \in Seq(Alphabet) /\ Len(w \o r) = Len(w) + Len(r)
        /\ \A i \in 1..Len(w) : (w \o r)[i] = w[i]
    BY <1>1, Joined
  <1> DEFINE s == w \o r
  <1>3. s \in PathSeq
    BY <1>2 DEF PathSeq
  <1> HIDE DEF s
  <1>4. s \in PathSeq /\ Len(w) <= Len(s) /\ \A i \in 1..Len(w) : s[i] = w[i]
    BY <1>1, <1>2, <1>3 DEF s
  <1>5. Under(s, w)
    BY <1>4, UnderIs
  <1> QED BY <1>3, <1>5 DEF s

LEMMA NamesArePaths ==
    \A n \in DefaultLock \cup {".git", "config", "hooks"} : <<n>> \in PathSeq
  <1>1. TAKE n \in DefaultLock \cup {".git", "config", "hooks"}
  <1>2. n \in Alphabet
    BY DEF Alphabet
  <1> QED BY <1>2 DEF PathSeq

\* A leaf lies in its workspace and exists at launch.
LEMMA LeafFacts ==
    ASSUME Given, NEW w \in Paths, NEW p \in LockedLeaves(tree, cmd, w)
    PROVE  p \in Paths /\ Under(p, w) /\ tree[p].kind # "none"
  <1>w. w \in PathSeq
    BY PathsAre
  <1> DEFINE git == w \o <<".git">>
  <1>g. git \in PathSeq /\ Under(git, w)
    <2>1. <<".git">> \in PathSeq
      BY NamesArePaths
    <2> QED BY <1>w, <2>1, JoinedUnder
  <1>1. CASE p \in GitLeaves(tree, w)
    <2>0. p \in Paths
      BY <1>1 DEF GitLeaves
    <2>1. CASE p = git /\ Is(tree, git, "file")
      BY <1>g, <2>0, <2>1 DEF Is
    <2>2. CASE \E d \in Gitdirs(tree, w) :
                  \/ p = d \o <<"config">> /\ Is(tree, p, "file")
                  \/ p = d \o <<"hooks">> /\ Is(tree, p, "dir")
      <3>1. PICK d \in Gitdirs(tree, w) : \E n \in {"config", "hooks"} : p = d \o <<n>>
        BY <2>2
      <3>2. tree[p].kind # "none"
        BY <2>2 DEF Is
      <3>3. d \in PathSeq /\ Under(d, git)
        BY PathsAre DEF Gitdirs
      <3>4. Under(p, d)
        BY <3>1, <3>3, NamesArePaths, JoinedUnder
      <3>5. p \in PathSeq
        BY <2>0, PathsAre
      <3> HIDE DEF git
      <3>6. Under(p, w)
        <4>1. Under(p, git)
          BY <1>g, <3>3, <3>4, <3>5, UnderOrder
        <4> QED BY <1>w, <1>g, <3>5, <4>1, UnderOrder
      <3> QED BY <2>0, <3>2, <3>6
    <2> QED BY <1>1, <2>1, <2>2 DEF GitLeaves
  <1>2. CASE p \in Rows(cmd, w) /\ Present(tree, p)
    <2>1. p \in Paths /\ tree[p].kind # "none"
      BY <1>2 DEF Present
    <2>2. \E r \in PathSeq : p = w \o r
      <3>1. CASE \E n \in DefaultLock : p = w \o <<n>>
        BY <3>1, NamesArePaths
      <3>2. CASE \E r \in cmd.lock : p = w \o r
        <4>1. Seq(STRING) \subseteq PathSeq
          BY DEF PathSeq, Alphabet
        <4> QED BY <3>2, <4>1, GivenFacts
      <3> QED BY <1>2, <3>1, <3>2 DEF Rows
    <2> QED BY <1>w, <2>1, <2>2, JoinedUnder
  <1> QED BY <1>1, <1>2 DEF LockedLeaves

\* A bound node is held where the directories up to a workspace are bound
\* and no directory above that workspace can be moved.
LEMMA HeldBelow ==
    ASSUME Given, Planned, NEW p \in Paths, NEW w \in Paths, Under(p, w), Bound(p),
           tree[p].kind # "none", ~Movable(w),
           \A d \in Paths : Under(p, d) /\ Under(d, w) => Bound(d)
    PROVE  Held(p)
  <1>1. SUFFICES ASSUME NEW d \in Paths, Under(p, d), ~Bound(d), Parent(d) \in Paths,
                        ~ReadOnly(Parent(d))
                 PROVE  FALSE
    BY DEF Held
  <1> DEFINE e == Parent(d)
             m == Top(AtLaunch(e))
  <1>0. p \in PathSeq /\ w \in PathSeq /\ d \in PathSeq /\ e \in PathSeq
    BY <1>1, PathsAre
  <1>2. Under(w, d) /\ d # w
    BY <1>0, <1>1, UnderOrder
  <1>3. Under(d, e) /\ ~Under(e, d)
    BY <1>0, <1>1, ParentIs, UnderOrder
  <1>4. m \in 1..Len(binds) /\ Under(e, binds[m].path) /\ ~binds[m].ro
    <2>1. AtLaunch(e) \subseteq 1..Len(binds) /\ Len(binds) \in Nat
      BY BindsAre DEF AtLaunch
    <2>2. m # 0 /\ ~binds[m].ro
      BY <1>1 DEF ReadOnly
    <2>3. m \in AtLaunch(e)
      BY <2>1, <2>2, TopIs
    <2> QED BY <2>2, <2>3 DEF AtLaunch
  <1> HIDE DEF m, e
  <1>5. \E v \in Writable(cmd) : v \in Paths /\ Under(e, v)
    <2>1. CASE m \in 1..Len(cmd.ws)
      <3>1. binds[m] = cmd.ws[m] /\ cmd.ws[m].path \in Paths
        BY <2>1, GivenFacts, BindsAre DEF BindSet
      <3> QED BY <1>4, <2>1, <3>1 DEF Writable
    <2>2. CASE m \notin 1..Len(cmd.ws)
      <3> DEFINE plan == PlanFor(tree, cmd)
      <3>1. PICK k \in 1..Len(plan) : binds[m] = plan[k]
        BY <1>4, <2>2, BindsAre
      <3>2. PICK i \in RwOf(cmd) : plan[k].path \in PinsOf(tree, cmd, i)
        <4>1. Shape(tree, cmd, Len(cmd.ws), plan) /\ ~plan[k].ro
          BY <1>4, <3>1, BindsAre
        <4> QED BY <4>1 DEF Shape
      <3> DEFINE v == cmd.ws[i].path
      <3>3. v \in Writable(cmd) /\ v \in Paths
        BY GivenFacts DEF Writable, RwOf, BindSet
      <3>4. plan[k].path \in Paths /\ Under(plan[k].path, v)
        BY <3>2 DEF PinsOf, Pins
      <3>5. Under(e, v)
        BY <1>0, <1>4, <3>1, <3>3, <3>4, PathsAre, UnderOrder
      <3> QED BY <3>3, <3>5
    <2> QED BY <2>1, <2>2
  <1>6. PICK v \in Writable(cmd) : v \in Paths /\ Under(e, v)
    BY <1>5
  <1>7. Under(d, v) /\ d # v
    BY <1>0, <1>3, <1>6, PathsAre, UnderOrder
  <1>8. \A i \in 1..Len(binds) : binds[i].path # d
    BY <1>1 DEF Bound
  <1> QED BY <1>2, <1>6, <1>7, <1>8 DEF Movable

-----------------------------------------------------------------------------
(* A pin of one workspace may lie over what an earlier bind made           *)
(* read-only; these say where it does not.                                 *)

Meet(p, q) == Under(p, q) \/ Under(q, p)

\* No pin re-opens a leaf of an earlier plan that is not its own leaf too.
LocksApart ==
    \A l \in Launches :
        \A i, j \in RwOf(l.cmd) :
            i < j =>
                \A p \in LeavesOf(l.tree, l.cmd, i), d \in PinsOf(l.tree, l.cmd, j) :
                    Meet(p, d) => p \in LeavesOf(l.tree, l.cmd, j)

\* No pin re-opens a read-only workspace, but inside a read-write one that
\* was named after it.
PinsApart ==
    \A l \in Launches :
        \A i \in 1..Len(l.cmd.ws), j \in RwOf(l.cmd) :
            l.cmd.ws[i].ro =>
                \A d \in PinsOf(l.tree, l.cmd, j) :
                    Meet(l.cmd.ws[i].path, d) => i < j /\ Under(l.cmd.ws[j].path, l.cmd.ws[i].path)

LEMMA LeafSealed ==
    ASSUME LocksApart, Given, Planned, NEW i \in RwOf(cmd), NEW p \in LeavesOf(tree, cmd, i),
           NEW x \in Paths, Under(x, p)
    PROVE  ReadOnly(x)
  <1> DEFINE N == Len(cmd.ws)
             plan == PlanFor(tree, cmd)
             J == {j \in RwOf(cmd) : p \in LeavesOf(tree, cmd, j)}
             m == Top(AtLaunch(x))
  <1>b. /\ N \in Nat /\ Len(plan) \in Nat /\ Len(binds) = N + Len(plan)
        /\ \A k \in 1..N : k \in 1..Len(binds) /\ binds[k] = cmd.ws[k]
        /\ \A k \in 1..Len(plan) : k + N \in 1..Len(binds) /\ binds[k + N] = plan[k]
        /\ \A k \in 1..Len(binds) : k \notin 1..N => \E n \in 1..Len(plan) : k = n + N
    BY BindsAre
  <1>s. Shape(tree, cmd, N, plan)
    BY BindsAre
  <1>rw. \A j \in RwOf(cmd) : j \in Nat /\ j <= N
    BY <1>b DEF RwOf
  <1>1. PICK j \in J : \A k \in J : k <= j
    <2>1. J \subseteq Nat /\ J # {} /\ \A k \in J : k <= N
      BY <1>rw
    <2> HIDE DEF J
    <2> QED BY <1>b, <2>1, LargestOf
  <1>2. SUFFICES ASSUME m # 0, ~binds[m].ro PROVE FALSE
    BY DEF ReadOnly
  <1>3. m \in AtLaunch(x) /\ \A k \in AtLaunch(x) : k <= m
    <2>1. AtLaunch(x) \subseteq 1..Len(binds) /\ Len(binds) \in Nat
      BY <1>b DEF AtLaunch
    <2> QED BY <1>2, <2>1, TopIs
  <1>4. m \in 1..Len(binds) /\ Under(x, binds[m].path)
    BY <1>3 DEF AtLaunch
  <1>5. p \in Paths /\ x \in PathSeq /\ p \in PathSeq
    BY LeavesArePaths, PathsAre
  <1> HIDE DEF m, N, plan, J
  <1>6. \A k \in 1..Len(plan) : plan[k].path = p => k + N <= m
    <2>1. TAKE k \in 1..Len(plan)
    <2>2. HAVE plan[k].path = p
    <2>3. k + N \in AtLaunch(x)
      BY <1>b, <2>2 DEF AtLaunch
    <2> QED BY <1>3, <2>3
  <1>7. j \in RwOf(cmd) /\ p \in LeavesOf(tree, cmd, j) /\ j <= N /\ j \in Nat
    BY <1>1, <1>rw DEF J
  <1>8. m \notin 1..N
    <2>1. PICK k \in 1..Len(plan) : plan[k].path = p
      <3>1. 0 \in 0..Len(plan)
        BY <1>b
      <3>2. \E k \in (0 + 1)..Len(plan) : plan[k].path = p /\ plan[k].ro
        BY <1>s, <1>7, <3>1 DEF Shape
      <3> QED BY <3>2
    <2>2. k + N <= m
      BY <1>6, <2>1
    <2> QED BY <1>b, <1>4, <2>2
  <1>9. PICK n \in 1..Len(plan) : m = n + N
    BY <1>b, <1>4, <1>8
  <1>10. binds[m] = plan[n] /\ ~plan[n].ro
    BY <1>b, <1>2, <1>9
  <1>11. n \in 0..Len(plan) /\ n # 0 /\ n \in Nat
    BY <1>b
  <1>12. CASE \E k \in (n + 1)..Len(plan) : plan[k].path = p /\ plan[k].ro
    <2>1. PICK k \in (n + 1)..Len(plan) : plan[k].path = p
      BY <1>12
    <2>2. k \in 1..Len(plan)
      BY <1>11
    <2>3. k + N <= m
      BY <1>6, <2>1, <2>2
    <2> QED BY <1>b, <1>9, <1>11, <2>1, <2>3
  <1>13. CASE \E h \in RwOf(cmd) : j < h /\ plan[n].path \in PinsOf(tree, cmd, h)
    <2>1. PICK h \in RwOf(cmd) : j < h /\ plan[n].path \in PinsOf(tree, cmd, h)
      BY <1>13
    <2>2. Meet(p, plan[n].path)
      <3>1. plan[n].path \in PathSeq
        BY <2>1, LeavesArePaths, PathsAre
      <3> QED BY <1>4, <1>5, <1>10, <3>1, UnderOrder DEF Meet
    <2>3. p \in LeavesOf(tree, cmd, h)
      BY <1>7, <2>1, <2>2 DEF LocksApart, Given
    <2>4. h <= j /\ h \in Nat
      BY <1>1, <1>rw, <2>1, <2>3 DEF J
    <2> QED BY <1>7, <2>1, <2>4
  <1> QED
    BY <1>s, <1>7, <1>10, <1>11, <1>12, <1>13 DEF Shape

LEMMA LeafHeld ==
    ASSUME Given, Planned, NEW i \in RwOf(cmd), NEW p \in LeavesOf(tree, cmd, i),
           ~Movable(cmd.ws[i].path)
    PROVE  Held(p)
  <1> DEFINE w == cmd.ws[i].path
             plan == PlanFor(tree, cmd)
             N == Len(cmd.ws)
  <1>i. i \in 1..N /\ i <= N
    BY GivenFacts DEF RwOf
  <1>w. w \in Paths
    BY <1>i, GivenFacts DEF BindSet
  <1>1. p \in Paths /\ Under(p, w) /\ tree[p].kind # "none"
    BY <1>w, LeafFacts DEF LeavesOf
  <1>2. \A q : (\E k \in 1..Len(plan) : plan[k].path = q) => Bound(q)
    BY BindsAre DEF Bound
  <1>s. Shape(tree, cmd, N, plan) /\ Len(plan) \in Nat
    BY BindsAre
  <1>3. ASSUME NEW q \in LeavesOf(tree, cmd, i) PROVE Bound(q)
    <2>1. 0 \in 0..Len(plan)
      BY <1>s
    <2>2. \E k \in (0 + 1)..Len(plan) : plan[k].path = q
      <3> HIDE DEF plan, N
      <3> QED BY <1>i, <1>s, <1>3, <2>1 DEF Shape
    <2> QED BY <1>2, <2>2
  <1>4. ASSUME NEW q \in PinsOf(tree, cmd, i) PROVE Bound(q)
    <2>1. \E k \in 1..Len(plan) : plan[k].path = q
      <3> HIDE DEF plan, N
      <3> QED BY <1>i, <1>s, <1>4 DEF Shape
    <2> QED BY <1>2, <2>1
  <1>5. Bound(w)
    BY <1>i, BindsAre DEF Bound
  <1>6. ASSUME NEW d \in Paths, Under(p, d), Under(d, w) PROVE Bound(d)
    <2>1. CASE d = w
      BY <1>5, <2>1
    <2>2. CASE d \in LeavesOf(tree, cmd, i)
      BY <1>3, <2>2
    <2>3. CASE d # w /\ d \notin LeavesOf(tree, cmd, i)
      <3>1. d \in PinsOf(tree, cmd, i)
        BY <1>6, <2>3 DEF PinsOf, Pins
      <3> QED BY <1>4, <3>1
    <2> QED BY <2>1, <2>2, <2>3
  <1> HIDE DEF w
  <1> QED BY <1>w, <1>1, <1>3, <1>6, HeldBelow DEF w

LEMMA WorkspaceSealed ==
    ASSUME PinsApart, Given, Planned, ~RejectMasking(cmd.ws),
           NEW i \in 1..Len(cmd.ws), cmd.ws[i].ro, NEW q \in Paths, Under(q, cmd.ws[i].path),
           ~\E j \in (i + 1)..Len(cmd.ws) :
               Under(q, cmd.ws[j].path) /\ Under(cmd.ws[j].path, cmd.ws[i].path)
    PROVE  Sealed(cmd.ws[i].path, q)
  <1> DEFINE N == Len(cmd.ws)
             plan == PlanFor(tree, cmd)
             p == cmd.ws[i].path
  <1>b. /\ N \in Nat /\ Len(plan) \in Nat /\ Len(binds) = N + Len(plan)
        /\ \A k \in 1..N : k \in 1..Len(binds) /\ binds[k] = cmd.ws[k]
        /\ \A k \in 1..Len(binds) : k \notin 1..N => \E n \in 1..Len(plan) : binds[k] = plan[n]
    BY BindsAre
  <1>s. Shape(tree, cmd, N, plan)
    BY BindsAre
  <1>w. \A k \in 1..N : cmd.ws[k].path \in Paths
    BY GivenFacts DEF BindSet
  <1>0. p \in Paths /\ p \in PathSeq /\ q \in PathSeq
    BY <1>w, PathsAre
  <1>1. SUFFICES ASSUME NEW x \in Paths, Under(q, x), Under(x, p), ~ReadOnly(x)
                 PROVE  FALSE
    BY DEF Sealed
  <1> DEFINE m == Top(AtLaunch(x))
  <1>2. m # 0 /\ ~binds[m].ro
    BY <1>1 DEF ReadOnly
  <1>3. m \in AtLaunch(x) /\ \A k \in AtLaunch(x) : k <= m
    <2>1. AtLaunch(x) \subseteq 1..Len(binds) /\ Len(binds) \in Nat
      BY <1>b DEF AtLaunch
    <2> QED BY <1>2, <2>1, TopIs
  <1>4. m \in 1..Len(binds) /\ Under(x, binds[m].path)
    BY <1>3 DEF AtLaunch
  <1> HIDE DEF m
  <1>5. i <= m /\ i # m
    <2>1. i \in AtLaunch(x)
      BY <1>b, <1>1 DEF AtLaunch
    <2> QED BY <1>b, <1>2, <1>3, <2>1
  <1>x. x \in PathSeq
    BY PathsAre
  <1>6. ASSUME NEW j \in (i + 1)..N, Under(q, cmd.ws[j].path), Under(cmd.ws[j].path, p)
        PROVE  FALSE
    BY <1>6
  <1>7. CASE m \in 1..N
    <2>1. binds[m] = cmd.ws[m] /\ cmd.ws[m].path \in PathSeq
      BY <1>b, <1>w, <1>7, PathsAre
    <2>2. m \in (i + 1)..N /\ i < m
      BY <1>b, <1>5, <1>7
    <2>3. ~Under(p, cmd.ws[m].path)
      BY <1>2, <1>7, <2>1, <2>2 DEF RejectMasking
    <2>4. Under(cmd.ws[m].path, p) /\ Under(q, cmd.ws[m].path)
      BY <1>0, <1>1, <1>x, <1>4, <2>1, <2>3, UnderOrder
    <2> QED BY <1>6, <2>2, <2>4
  <1>8. CASE m \notin 1..N
    <2>1. PICK n \in 1..Len(plan) : binds[m] = plan[n]
      BY <1>b, <1>4, <1>8
    <2>2. PICK j \in RwOf(cmd) : plan[n].path \in PinsOf(tree, cmd, j)
      <3> HIDE DEF plan, N
      <3> QED BY <1>s, <1>2, <2>1 DEF Shape
    <2> DEFINE d == plan[n].path
               v == cmd.ws[j].path
    <2>3. d \in Paths /\ d \in PathSeq /\ Under(x, d) /\ Under(d, v)
      BY <1>4, <2>1, <2>2, LeavesArePaths, PathsAre DEF PinsOf, Pins
    <2>4. j \in 1..N /\ v \in PathSeq
      BY <1>w, PathsAre DEF RwOf
    <2>5. Meet(p, d)
      BY <1>0, <1>1, <1>x, <2>3, UnderOrder DEF Meet
    <2>6. i < j /\ Under(v, p)
      BY <2>2, <2>5 DEF PinsApart, Given
    <2>7. Under(q, v)
      <3>1. Under(x, v)
        BY <1>x, <2>3, <2>4, UnderOrder
      <3> QED BY <1>0, <1>1, <1>x, <2>4, <3>1, UnderOrder
    <2>8. j \in (i + 1)..N
      BY <1>b, <2>4, <2>6
    <2> QED BY <1>6, <2>6, <2>7, <2>8
  <1> QED BY <1>7, <1>8

LEMMA WorkspaceHeld ==
    ASSUME Given, Planned, NEW i \in 1..Len(cmd.ws), ~Movable(cmd.ws[i].path)
    PROVE  Held(cmd.ws[i].path)
  <1> DEFINE p == cmd.ws[i].path
  <1>1. p \in Paths /\ tree[p].kind = "dir" /\ p \in PathSeq
    BY GivenFacts, PathsAre DEF BindSet
  <1>2. Bound(p)
    BY BindsAre DEF Bound
  <1>3. \A d \in Paths : Under(p, d) /\ Under(d, p) => d = p
    BY <1>1, PathsAre, UnderOrder
  <1>4. Under(p, p)
    BY <1>1, UnderOrder
  <1> HIDE DEF p
  <1> QED BY <1>1, <1>2, <1>3, <1>4, HeldBelow DEF p

-----------------------------------------------------------------------------
(***************************************************************************)
(* The inductive invariant.  The types are not inductive: that what was    *)
(* created was watched rests on when the two sets are computed.  Nor is    *)
(* LeavesIntact: that a leaf stays rests on what every node is mounted     *)
(* through, wherever the agent has moved it, and on the directories above. *)
(***************************************************************************)
WatchDecided ==
    /\ phase \in {"run", "done"} => watch = UNION {WatchOf(tree, cmd, w) : w \in Writable(cmd)}
    /\ phase # "done" => dangling = {} /\ created = {}
    /\ phase = "done" =>
          /\ created = {p \in watch : Exists(p, dangling)}
          /\ created # {} /\ cmd.strict => exit # 0

\* Nothing happens before the launch, and the launch is of a checked line.
Settled ==
    /\ phase \in {"resolve", "lock"} => fs = tree /\ dirty = {}
    /\ phase \in {"lock", "run", "done"} => ~RejectMasking(cmd.ws)
    /\ Launched => Planned

IInv == TypeOK /\ WatchDecided /\ Settled /\ Rooted /\ MountsKept /\ Placed /\ Clean

LEMMA Initially ==
    ASSUME Init
    PROVE  IInv
  <1>1. PICK l \in Launches : cmd = l.cmd /\ tree = l.tree
    BY DEF Init
  <1>2. tree \in [Paths -> [kind : {"none", "file", "dir", "link"}, id : Paths \cup {<<>>}]]
    BY <1>1, LocksetAssumption
  <1>3. fs \in [Paths -> Nodes]
    BY <1>2 DEF Init, Nodes
  <1>4. TypeOK
    BY <1>1, <1>3, LocksetAssumption DEF Init, TypeOK, Nodes
  <1>5. fs = tree /\ phase = "resolve" /\ dirty = {}
    BY DEF Init
  <1>6. Rooted
    <2>1. TreeShape
      BY <1>1, TreeShaped
    <2> QED BY <1>5, <2>1 DEF TreeShape, Rooted
  <1>7. Settled /\ MountsKept /\ Placed /\ Clean
    BY <1>5 DEF Settled, MountsKept, Placed, Clean, Launched
  <1> QED
    BY <1>4, <1>6, <1>7 DEF Init, IInv, WatchDecided

LEMMA TypeStep ==
    ASSUME IInv, [Next]_vars
    PROVE  TypeOK'
  <1>t. /\ \E l \in Launches : cmd = l.cmd /\ tree = l.tree
        /\ fs \in [Paths -> Nodes] /\ dirty \subseteq Paths \cup {<<>>, Fresh}
        /\ binds \in {<<>>, cmd.ws \o PlanFor(tree, cmd)} /\ dangling \subseteq watch /\ created \subseteq watch
        /\ phase \in {"resolve", "lock", "run", "done", "refused"}
        /\ exit \in {0, 1, 3} /\ ops \in 0..MaxOps
    BY DEF IInv, TypeOK, Nodes
  <1>1. CASE ResolveWorkspaces
    BY <1>1, <1>t DEF ResolveWorkspaces, TypeOK, Nodes
  <1>2. CASE PlanLock
    <2>1. dangling' = {} /\ created' = {} /\ phase' \in {"run", "refused"}
      BY <1>2 DEF PlanLock, IInv, WatchDecided
    <2>2. binds' \in {<<>>, cmd.ws \o PlanFor(tree, cmd)}
      BY <1>2, <1>t DEF PlanLock
    <2>3. UNCHANGED <<cmd, tree, fs, dirty, exit, ops>>
      BY <1>2 DEF PlanLock
    <2> QED
      BY <1>t, <2>1, <2>2, <2>3 DEF TypeOK, Nodes
  <1>3. CASE Agent
    <2>1. ops' \in 0..MaxOps
      BY <1>3, <1>t, AgentKeeps, LocksetAssumption
    <2>2. TypeOK
      BY DEF IInv
    <2> QED
      BY <1>3, <1>t, <2>1, <2>2, AgentKeeps, AgentTypes DEF TypeOK, Nodes
  <1>4. CASE Report
    <2>1. dangling' \subseteq watch' /\ created' \subseteq watch' /\ exit' \in {0, 1, 3}
      BY <1>4 DEF Report
    <2> QED
      BY <1>4, <1>t, <2>1 DEF Report, TypeOK, Nodes
  <1>5. CASE UNCHANGED vars
    BY <1>5, <1>t DEF vars, TypeOK, Nodes
  <1> QED
    BY <1>1, <1>2, <1>3, <1>4, <1>5 DEF Next

LEMMA WatchStep ==
    ASSUME IInv, [Next]_vars
    PROVE  WatchDecided'
  <1>w. WatchDecided
    BY DEF IInv
  <1>1. CASE ResolveWorkspaces
    BY <1>1, <1>w DEF ResolveWorkspaces, WatchDecided
  <1>2. CASE PlanLock
    BY <1>2, <1>w DEF PlanLock, WatchDecided, Writable
  <1>3. CASE Agent
    <2>1. phase = "run" /\ UNCHANGED <<phase, cmd, tree, watch, dangling, created>>
      BY <1>3, AgentKeeps
    <2> QED
      BY <2>1, <1>w DEF WatchDecided, Writable
  <1>4. CASE Report
    <2>1. phase = "run" /\ phase' = "done" /\ UNCHANGED <<cmd, tree, fs, watch>>
      BY <1>4 DEF Report
    <2>2. created' = {p \in watch : Exists(p, dangling')}
      BY <1>4 DEF Report
    <2>3. created' # {} /\ cmd.strict => exit' # 0
      BY <1>4 DEF Report
    <2>4. Writable(cmd)' = Writable(cmd)
      BY <2>1 DEF Writable
    <2>5. \A p, D : (p \in Paths /\ fs'[p].kind # "none" /\ p \notin D) <=> Exists(p, D)
      BY <2>1 DEF Exists, Present
    <2>6. created' = {p \in watch : Exists(p, dangling)}'
      BY <2>1, <2>2, <2>5 DEF Exists, Present
    <2> QED
      BY <2>1, <2>3, <2>4, <2>6, <1>w DEF WatchDecided
  <1>5. CASE UNCHANGED vars
    BY <1>5, <1>w DEF vars, WatchDecided, Writable, Exists, Present
  <1> QED
    BY <1>1, <1>2, <1>3, <1>4, <1>5 DEF Next

LEMMA SettledStep ==
    ASSUME IInv, [Next]_vars
    PROVE  Settled'
  <1>s. Settled
    BY DEF IInv
  <1>1. CASE ResolveWorkspaces
    BY <1>1, <1>s DEF ResolveWorkspaces, Settled, Launched
  <1>2. CASE PlanLock
    <2>1. phase = "lock" /\ phase' \in {"run", "refused"} /\ UNCHANGED <<cmd, tree>>
      BY <1>2 DEF PlanLock
    <2>2. phase' = "run" => binds' = cmd.ws \o PlanFor(tree, cmd)
      BY <1>2 DEF PlanLock
    <2> QED BY <1>s, <2>1, <2>2 DEF Settled, Launched, Planned
  <1>3. CASE Agent
    <2>1. phase = "run" /\ UNCHANGED <<phase, cmd, tree, binds>>
      BY <1>3, AgentKeeps
    <2> QED BY <1>s, <2>1 DEF Settled, Launched, Planned
  <1>4. CASE Report
    BY <1>4, <1>s DEF Report, Settled, Launched, Planned
  <1>5. CASE UNCHANGED vars
    BY <1>5, <1>s DEF vars, Settled, Launched, Planned
  <1> QED
    BY <1>1, <1>2, <1>3, <1>4, <1>5 DEF Next

\* At the launch every node is where it was, under its binds in argv order.
LEMMA AtFirst ==
    ASSUME Given, Planned, fs = tree, dirty = {}
    PROVE  MountsKept /\ Placed /\ Clean
  <1>1. ASSUME NEW r \in Paths, fs[r].kind # "none" PROVE MountOf(r) = Top(AtLaunch(fs[r].id))
    <2>1. tree[r].id = r /\ \A x \in Paths : Under(r, x) => tree[x].id = x
      BY <1>1, GivenFacts DEF TreeShape
    <2>2. \A i \in 1..Len(binds) : binds[i].path \in Paths
      BY BindsAre DEF BindSet
    <2>3. Over(r) = AtLaunch(r)
      <3>1. ASSUME NEW i \in 1..Len(binds)
            PROVE  binds[i].path \in Chain(r) <=> Under(r, binds[i].path)
        BY <2>1, <2>2 DEF Chain
      <3> QED BY <3>1 DEF Over, AtLaunch
    <2> QED BY <2>1, <2>3, MountIs
  <1> QED
    BY <1>1 DEF MountsKept, Placed, Clean

LEMMA MountedStep ==
    ASSUME IInv, [Next]_vars
    PROVE  Rooted' /\ MountsKept' /\ Placed' /\ Clean'
  <1>i. /\ fs \in [Paths -> Nodes] /\ Given /\ Settled
        /\ Rooted /\ MountsKept /\ Placed /\ Clean
    BY DEF IInv, TypeOK, Given, Nodes
  <1>1. CASE ResolveWorkspaces
    <2>1. phase' \in {"refused", "lock"} /\ fs' = fs
      BY <1>1 DEF ResolveWorkspaces
    <2> QED BY <1>i, <2>1 DEF Rooted, MountsKept, Placed, Clean, Launched
  <1>2. CASE PlanLock
    <2>1. /\ phase = "lock" /\ phase' \in {"run", "refused"}
          /\ UNCHANGED <<cmd, tree, fs, dirty>>
          /\ phase' = "run" => binds' = cmd.ws \o PlanFor(tree, cmd)
      BY <1>2 DEF PlanLock
    <2>2. fs' = tree' /\ dirty' = {} /\ Given'
      BY <1>i, <2>1 DEF Settled, Given
    <2>3. Rooted'
      BY <1>i, <2>1 DEF Rooted
    <2>4. CASE phase' = "run"
      <3>1. Planned'
        BY <2>1, <2>4 DEF Planned
      <3>2. (Given /\ Planned /\ fs = tree /\ dirty = {} => MountsKept /\ Placed /\ Clean)'
        BY AtFirst, PTL
      <3> QED BY <2>2, <2>3, <3>1, <3>2
    <2>5. CASE phase' = "refused"
      BY <2>3, <2>5 DEF MountsKept, Placed, Clean, Launched
    <2> QED BY <2>1, <2>4, <2>5
  <1>3. CASE Agent
    <2>1. Len(binds) \in Nat /\ TreeShape
      <3>1. Planned
        BY <1>3, <1>i, AgentKeeps DEF Settled, Launched
      <3> QED BY <1>i, <3>1, BindsAre, GivenFacts
    <2> QED BY <1>3, <1>i, <2>1, RootedStep, MountsStep, PlacedStep, CleanStep
  <1>4. CASE Report \/ UNCHANGED vars
    <2>1. UNCHANGED <<cmd, tree, fs, dirty, binds>> /\ (Launched' <=> Launched)
      BY <1>4 DEF Report, vars, Launched
    <2>2. /\ \A p : ReadOnly(p)' = ReadOnly(p) /\ AtLaunch(p)' = AtLaunch(p)
          /\ \A p : MountOf(p)' = MountOf(p)
      BY <2>1 DEF ReadOnly, AtLaunch, MountOf, Chain
    <2>3. \A p, q : Held(p)' = Held(p) /\ Sealed(p, q)' = Sealed(p, q)
      BY <2>1, <2>2 DEF Held, Sealed, Bound
    <2> QED BY <1>i, <2>1, <2>2, <2>3 DEF Rooted, MountsKept, Placed, Clean
  <1> QED
    BY <1>1, <1>2, <1>3, <1>4 DEF Next

\* The invariant the theorems below rest on holds of every reachable state.
THEOREM Invariant == Spec => []IInv
  <1>1. IInv /\ [Next]_vars => IInv'
    BY TypeStep, WatchStep, SettledStep, MountedStep DEF IInv
  <1> QED
    BY Initially, <1>1, PTL DEF Spec

\* Every variable keeps its type, and the binds are the workspaces and then
\* the plan, whatever the agent does.
THEOREM TypeCorrect == Spec => []TypeOK
  <1>1. IInv => TypeOK
    BY DEF IInv
  <1> QED
    BY <1>1, Invariant, PTL

\* Whatever the agent does, each of the nodes it started with is reached
\* through the bind that was last over it at launch: a directory that is
\* moved takes its mounts along, and only within one mount.
THEOREM Mounted == Spec => []MountsKept
  <1>1. IInv => MountsKept
    BY DEF IInv
  <1> QED
    BY <1>1, Invariant, PTL

\* No sequence of writes, renames and removals, however long, changes a
\* locked path or anything below it, for any file system and any command
\* line none of whose plans re-opens another's leaf.
THEOREM Intact ==
    ASSUME LocksApart
    PROVE  Spec => []LeavesIntact
  <1>1. ASSUME IInv PROVE LeavesIntact
    <2>1. SUFFICES ASSUME Launched, NEW w \in Writable(cmd), NEW p \in LockedLeaves(tree, cmd, w),
                          NEW q \in Paths, Under(q, p)
                   PROVE  Untouched(q, w)
      BY DEF LeavesIntact
    <2>2. Given /\ Planned /\ Placed /\ Clean
      BY <1>1, <2>1 DEF IInv, TypeOK, Given, Settled
    <2>3. PICK i \in RwOf(cmd) : w = cmd.ws[i].path
      BY DEF Writable, RwOf
    <2>4. p \in LeavesOf(tree, cmd, i) /\ p \in Paths
      BY <2>3, LeavesArePaths DEF LeavesOf
    <2>5. \A x \in Paths : Under(x, p) => ReadOnly(x)
      BY <2>2, <2>4, LeafSealed
    <2>6. q \notin dirty
      BY <2>1, <2>2, <2>5 DEF Clean
    <2>7. ASSUME ~Movable(w) PROVE fs[q] = tree[q]
      <3>1. Held(p)
        BY <2>2, <2>3, <2>4, <2>7, LeafHeld
      <3>2. Sealed(p, q)
        BY <2>1, <2>5 DEF Sealed
      <3> QED BY <2>1, <2>2, <2>4, <3>1, <3>2 DEF Placed
    <2> QED BY <2>6, <2>7 DEF Untouched
  <1> QED
    BY <1>1, Invariant, PTL

\* Nor does one change anything under a read-only workspace, but under a
\* read-write one inside it that was named after it.
THEOREM ReadOnlyKept ==
    ASSUME PinsApart
    PROVE  Spec => []ReadOnlyHolds
  <1>1. ASSUME IInv PROVE ReadOnlyHolds
    <2>1. SUFFICES ASSUME Launched, NEW i \in 1..Len(cmd.ws), NEW q \in Paths,
                          cmd.ws[i].ro, Under(q, cmd.ws[i].path),
                          ~\E j \in (i + 1)..Len(cmd.ws) :
                              Under(q, cmd.ws[j].path) /\ Under(cmd.ws[j].path, cmd.ws[i].path)
                   PROVE  Untouched(q, cmd.ws[i].path)
      BY DEF ReadOnlyHolds
    <2> DEFINE p == cmd.ws[i].path
    <2>2. Given /\ Planned /\ Placed /\ Clean /\ ~RejectMasking(cmd.ws)
      BY <1>1, <2>1 DEF IInv, TypeOK, Given, Settled, Launched
    <2>3. Sealed(p, q)
      BY <2>1, <2>2, WorkspaceSealed
    <2>4. p \in Paths /\ Under(q, q)
      BY <2>2, GivenFacts, PathsAre, UnderOrder DEF BindSet
    <2>5. q \notin dirty
      <3>1. ReadOnly(q)
        BY <2>1, <2>3, <2>4 DEF Sealed
      <3> QED BY <2>1, <2>2, <3>1 DEF Clean
    <2>6. ASSUME ~Movable(p) PROVE fs[q] = tree[q]
      <3>1. Held(p)
        BY <2>2, <2>6, WorkspaceHeld
      <3> QED BY <2>1, <2>2, <2>3, <2>4, <3>1 DEF Placed
    <2> QED BY <2>5, <2>6 DEF Untouched
  <1> QED
    BY <1>1, Invariant, PTL

\* A row of the lock set that did not exist at launch and exists when the
\* agent has ended is reported, under --lock-strict by the exit code too,
\* unless it is a link that leads nowhere: WatchOf and Report look at the
\* same rows, and no step between them changes what is watched.
THEOREM Reported == Spec => []RowsReported
  <1>1. ASSUME IInv, phase = "done", NEW p \in Appeared(AllRows \ AllUnlocked) \ dangling
        PROVE  p \in created
    <2>1. p \in Paths /\ tree[p].kind = "none" /\ fs[p].kind # "none"
      BY DEF Appeared
    <2>2. p \in AllRows /\ p \notin AllUnlocked
      BY DEF Appeared
    <2>3. PICK w \in Writable(cmd) : p \in Rows(cmd, w)
      BY <2>2 DEF AllRows
    <2>4. p \in WatchOf(tree, cmd, w)
      BY <2>1, <2>2, <2>3 DEF WatchOf, Present, AllUnlocked
    <2>5. p \in watch
      BY <1>1, <2>4 DEF IInv, WatchDecided
    <2>6. Exists(p, dangling)
      BY <1>1, <2>1 DEF Exists, Present
    <2> QED
      BY <1>1, <2>5, <2>6 DEF IInv, WatchDecided
  <1>2. IInv => RowsReported
    BY <1>1 DEF IInv, WatchDecided, RowsReported
  <1> QED
    BY <1>2, Invariant, PTL
=============================================================================
