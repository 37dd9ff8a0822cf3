-------------------------- MODULE ClientHello_proof --------------------------
(***************************************************************************)
(* Proofs about the parser of the ClientHello: for any hellos, any bytes   *)
(* and any sizes of the headers and limits, the loop over the records and  *)
(* the walk over the extensions compute what Encodes and Names say without *)
(* a loop.  Both are recursive functions on numbers, so the proofs are by  *)
(* induction, in the form of facts about sets of numbers.                  *)
(***************************************************************************)
EXTENDS ClientHello, Integers, WellFoundedInduction, TLAPS

-----------------------------------------------------------------------------
(* Induction.                                                              *)

Below == {p \in Nat \X Nat : p[1] < p[2]}

LEMMA BelowWellFounded == IsWellFoundedOn(Below, Nat)
  <1>1. OpToRel(<, Nat) = Below
    BY DEF OpToRel, Below
  <1> QED BY <1>1, NatLessThanWellFounded

\* A set of numbers that is not empty has a least member.
THEOREM Least ==
    ASSUME NEW T, T \subseteq Nat, T # {}
    PROVE  \E x \in T : \A y \in T : x <= y
  <1>1. PICK x \in T : \A y \in T : ~ (<<y, x>> \in Below)
    BY BelowWellFounded, WFMin
  <1>2. \A y \in T : x <= y
    <2>1. TAKE y \in T
    <2>2. x \in Nat /\ y \in Nat /\ <<y, x>> \notin Below
      BY <1>1
    <2> QED BY <2>2 DEF Below
  <1> QED BY <1>2

\* Induction: a set with 0 and the successors of its members has every number.
THEOREM Induct ==
    ASSUME NEW T, 0 \in T, \A n \in Nat : n \in T => n + 1 \in T
    PROVE  Nat \subseteq T
  <1> DEFINE U == Nat \ T
  <1> SUFFICES ASSUME U # {} PROVE FALSE
    OBVIOUS
  <1>1. PICK x \in U : \A y \in U : x <= y
    <2> U \subseteq Nat OBVIOUS
    <2> HIDE DEF U
    <2> QED BY Least
  <1> QED BY <1>1

\* A set of numbers that is bounded and not empty has a greatest member.
THEOREM Greatest ==
    ASSUME NEW T, T \subseteq Nat, T # {}, NEW n \in Nat, \A x \in T : x <= n
    PROVE  \E x \in T : \A y \in T : y <= x
  <1> DEFINE U == {n - x : x \in T}
  <1>1. U \subseteq Nat /\ U # {}
    <2>1. \A x \in T : n - x \in Nat
      OBVIOUS
    <2> QED BY <2>1
  <1>2. PICK u \in U : \A v \in U : u <= v
    <2> HIDE DEF U
    <2> QED BY <1>1, Least
  <1>3. PICK x \in T : u = n - x
    OBVIOUS
  <1>4. ASSUME NEW y \in T PROVE y <= x
    <2>1. n - y \in U
      OBVIOUS
    <2>2. u <= n - y
      BY <1>2, <2>1
    <2> QED BY <1>3, <2>2
  <1> QED BY <1>4

-----------------------------------------------------------------------------
(* The walk of the body.                                                   *)

\* The walk is the function its recursion says.
LEMMA WalkIs ==
    ASSUME NEW exts, Len(exts) \in Nat
    PROVE  Walk(exts) = [i \in 0..Len(exts) |->
               IF i = 0 THEN Some(NoName) ELSE Extension(Walk(exts)[i - 1], exts[i])]
  <1> DEFINE W(w, n) == [i \in 0..n |-> IF i = 0 THEN Some(NoName) ELSE Extension(w[i - 1], exts[i])]
             T == {n \in Nat : \E w : w = W(w, n)}
  <1>1. 0 \in T
    <2> DEFINE w == [i \in 0..0 |-> Some(NoName)]
    <2>1. w = W(w, 0)
      OBVIOUS
    <2> HIDE DEF w, W
    <2> QED BY <2>1
  <1>2. ASSUME NEW n \in Nat, n \in T PROVE n + 1 \in T
    <2>1. PICK w : w = W(w, n)
      BY <1>2
    <2> DEFINE v == [i \in 0..(n + 1) |-> IF i = n + 1 THEN Extension(w[n], exts[n + 1]) ELSE w[i]]
    <2>2. \A i \in 0..(n + 1) : v[i] = IF i = 0 THEN Some(NoName) ELSE Extension(v[i - 1], exts[i])
      <3>1. TAKE i \in 0..(n + 1)
      <3>2. CASE i = n + 1
        BY <3>2
      <3>3. CASE i # n + 1
        <4>1. i \in 0..n /\ v[i] = w[i] /\ (i # 0 => v[i - 1] = w[i - 1])
          BY <3>3
        <4>2. w[i] = IF i = 0 THEN Some(NoName) ELSE Extension(w[i - 1], exts[i])
          BY <2>1, <4>1
        <4> QED BY <4>1, <4>2
      <3> QED BY <3>2, <3>3
    <2>3. v = W(v, n + 1)
      BY <2>2
    <2> HIDE DEF v, W
    <2> QED BY <2>3
  <1>3. Nat \subseteq T
    <2> HIDE DEF T
    <2> QED BY <1>1, <1>2, Induct
  <1>4. PICK w : w = W(w, Len(exts))
    BY <1>3
  <1> QED BY <1>4 DEF Walk

LEMMA WalkStep ==
    ASSUME NEW exts, Len(exts) \in Nat
    PROVE  /\ Walk(exts)[0] = Some(NoName)
           /\ \A i \in 1..Len(exts) : Walk(exts)[i] = Extension(Walk(exts)[i - 1], exts[i])
  <1>1. \A i \in 0..Len(exts) : Walk(exts)[i] =
            IF i = 0 THEN Some(NoName) ELSE Extension(Walk(exts)[i - 1], exts[i])
    BY WalkIs
  <1> QED BY <1>1

\* A server_name extension is taken when it is one host entry and no more.
LEMMA OneHost ==
    ASSUME NEW ext, ext.trailing \in BOOLEAN,
           IsSequence(ext.list)
    PROVE  /\ ParseSni(ext) = Fail \/ (ParseSni(ext).ok /\ ParseSni(ext).name # NoName)
           /\ \A name : ParseSni(ext) = Some(name) <=>
                 /\ ~ext.trailing
                 /\ \E e \in Entries(ext) :
                       ext.list = <<e>> /\ e.type = "host" /\ Lower(e.name) = name /\ IsDnsName(name)
  <1> DEFINE list == ext.list
             S == {list[j] : j \in DOMAIN list}
             taken == ~ext.trailing /\ OneEntry(list) /\ list[1].type = "host" /\ IsDnsName(Lower(list[1].name))
  <1>1. \A name : IsDnsName(name) => name # NoName
    BY DEF IsDnsName, NoName
  <1>2. ParseSni(ext) = IF taken THEN Some(Lower(list[1].name)) ELSE Fail
    BY DEF ParseSni
  <1>3. OneEntry(list) => list = <<list[1]>> /\ list[1] \in Entries(ext)
    <2>1. list \in Seq(S) /\ (Len(list) = 1 => list[1] \in Entries(ext))
      BY DEF IsSequence, Entries
    <2>2. Len(list) = 1 => list = <<list[1]>>
      <3> HIDE DEF list, S
      <3> QED BY <2>1
    <2> QED BY <2>1, <2>2 DEF OneEntry
  <1>4. \A e : list = <<e>> => OneEntry(list) /\ list[1] = e
    BY DEF OneEntry
  <1>5. \A name : Some(name) # Fail /\ Some(name).ok /\ Some(name).name = name
    BY DEF Some, Fail
  <1>6. \A name : Some(name) = Some(Lower(list[1].name)) <=> name = Lower(list[1].name)
    BY <1>5
  <1> HIDE DEF list
  <1>7. CASE taken
    <2>1. ParseSni(ext) = Some(Lower(list[1].name))
      BY <1>2, <1>7
    <2>2. \A name : ParseSni(ext) = Some(name) <=> name = Lower(list[1].name)
      BY <2>1, <1>6
    <2>3. ASSUME NEW name, NEW e \in Entries(ext), list = <<e>>, Lower(e.name) = name
          PROVE  name = Lower(list[1].name)
      BY <2>3, <1>4
    <2> QED BY <2>1, <2>2, <2>3, <1>1, <1>3, <1>5, <1>7 DEF list
  <1>8. CASE ~taken
    <2>1. ParseSni(ext) = Fail
      BY <1>2, <1>8
    <2>2. ASSUME NEW name, ~ext.trailing, NEW e \in Entries(ext), list = <<e>>, e.type = "host",
                 Lower(e.name) = name, IsDnsName(name)
          PROVE  FALSE
      BY <2>2, <1>4, <1>8
    <2> QED BY <2>1, <2>2, <1>5 DEF list
  <1> QED BY <1>7, <1>8

\* The extensions of a hello.
LEMMA Extensions ==
    ASSUME NEW g \in DOMAIN Hellos
    PROVE  LET exts == Hellos[g].exts IN
           /\ Len(exts) \in Nat /\ DOMAIN exts = 1..Len(exts)
           /\ \A i \in 1..Len(exts) :
                 /\ exts[i].trailing \in BOOLEAN /\ exts[i].cut \in BOOLEAN
                 /\ IsSequence(exts[i].list)
  <1> DEFINE exts == Hellos[g].exts
             S == {exts[i] : i \in DOMAIN exts}
  <1>1. /\ IsSequence(exts)
        /\ \A i \in DOMAIN exts :
              /\ exts[i].trailing \in BOOLEAN /\ exts[i].cut \in BOOLEAN
              /\ IsSequence(exts[i].list)
    BY HellosAssumption
  <1>2. Len(exts) \in Nat /\ DOMAIN exts = 1..Len(exts)
    <2>1. exts \in Seq(S)
      BY <1>1 DEF IsSequence
    <2> HIDE DEF exts, S
    <2> QED BY <2>1
  <1> QED BY <1>1, <1>2

\* What the walk has after i extensions, if it has not failed.
Walked(exts, i, w) ==
    /\ \A j \in 1..i : ~exts[j].cut /\ exts[j].type # "ech"
    /\ \/ w = Some(NoName) /\ \A j \in 1..i : exts[j].type # "server_name"
       \/ \E j \in 1..i :
             /\ \A k \in 1..i : exts[k].type = "server_name" <=> k = j
             /\ w = ParseSni(exts[j]) /\ w.name # NoName

LEMMA WalkSound ==
    ASSUME NEW g \in DOMAIN Hellos, NEW m \in 0..Len(Hellos[g].exts), Walk(Hellos[g].exts)[m].ok
    PROVE  Walked(Hellos[g].exts, m, Walk(Hellos[g].exts)[m])
  <1> DEFINE exts == Hellos[g].exts
             w == Walk(exts)
             T == {i \in Nat : i <= Len(exts) /\ w[i].ok => Walked(exts, i, w[i])}
  <1>1. /\ Len(exts) \in Nat /\ DOMAIN exts = 1..Len(exts)
        /\ \A i \in 1..Len(exts) :
              /\ exts[i].trailing \in BOOLEAN /\ exts[i].cut \in BOOLEAN
              /\ IsSequence(exts[i].list)
    BY Extensions
  <1>2. w[0] = Some(NoName) /\ \A i \in 1..Len(exts) : w[i] = Extension(w[i - 1], exts[i])
    BY <1>1, WalkStep
  <1> HIDE DEF exts, w
  <1>3. 0 \in T
    BY <1>2 DEF Walked
  <1>4. ASSUME NEW i \in Nat, i \in T PROVE i + 1 \in T
    <2> SUFFICES ASSUME i + 1 <= Len(exts), w[i + 1].ok PROVE Walked(exts, i + 1, w[i + 1])
      OBVIOUS
    <2> DEFINE ext == exts[i + 1]
    <2>1. w[i + 1] = Extension(w[i], ext) /\ i <= Len(exts)
      BY <1>1, <1>2
    <2>2. ~Fail.ok
      BY DEF Fail
    <2>3. w[i].ok /\ ~ext.cut /\ ext.type # "ech"
      BY <2>1, <2>2 DEF Extension
    <2>4. Walked(exts, i, w[i])
      BY <2>1, <2>3, <1>4
    <2>5. \A j \in 1..(i + 1) : ~exts[j].cut /\ exts[j].type # "ech"
      BY <2>3, <2>4 DEF Walked
    <2>6. CASE ext.type # "server_name"
      <3>1. w[i + 1] = w[i]
        BY <2>1, <2>3, <2>6 DEF Extension
      <3> QED BY <3>1, <2>4, <2>5, <2>6 DEF Walked
    <2>7. CASE ext.type = "server_name"
      <3>1. w[i].name = NoName /\ w[i + 1] = ParseSni(ext)
        BY <2>1, <2>2, <2>3, <2>7 DEF Extension
      <3>2. \A j \in 1..i : exts[j].type # "server_name"
        BY <3>1, <2>4 DEF Walked
      <3>3. w[i + 1].name # NoName
        <4>1. /\ ext.trailing \in BOOLEAN
              /\ IsSequence(ext.list)
          BY <1>1
        <4>2. ParseSni(ext) = Fail \/ (ParseSni(ext).ok /\ ParseSni(ext).name # NoName)
          BY <4>1, OneHost
        <4> QED BY <4>2, <3>1, <2>2
      <3>4. \A k \in 1..(i + 1) : exts[k].type = "server_name" <=> k = i + 1
        BY <3>2, <2>7
      <3> QED BY <3>1, <3>3, <3>4, <2>5 DEF Walked
    <2> QED BY <2>6, <2>7
  <1>5. Nat \subseteq T
    <2> HIDE DEF T
    <2> QED BY <1>3, <1>4, Induct
  <1>6. m \in Nat /\ m <= Len(exts) /\ w[m].ok
    BY <1>1 DEF exts, w
  <1>7. Walked(exts, m, w[m])
    BY <1>5, <1>6
  <1> QED BY <1>7 DEF exts, w

\* The walk of a hello that names a host, before and after its entry.
LEMMA WalkComplete ==
    ASSUME NEW g \in DOMAIN Hellos, NEW n \in 1..Len(Hellos[g].exts), NEW name, name # NoName,
           \A i \in DOMAIN Hellos[g].exts : ~Hellos[g].exts[i].cut /\ Hellos[g].exts[i].type # "ech",
           ServerNames(Hellos[g]) = {n}, ParseSni(Hellos[g].exts[n]) = Some(name)
    PROVE  Walk(Hellos[g].exts)[Len(Hellos[g].exts)] = Some(name)
  <1> DEFINE exts == Hellos[g].exts
             w == Walk(exts)
             T == {i \in Nat : i <= Len(exts) => w[i] = IF i < n THEN Some(NoName) ELSE Some(name)}
  <1>1. /\ Len(exts) \in Nat /\ n \in 1..Len(exts)
        /\ \A i \in 1..Len(exts) :
              /\ ~exts[i].cut /\ exts[i].type # "ech"
              /\ exts[i].type = "server_name" <=> i = n
        /\ ParseSni(exts[n]) = Some(name)
    BY Extensions DEF ServerNames
  <1>2. w[0] = Some(NoName) /\ \A i \in 1..Len(exts) : w[i] = Extension(w[i - 1], exts[i])
    BY <1>1, WalkStep
  <1> HIDE DEF exts, w
  <1>3. 0 \in T
    BY <1>1, <1>2
  <1>4. ASSUME NEW i \in Nat, i \in T PROVE i + 1 \in T
    <2> SUFFICES ASSUME i + 1 <= Len(exts)
                 PROVE  w[i + 1] = IF i + 1 < n THEN Some(NoName) ELSE Some(name)
      OBVIOUS
    <2> DEFINE ext == exts[i + 1]
    <2>1. w[i + 1] = Extension(w[i], ext) /\ i <= Len(exts)
      BY <1>1, <1>2
    <2>2. w[i] = (IF i < n THEN Some(NoName) ELSE Some(name)) /\ w[i].ok
      BY <2>1, <1>4 DEF Some
    <2>3. ~ext.cut /\ ext.type # "ech" /\ (ext.type = "server_name" <=> i + 1 = n)
      BY <1>1
    <2>4. CASE i + 1 = n
      <3>1. w[i] = Some(NoName) /\ Some(NoName).name = NoName
        BY <1>1, <2>2, <2>4 DEF Some
      <3>2. w[i + 1] = ParseSni(ext)
        BY <2>1, <2>2, <2>3, <2>4, <3>1 DEF Extension
      <3> QED BY <3>2, <1>1, <2>4
    <2>5. CASE i + 1 # n
      <3>1. w[i + 1] = w[i]
        BY <2>1, <2>2, <2>3, <2>5 DEF Extension
      <3> QED BY <3>1, <2>2, <2>5, <1>1
    <2> QED BY <2>4, <2>5
  <1>5. Nat \subseteq T
    <2> HIDE DEF T
    <2> QED BY <1>3, <1>4, Induct
  <1>6. w[Len(exts)] = Some(name)
    BY <1>1, <1>5
  <1> QED BY <1>6 DEF exts, w

\* The walk of the body finds a name exactly when the hello is well formed
\* and names that host and no other.
THEOREM ParserExact ==
    ASSUME NEW g \in DOMAIN Hellos, NEW name
    PROVE  TryParse(Hellos[g]) = Some(name) /\ name # NoName <=> Names(Hellos[g], name)
  <1> DEFINE h == Hellos[g]
             exts == h.exts
             w == Walk(exts)[Len(exts)]
             Sizes == h.session <= 32 /\ h.ciphers > 0 /\ h.ciphers % 2 = 0 /\ h.compression > 0 /\ ~h.trailing
  <1>1. h.session \in Nat /\ h.ciphers \in Nat /\ h.compression \in Nat /\ h.trailing \in BOOLEAN
    BY HellosAssumption
  <1>2. TryParse(h) = IF Sizes THEN w ELSE Fail
    BY <1>1 DEF TryParse
  <1>3. /\ Len(exts) \in Nat /\ DOMAIN exts = 1..Len(exts)
        /\ \A i \in 1..Len(exts) : exts[i].trailing \in BOOLEAN /\ IsSequence(exts[i].list)
    BY Extensions
  <1>4. \A i \in 1..Len(exts) : ParseSni(exts[i]) = Some(name) <=>
            /\ ~exts[i].trailing
            /\ \E e \in Entries(exts[i]) :
                  exts[i].list = <<e>> /\ e.type = "host" /\ Lower(e.name) = name /\ IsDnsName(name)
    BY <1>3, OneHost
  <1>5. IsDnsName(name) => name # NoName
    BY DEF IsDnsName, NoName
  <1>6. Some(name).ok /\ Some(name).name = name /\ ~Fail.ok
    BY DEF Some, Fail
  <1>7. ASSUME TryParse(h) = Some(name), name # NoName PROVE Names(h, name)
    <2>1. Sizes /\ w = Some(name)
      BY <1>2, <1>6, <1>7
    <2>2. Walked(exts, Len(exts), w)
      BY <2>1, <1>3, <1>6, WalkSound
    <2>3. w # Some(NoName)
      BY <2>1, <1>6, <1>7 DEF Some
    <2>4. PICK i \in 1..Len(exts) :
              /\ \A k \in 1..Len(exts) : exts[k].type = "server_name" <=> k = i
              /\ w = ParseSni(exts[i])
      BY <2>2, <2>3 DEF Walked
    <2>5. \A j \in 1..Len(exts) : ~exts[j].cut /\ exts[j].type # "ech"
      BY <2>2 DEF Walked
    <2>6. ServerNames(h) = {i}
      BY <2>4, <1>3 DEF ServerNames
    <2>7. /\ ~exts[i].trailing
          /\ \E e \in Entries(exts[i]) :
                exts[i].list = <<e>> /\ e.type = "host" /\ Lower(e.name) = name /\ IsDnsName(name)
      BY <2>1, <2>4, <1>4
    <2> QED BY <2>1, <2>5, <2>6, <2>7, <1>3 DEF Names
  <1>8. ASSUME Names(h, name) PROVE TryParse(h) = Some(name) /\ name # NoName
    <2>1. Sizes
      BY <1>8 DEF Names
    <2>2. PICK i \in DOMAIN exts :
              /\ ServerNames(h) = {i} /\ ~exts[i].trailing
              /\ \E e \in Entries(exts[i]) :
                    exts[i].list = <<e>> /\ e.type = "host" /\ Lower(e.name) = name /\ IsDnsName(name)
      BY <1>8 DEF Names
    <2>3. ParseSni(exts[i]) = Some(name) /\ name # NoName
      BY <2>2, <1>3, <1>4, <1>5
    <2>4. \A j \in DOMAIN exts : ~exts[j].cut /\ exts[j].type # "ech"
      BY <1>8 DEF Names
    <2>5. w = Some(name)
      BY <2>2, <2>3, <2>4, <1>3, WalkComplete
    <2> QED BY <2>1, <2>3, <2>5, <1>2
  <1> QED BY <1>7, <1>8

-----------------------------------------------------------------------------
(* The scan.                                                               *)

\* Headers of i records.
LEMMA Headers ==
    /\ \A i \in Nat : i * RecHeader \in Nat /\ (i + 1) * RecHeader = i * RecHeader + RecHeader
    /\ 0 * RecHeader = 0
    /\ \A i \in Nat, j \in Nat : i <= j => i * RecHeader <= j * RecHeader
  <1> RecHeader \in Nat
    BY HelloAssumption
  <1> QED OBVIOUS

\* The loop is the function its recursion says.
LEMMA TurnsIs ==
    ASSUME NEW buf
    PROVE  Turns(buf) = [k \in 0..(MaxRecords + 1) |->
               IF k = 0 THEN [off |-> 0, hs |-> <<>>, verdict |-> "more"]
               ELSE IF Turns(buf)[k - 1].verdict # "more" THEN Turns(buf)[k - 1]
               ELSE NextRecord(buf, Turns(buf)[k - 1], k)]
  <1> DEFINE start == [off |-> 0, hs |-> <<>>, verdict |-> "more"]
             G(s, k) == IF s.verdict # "more" THEN s ELSE NextRecord(buf, s, k)
             F(s, n) == [k \in 0..n |-> IF k = 0 THEN start ELSE G(s[k - 1], k)]
             T == {n \in Nat : \E s : s = F(s, n)}
  <1>1. 0 \in T
    <2> DEFINE s == [k \in 0..0 |-> start]
    <2>1. s = F(s, 0)
      OBVIOUS
    <2> HIDE DEF s, F
    <2> QED BY <2>1
  <1> HIDE DEF G, start
  <1>2. ASSUME NEW n \in Nat, n \in T PROVE n + 1 \in T
    <2>1. PICK s : s = F(s, n)
      BY <1>2
    <2> DEFINE r == [k \in 0..(n + 1) |-> IF k = n + 1 THEN G(s[n], n + 1) ELSE s[k]]
    <2>2. \A k \in 0..(n + 1) : r[k] = IF k = 0 THEN start ELSE G(r[k - 1], k)
      <3>1. TAKE k \in 0..(n + 1)
      <3>2. CASE k = n + 1
        BY <3>2
      <3>3. CASE k # n + 1
        <4>1. k \in 0..n /\ r[k] = s[k] /\ (k # 0 => r[k - 1] = s[k - 1])
          BY <3>3
        <4>2. s[k] = IF k = 0 THEN start ELSE G(s[k - 1], k)
          BY <2>1, <4>1
        <4> QED BY <4>1, <4>2
      <3> QED BY <3>2, <3>3
    <2>3. r = F(r, n + 1)
      BY <2>2
    <2> HIDE DEF r, F
    <2> QED BY <2>3
  <1>3. Nat \subseteq T
    <2> HIDE DEF T
    <2> QED BY <1>1, <1>2, Induct
  <1>4. MaxRecords + 1 \in Nat
    BY HelloAssumption
  <1>5. PICK s : s = F(s, MaxRecords + 1)
    BY <1>3, <1>4
  <1> QED BY <1>5 DEF Turns, G, start

LEMMA TurnsStep ==
    ASSUME NEW buf
    PROVE  /\ Turns(buf)[0] = [off |-> 0, hs |-> <<>>, verdict |-> "more"]
           /\ \A k \in 0..MaxRecords : Turns(buf)[k + 1] =
                 IF Turns(buf)[k].verdict # "more" THEN Turns(buf)[k]
                 ELSE NextRecord(buf, Turns(buf)[k], k + 1)
  <1>1. MaxRecords \in Nat
    BY HelloAssumption
  <1>2. \A k \in 0..(MaxRecords + 1) : Turns(buf)[k] =
            IF k = 0 THEN [off |-> 0, hs |-> <<>>, verdict |-> "more"]
            ELSE IF Turns(buf)[k - 1].verdict # "more" THEN Turns(buf)[k - 1]
            ELSE NextRecord(buf, Turns(buf)[k - 1], k)
    BY TurnsIs
  <1>3. \A k \in 0..MaxRecords : k + 1 \in 0..(MaxRecords + 1) /\ k + 1 # 0 /\ (k + 1) - 1 = k
    BY <1>1
  <1> QED BY <1>1, <1>2, <1>3

\* After n whole records, of which the i-th ends at ends[i] of the message,
\* the loop has the bytes of their bodies.
Reassembled(buf, n, ends, s) ==
    /\ s = [off |-> s.off, hs |-> s.hs, verdict |-> s.verdict]
    /\ n \in Nat /\ ends \in [0..n -> Nat] /\ ends[0] = 0 /\ ends[n] = Len(s.hs)
    /\ s.off = ends[n] + n * RecHeader /\ s.off <= Len(buf)
    /\ s.hs \in Seq({buf[i] : i \in DOMAIN buf})
    /\ \A i \in 0..n : \A j \in 0..n : i < j => ends[i] < ends[j]
    /\ \A i \in 1..n :
          /\ ends[i] - ends[i - 1] <= MaxRecord
          /\ IsHeader(buf[ends[i - 1] + (i - 1) * RecHeader + 1], "rec", "handshake",
                      ends[i] - ends[i - 1])
          /\ \A k \in (ends[i - 1] + 1)..ends[i] : buf[k + i * RecHeader] = s.hs[k]

\* A record that is all there.
LEMMA Within ==
    ASSUME NEW at \in Nat, NEW header \in Nat, NEW long \in Nat, NEW m \in Nat, ~((m - at) - header < long)
    PROVE  at + header \in Nat /\ at + header + long <= m
  OBVIOUS

LEMMA PieceOf ==
    ASSUME NEW B, NEW b \in Seq(B), NEW from \in Nat, NEW len \in Nat, from + len <= Len(b)
    PROVE  /\ SubSeq(b, from + 1, from + len) \in Seq(B)
           /\ Len(SubSeq(b, from + 1, from + len)) = len
           /\ \A k \in 1..len : SubSeq(b, from + 1, from + len)[k] = b[from + k]
  OBVIOUS

LEMMA Joined ==
    ASSUME NEW B, NEW p \in Seq(B), NEW q \in Seq(B)
    PROVE  /\ p \o q \in Seq(B) /\ Len(p \o q) = Len(p) + Len(q)
           /\ \A k \in 1..Len(p) : (p \o q)[k] = p[k]
           /\ \A k \in (Len(p) + 1)..(Len(p) + Len(q)) : (p \o q)[k] = q[k - Len(p)]
  OBVIOUS

\* A turn that goes on, or ends with a message, has read one record more.
LEMMA TurnSound ==
    ASSUME NEW buf, IsSequence(buf), NEW n, NEW ends, NEW s, Reassembled(buf, n, ends, s),
           NextRecord(buf, s, n + 1).verdict \in {"more", "hello"}
    PROVE  LET t == NextRecord(buf, s, n + 1) IN
           /\ n + 1 <= MaxRecords
           /\ \E more : Reassembled(buf, n + 1, more, t)
           /\ t.verdict = "hello" => HandshakeMessage(t.hs) = "hello" /\ t.off = Len(buf)
  <1> DEFINE B == {buf[i] : i \in DOMAIN buf}
             t == NextRecord(buf, s, n + 1)
             rest == Len(buf) - s.off
             len == buf[s.off + 1][3]
             piece == SubSeq(buf, s.off + RecHeader + 1, s.off + RecHeader + len)
             hs == s.hs \o piece
             off == s.off + RecHeader + len
             m == HandshakeMessage(hs)
             end == ends[n] + len
             more == [i \in 0..(n + 1) |-> IF i = n + 1 THEN end ELSE ends[i]]
  <1>1. /\ s = [off |-> s.off, hs |-> s.hs, verdict |-> s.verdict]
        /\ n \in Nat /\ ends \in [0..n -> Nat] /\ ends[0] = 0 /\ ends[n] = Len(s.hs)
        /\ s.off = ends[n] + n * RecHeader /\ s.off <= Len(buf)
        /\ s.hs \in Seq(B)
        /\ \A i \in 0..n : \A j \in 0..n : i < j => ends[i] < ends[j]
        /\ \A i \in 1..n :
              /\ ends[i] - ends[i - 1] <= MaxRecord
              /\ IsHeader(buf[ends[i - 1] + (i - 1) * RecHeader + 1], "rec", "handshake",
                          ends[i] - ends[i - 1])
              /\ \A k \in (ends[i - 1] + 1)..ends[i] : buf[k + i * RecHeader] = s.hs[k]
    BY DEF Reassembled
  <1>2. buf \in Seq(B)
    BY DEF IsSequence
  <1>3. \A v : [s EXCEPT !.verdict = v].verdict = v
    BY <1>1
  <1>4. /\ ~(rest < RecHeader)
        /\ ~(buf[s.off + 1][1] # "rec" \/ buf[s.off + 1][2] # "handshake" \/ len \notin 1..MaxRecord)
        /\ ~(rest - RecHeader < len)
        /\ ~(n + 1 > MaxRecords \/ Len(hs) > MaxPeek)
        /\ t = [off |-> off, hs |-> hs,
                verdict |-> IF m = "incomplete" THEN "more"
                            ELSE IF m = "invalid" \/ Trailing(buf, off) THEN "invalid" ELSE "hello"]
    BY <1>3 DEF NextRecord, Missing
  <1>5. m \in {"incomplete", "invalid", "hello"}
    BY DEF HandshakeMessage
  <1> HIDE DEF B, t, m, rest, piece, hs, len, off, end, more
  <1>6. t.off = off /\ t.hs = hs /\ (t.verdict = "hello" => m = "hello" /\ off = Len(buf))
    BY <1>4, <1>5 DEF Trailing
  <1>7. len \in 1..MaxRecord /\ MaxRecord \in Nat /\ RecHeader \in Nat /\ MaxRecords \in Nat
    BY <1>4, HelloAssumption
  <1>8. n * RecHeader \in Nat /\ (n + 1) * RecHeader = n * RecHeader + RecHeader
    BY <1>1, Headers
  <1>9. off <= Len(buf) /\ Len(buf) \in Nat /\ s.off \in Nat /\ Len(s.hs) \in Nat
    <2>1. Len(buf) \in Nat /\ Len(s.hs) \in Nat
      BY <1>1, <1>2
    <2>2. rest = Len(buf) - s.off /\ off = s.off + RecHeader + len
      BY DEF rest, off
    <2>3. s.off \in Nat
      BY <2>1, <1>1, <1>8
    <2>4. ~(rest - RecHeader < len)
      BY <1>4
    <2> QED BY <2>1, <2>2, <2>3, <2>4, <1>7
  <1>a. n \in Nat /\ s.hs \in Seq(B) /\ Len(s.hs) = ends[n] /\ ends[n] \in Nat
    BY <1>1, <1>9
  <1>10. /\ piece \in Seq(B) /\ Len(piece) = len
         /\ \A k \in 1..len : piece[k] = buf[s.off + RecHeader + k]
    <2>1. s.off + RecHeader \in Nat /\ len \in Nat /\ s.off + RecHeader + len <= Len(buf)
      BY <1>7, <1>9 DEF off
    <2> QED BY <2>1, <1>2, PieceOf DEF piece
  <1>11. /\ hs \in Seq(B) /\ Len(hs) = end
         /\ \A k \in 1..ends[n] : hs[k] = s.hs[k]
         /\ \A k \in (ends[n] + 1)..end : hs[k] = piece[k - ends[n]]
    <2>1. /\ hs \in Seq(B) /\ Len(hs) = Len(s.hs) + Len(piece)
          /\ \A k \in 1..Len(s.hs) : hs[k] = s.hs[k]
          /\ \A k \in (Len(s.hs) + 1)..(Len(s.hs) + Len(piece)) : hs[k] = piece[k - Len(s.hs)]
      BY <1>a, <1>10, Joined DEF hs
    <2> QED BY <2>1, <1>a, <1>10 DEF end
  <1>12. more \in [0..(n + 1) -> Nat] /\ more[0] = 0 /\ more[n + 1] = end
         /\ \A i \in 0..n : more[i] = ends[i]
    <2>1. end \in Nat
      BY <1>1, <1>7, <1>9 DEF end
    <2> QED BY <2>1, <1>1 DEF more
  <1>13. off = end + (n + 1) * RecHeader
    BY <1>1, <1>7, <1>8, <1>9 DEF off, end
  <1>14. \A i \in 0..(n + 1) : \A j \in 0..(n + 1) : i < j => more[i] < more[j]
    <2> SUFFICES ASSUME NEW i \in 0..(n + 1), NEW j \in 0..(n + 1), i < j PROVE more[i] < more[j]
      OBVIOUS
    <2>2. i < j
      OBVIOUS
    <2>3. i \in 0..n /\ more[i] = ends[i] /\ ends[i] \in Nat /\ ends[i] <= ends[n]
      BY <1>1, <1>12, <2>2
    <2>4. CASE j = n + 1
      BY <2>3, <2>4, <1>1, <1>7, <1>12 DEF end
    <2>5. CASE j # n + 1
      BY <2>2, <2>3, <2>5, <1>1, <1>12
    <2> QED BY <2>4, <2>5
  <1>15. \A i \in 1..(n + 1) :
            /\ more[i] - more[i - 1] <= MaxRecord
            /\ IsHeader(buf[more[i - 1] + (i - 1) * RecHeader + 1], "rec", "handshake",
                        more[i] - more[i - 1])
            /\ \A k \in (more[i - 1] + 1)..more[i] : buf[k + i * RecHeader] = hs[k]
    <2>1. TAKE i \in 1..(n + 1)
    <2>2. CASE i = n + 1
      <3>1. i - 1 = n /\ more[i] = end /\ more[i - 1] = ends[n] /\ more[i] - more[i - 1] = len
        <4>1. i - 1 = n /\ i - 1 \in 0..n
          BY <2>2, <1>a
        <4>2. more[i] = end /\ more[i - 1] = ends[n]
          BY <4>1, <2>2, <1>12
        <4>3. end - ends[n] = len
          BY <1>a, <1>7 DEF end
        <4> QED BY <4>1, <4>2, <4>3
      <3>2. IsHeader(buf[s.off + 1], "rec", "handshake", len)
        BY <1>4 DEF IsHeader, len
      <3>3. ASSUME NEW k \in (ends[n] + 1)..end PROVE buf[k + (n + 1) * RecHeader] = hs[k]
        <4>1. ends[n] \in Nat /\ k - ends[n] \in 1..len /\ hs[k] = piece[k - ends[n]]
          <5>1. end = ends[n] + len
            BY DEF end
          <5> QED BY <5>1, <1>a, <1>7, <1>11
        <4>2. s.off + RecHeader + (k - ends[n]) = k + (n + 1) * RecHeader
          BY <4>1, <1>1, <1>7, <1>8, <1>9
        <4> QED BY <4>1, <4>2, <1>10
      <3>4. ends[n] + n * RecHeader + 1 = s.off + 1
        BY <1>1
      <3> QED BY <3>1, <3>2, <3>3, <3>4, <2>2, <1>7
    <2>3. CASE i # n + 1
      <3>1. i \in 1..n /\ i - 1 \in 0..n /\ more[i] = ends[i] /\ more[i - 1] = ends[i - 1]
        BY <2>3, <1>1, <1>12
      <3>2. ends[i] \in Nat /\ ends[i - 1] \in Nat /\ ends[i] <= ends[n] /\ ends[n] \in Nat
        BY <3>1, <1>1
      <3>3. \A k \in (ends[i - 1] + 1)..ends[i] : hs[k] = s.hs[k]
        BY <3>2, <1>11
      <3> QED BY <3>1, <3>3, <1>1
    <2> QED BY <2>2, <2>3
  <1>16. Reassembled(buf, n + 1, more, t)
    <2>1. t = [off |-> t.off, hs |-> t.hs, verdict |-> t.verdict]
      BY <1>4
    <2>2. t.off = end + (n + 1) * RecHeader /\ t.off <= Len(buf) /\ t.hs = hs
      BY <1>6, <1>9, <1>13
    <2> QED BY <2>1, <2>2, <1>1, <1>11, <1>12, <1>14, <1>15 DEF Reassembled, B
  <1>17. n + 1 <= MaxRecords
    BY <1>1, <1>4, <1>7
  <1> QED BY <1>6, <1>16, <1>17 DEF t, m

\* What the loop has read when it has gone on for k turns or has found a
\* message.
LEMMA LoopSound ==
    ASSUME NEW buf, IsSequence(buf), NEW m \in 0..(MaxRecords + 1), Turns(buf)[m].verdict \in {"more", "hello"}
    PROVE  \E n, ends :
              /\ Reassembled(buf, n, ends, Turns(buf)[m])
              /\ Turns(buf)[m].verdict = "more" => n = m
              /\ Turns(buf)[m].verdict = "hello" =>
                    /\ n \in 1..MaxRecords /\ Turns(buf)[m].off = Len(buf)
                    /\ HandshakeMessage(Turns(buf)[m].hs) = "hello"
  <1> DEFINE s == Turns(buf)
             Fine(k) == \E n, ends :
                 /\ Reassembled(buf, n, ends, s[k])
                 /\ s[k].verdict = "more" => n = k
                 /\ s[k].verdict = "hello" =>
                       /\ n \in 1..MaxRecords /\ s[k].off = Len(buf)
                       /\ HandshakeMessage(s[k].hs) = "hello"
             T == {k \in Nat : k <= MaxRecords + 1 /\ s[k].verdict \in {"more", "hello"} => Fine(k)}
  <1>1. MaxRecords \in Nat
    BY HelloAssumption
  <1>2. /\ s[0] = [off |-> 0, hs |-> <<>>, verdict |-> "more"]
        /\ \A k \in 0..MaxRecords :
              s[k + 1] = IF s[k].verdict # "more" THEN s[k] ELSE NextRecord(buf, s[k], k + 1)
    BY TurnsStep
  <1> HIDE DEF s
  <1>3. 0 \in T
    <2> DEFINE ends == [i \in 0..0 |-> 0]
               B == {buf[i] : i \in DOMAIN buf}
    <2>1. Len(buf) \in Nat /\ 0 * RecHeader = 0
      <3>1. buf \in Seq(B)
        BY DEF IsSequence
      <3> HIDE DEF B
      <3> QED BY <3>1, Headers
    <2>2. <<>> \in Seq(B) /\ Len(<<>>) = 0
      OBVIOUS
    <2>3. s[0].off = 0 /\ s[0].hs = <<>> /\ s[0].verdict = "more"
      BY <1>2
    <2>4. ends \in [0..0 -> Nat] /\ ends[0] = 0
      OBVIOUS
    <2> HIDE DEF ends
    <2>5. Reassembled(buf, 0, ends, s[0])
      BY <1>2, <2>1, <2>2, <2>3, <2>4 DEF Reassembled
    <2>6. Fine(0)
      BY <2>3, <2>5
    <2> QED BY <2>6
  <1>4. ASSUME NEW k \in Nat, k \in T PROVE k + 1 \in T
    <2> SUFFICES ASSUME k + 1 <= MaxRecords + 1, s[k + 1].verdict \in {"more", "hello"}
                 PROVE  Fine(k + 1)
      OBVIOUS
    <2>1. k \in 0..MaxRecords
      BY <1>1
    <2>2. s[k + 1] = IF s[k].verdict # "more" THEN s[k] ELSE NextRecord(buf, s[k], k + 1)
      BY <1>2, <2>1
    <2>3. s[k].verdict \in {"more", "hello"}
      BY <2>2
    <2>4. Fine(k)
      BY <2>1, <2>3, <1>1, <1>4
    <2>5. CASE s[k].verdict # "more"
      BY <2>2, <2>3, <2>4, <2>5
    <2>6. CASE s[k].verdict = "more"
      <3>1. PICK ends : Reassembled(buf, k, ends, s[k])
        BY <2>4, <2>6
      <3>2. s[k + 1] = NextRecord(buf, s[k], k + 1)
        BY <2>2, <2>6
      <3>3. /\ k + 1 <= MaxRecords
            /\ \E more : Reassembled(buf, k + 1, more, s[k + 1])
            /\ s[k + 1].verdict = "hello" =>
                  HandshakeMessage(s[k + 1].hs) = "hello" /\ s[k + 1].off = Len(buf)
        BY <3>1, <3>2, TurnSound
      <3>4. k + 1 \in 1..MaxRecords
        BY <3>3, <1>1
      <3> QED BY <3>3, <3>4
    <2> QED BY <2>5, <2>6
  <1>5. Nat \subseteq T
    <2> HIDE DEF T
    <2> QED BY <1>3, <1>4, Induct
  <1>6. m \in Nat /\ m <= MaxRecords + 1
    BY <1>1
  <1>7. Fine(m)
    BY <1>5, <1>6 DEF s
  <1> QED BY <1>7 DEF s

\* Every byte of the message is one of those that were read.
LEMMA InBuffer ==
    ASSUME NEW buf, IsSequence(buf), NEW n, NEW ends, NEW s, Reassembled(buf, n, ends, s),
           NEW k \in 1..Len(s.hs)
    PROVE  \E p \in DOMAIN buf : buf[p] = s.hs[k]
  <1> DEFINE B == {buf[i] : i \in DOMAIN buf}
  <1>1. s.hs \in Seq(B)
    BY DEF Reassembled
  <1>2. s.hs[k] \in B
    <2> HIDE DEF B
    <2> QED BY <1>1
  <1> QED BY <1>2

LEMMA ParsedIs ==
    ASSUME NEW g \in DOMAIN Hellos, TryParse(Hellos[g]).ok
    PROVE  TryParse(Hellos[g]) = Some(TryParse(Hellos[g]).name)
  <1> DEFINE exts == Hellos[g].exts
             w == Walk(exts)[Len(exts)]
  <1>1. TryParse(Hellos[g]) = w /\ w.ok
    BY DEF TryParse, Fail
  <1>2. Len(exts) \in Nat
    BY Extensions
  <1>3. Walked(exts, Len(exts), w)
    BY <1>1, <1>2, WalkSound
  <1>4. w = Some(NoName) \/ \E j \in 1..Len(exts) : w = ParseSni(exts[j])
    BY <1>3 DEF Walked
  <1>5. \E name : w = Some(name)
    BY <1>1, <1>4 DEF ParseSni, Fail
  <1>6. \A name : Some(name).name = name
    BY DEF Some
  <1> QED BY <1>1, <1>5, <1>6

\* A ClientHello that the scan finds is one, whole, in at most MaxRecords
\* records, and it names what the scan says.
THEOREM ScanSound ==
    ASSUME NEW buf, IsSequence(buf),
           \A i \in DOMAIN buf : buf[i][1] = "body" => buf[i][2] \in DOMAIN Hellos,
           \A i \in DOMAIN buf : buf[i][1] = "hs" => buf[i][3] \in Nat,
           NEW name, name # NoName, Scan(buf).verdict = "done", Scan(buf).name = name
    PROVE  \E h \in DOMAIN Hellos :
              /\ \E i \in DOMAIN buf : buf[i][1] = "body" /\ buf[i][2] = h
              /\ Encodes(buf, h) /\ Names(Hellos[h], name)
  <1> DEFINE end == Turns(buf)[MaxRecords + 1]
             hs == end.hs
             body == SubSeq(hs, HsHeader + 1, Len(hs))
             found == ParseBody(body)
             B == {buf[i] : i \in DOMAIN buf}
  <1>1. end.verdict = "hello" /\ found.ok /\ found.name = name
    BY DEF Scan
  <1>2. MaxRecords \in Nat /\ HsHeader \in Nat \ {0} /\ MaxRecords + 1 \in 0..(MaxRecords + 1)
    BY HelloAssumption
  <1>3. PICK n, ends :
            /\ Reassembled(buf, n, ends, end) /\ n \in 1..MaxRecords /\ end.off = Len(buf)
            /\ HandshakeMessage(hs) = "hello"
    BY <1>1, <1>2, LoopSound
  <1> HIDE DEF end, body, found, hs
  <1>4. body # <<>> /\ body[1][1] = "body" /\ body = Body(body[1][2])
        /\ found = TryParse(Hellos[body[1][2]])
    BY <1>1 DEF ParseBody, Fail, found
  <1> DEFINE h == body[1][2]
             size == HsHeader + Hellos[h].size
  <1>5. /\ Len(hs) \in Nat /\ Len(hs) >= HsHeader /\ hs[1][1] = "hs" /\ hs[1][2] = "client_hello"
        /\ ~(Len(hs) > HsHeader + hs[1][3]) /\ ~(Len(hs) < HsHeader + hs[1][3])
    <2>1. hs \in Seq(B)
      BY <1>3 DEF Reassembled, hs
    <2>2. Len(hs) \in Nat
      <3> HIDE DEF B
      <3> QED BY <2>1
    <2> QED BY <2>2, <1>2, <1>3 DEF HandshakeMessage
  <1>6. \A k \in 1..Len(hs) : \E p \in DOMAIN buf : buf[p] = hs[k]
    BY <1>3, InBuffer DEF hs
  <1>7. hs[1][3] \in Nat /\ Len(hs) = HsHeader + hs[1][3]
    <2>1. 1 \in 1..Len(hs)
      BY <1>2, <1>5
    <2>2. hs[1][3] \in Nat
      BY <2>1, <1>5, <1>6
    <2> QED BY <2>2, <1>2, <1>5
  <1>8. /\ Len(body) = hs[1][3] /\ \A k \in 1..Len(body) : body[k] = hs[HsHeader + k]
    <2>1. hs \in Seq(B)
      BY <1>3 DEF Reassembled, hs
    <2> HIDE DEF B
    <2>2. Len(hs) = HsHeader + hs[1][3] /\ hs[1][3] \in Nat /\ HsHeader \in Nat
      BY <1>2, <1>7
    <2> QED BY <2>1, <2>2, PieceOf DEF body
  <1>9. Len(body) >= 1
    <2>1. Len(body) \in Nat /\ (Len(body) = 0 => body = <<>>)
      BY <1>2, <1>7, <1>8 DEF body
    <2> QED BY <2>1, <1>4
  <1>10. PICK p \in DOMAIN buf : buf[p] = body[1]
    <2>1. HsHeader + 1 \in 1..Len(hs) /\ body[1] = hs[HsHeader + 1]
      BY <1>2, <1>7, <1>8, <1>9
    <2> QED BY <2>1, <1>6
  <1>11. h \in DOMAIN Hellos /\ buf[p][1] = "body" /\ buf[p][2] = h
    BY <1>4, <1>10
  <1> HIDE DEF h
  <1>12. TryParse(Hellos[h]) = Some(name)
    BY <1>1, <1>4, <1>11, ParsedIs DEF h
  <1>13. Names(Hellos[h], name)
    BY <1>11, <1>12, ParserExact
  <1>14. Hellos[h].size \in Nat /\ Len(body) = Hellos[h].size
    <2>1. Hellos[h].size \in Nat
      BY <1>11, HellosAssumption
    <2>2. body = [i \in 1..Hellos[h].size |-> <<"body", h, i>>]
      BY <1>4 DEF Body, h
    <2> QED BY <2>1, <2>2
  <1>15. \A k \in 1..size : IsMessage(hs[k], h, k)
    <2> SUFFICES ASSUME NEW k \in 1..size PROVE IsMessage(hs[k], h, k)
      OBVIOUS
    <2>1. k = 1 => IsHeader(hs[k], "hs", "client_hello", Hellos[h].size)
      BY <1>5, <1>8, <1>14 DEF IsHeader
    <2>2. ASSUME k > HsHeader PROVE hs[k] = <<"body", h, k - HsHeader>>
      <3>1. k - HsHeader \in 1..Hellos[h].size /\ HsHeader + (k - HsHeader) = k
        BY <2>2, <1>2, <1>14
      <3>2. body = [i \in 1..Hellos[h].size |-> <<"body", h, i>>]
        BY <1>4 DEF Body, h
      <3>3. body[k - HsHeader] = <<"body", h, k - HsHeader>>
        BY <3>1, <3>2
      <3> QED BY <3>1, <3>3, <1>8, <1>14
    <2> QED BY <2>1, <2>2 DEF IsMessage
  <1>16. Encodes(buf, h)
    <2>1. /\ n \in 1..MaxRecords /\ ends \in [0..n -> Nat] /\ ends[0] = 0 /\ ends[n] = size
          /\ \A i \in 0..n : \A j \in 0..n : i < j => ends[i] < ends[j]
          /\ Len(buf) = size + n * RecHeader
      <3>1. Len(hs) = size
        BY <1>7, <1>8, <1>14
      <3> QED BY <3>1, <1>3 DEF Reassembled, hs
    <2>2. size \in Nat /\ n \in Nat
      BY <1>2, <1>14, <2>1
    <2>3. \A i \in 0..n : ends[i] \in 0..size
      BY <2>1, <2>2
    <2>4. ends \in [0..n -> 0..size]
      BY <2>1, <2>3
    <2>5. \A i \in 1..n : IsRecord(buf, i, h, ends[i - 1], ends[i])
      <3> SUFFICES ASSUME NEW i \in 1..n PROVE IsRecord(buf, i, h, ends[i - 1], ends[i])
        OBVIOUS
      <3>1. /\ ends[i] - ends[i - 1] <= MaxRecord
            /\ IsHeader(buf[ends[i - 1] + (i - 1) * RecHeader + 1], "rec", "handshake",
                        ends[i] - ends[i - 1])
            /\ \A k \in (ends[i - 1] + 1)..ends[i] : buf[k + i * RecHeader] = hs[k]
        BY <1>3 DEF Reassembled, hs
      <3>2. i \in 0..n /\ i - 1 \in 0..n /\ i - 1 < i
        BY <2>2
      <3>3. ends[i - 1] < ends[i] /\ ends[i - 1] \in 0..size /\ ends[i] \in 0..size
        BY <3>2, <2>1, <2>3
      <3>4. \A k \in (ends[i - 1] + 1)..ends[i] : k \in 1..size
        BY <3>3, <2>2
      <3> QED BY <3>1, <3>3, <3>4, <1>15 DEF IsRecord
    <2> QED BY <2>1, <2>4, <2>5 DEF Encodes, InRecords
  <1> QED BY <1>11, <1>13, <1>16

\* What the loop has read of a whole encoding after k turns.
Advanced(stream, h, ends, k, s) ==
    /\ s = [off |-> s.off, hs |-> s.hs, verdict |-> s.verdict]
    /\ s.off = ends[k] + k * RecHeader /\ Len(s.hs) = ends[k]
    /\ s.hs \in Seq({stream[i] : i \in DOMAIN stream})
    /\ \A q \in 1..ends[k] : IsMessage(s.hs[q], h, q)

\* One turn over a beginning of the encoding of a hello: the record is not
\* all there, or the loop goes on, or it was the last.
LEMMA TurnComplete ==
    ASSUME NEW stream, IsSequence(stream), NEW m \in 0..Len(stream), NEW h \in DOMAIN Hellos, Fits(h),
           NEW n \in 1..MaxRecords, NEW ends \in [0..n -> 0..(HsHeader + Hellos[h].size)],
           InRecords(stream, h, n, ends),
           NEW k \in 0..(n - 1), NEW s, Advanced(stream, h, ends, k, s), s.off <= m
    PROVE  LET t == NextRecord(SubSeq(stream, 1, m), s, k + 1) IN
           \/ t.verdict = "incomplete" /\ m < Len(stream)
           \/ /\ Advanced(stream, h, ends, k + 1, t) /\ t.off <= m
              /\ t.verdict = IF k + 1 = n THEN "hello" ELSE "more"
  <1> DEFINE B == {stream[i] : i \in DOMAIN stream}
             size == HsHeader + Hellos[h].size
             from == ends[k]
             to == ends[k + 1]
             long == to - from
             before == k * RecHeader
             after == (k + 1) * RecHeader
             all == n * RecHeader
             buf == SubSeq(stream, 1, m)
             t == NextRecord(buf, s, k + 1)
             rest == Len(buf) - s.off
             len == buf[s.off + 1][3]
             piece == SubSeq(buf, s.off + RecHeader + 1, s.off + RecHeader + len)
             hs == s.hs \o piece
             off == s.off + RecHeader + len
             msg == HandshakeMessage(hs)
  <1>1. /\ MaxRecords \in Nat /\ MaxRecord \in Nat /\ RecHeader \in Nat \ {0} /\ HsHeader \in Nat \ {0}
        /\ MaxPeek \in Nat /\ Hellos[h].size \in Nat \ {0} /\ size \in Nat /\ size <= MaxPeek
        /\ size > HsHeader
    BY HelloAssumption, HellosAssumption DEF Fits
  <1>2. /\ stream \in Seq(B) /\ m \in Nat /\ n \in Nat /\ k \in Nat
        /\ n <= MaxRecords /\ k + 1 <= n
    BY <1>1 DEF IsSequence
  <1>3. /\ s = [off |-> s.off, hs |-> s.hs, verdict |-> s.verdict]
        /\ s.off = from + before /\ Len(s.hs) = from /\ s.hs \in Seq(B)
        /\ \A q \in 1..from : IsMessage(s.hs[q], h, q)
    BY DEF Advanced
  <1>6. k \in 0..n /\ k + 1 \in 0..n /\ k + 1 \in 1..n /\ (k + 1) - 1 = k /\ k < k + 1
    BY <1>2
  <1>7. /\ from \in Nat /\ to \in Nat /\ to <= size /\ from < to
        /\ (k + 1 # n => to < size) /\ (k + 1 = n => to = size)
        /\ Len(stream) = size + all
    <2>1. /\ ends[n] = size /\ Len(stream) = size + all
          /\ \A i \in 0..n : \A j \in 0..n : i < j => ends[i] < ends[j]
      BY DEF InRecords
    <2>2. ends[k] \in 0..size /\ ends[k + 1] \in 0..size /\ ends[k] < ends[k + 1]
      BY <1>6, <2>1
    <2>3. k + 1 # n => ends[k + 1] < ends[n]
      BY <1>2, <1>6, <2>1
    <2>4. size \in Nat /\ (k + 1 = n => to = size)
      BY <1>1, <2>1
    <2>5. to \in 0..size /\ from \in 0..size /\ from < to /\ (k + 1 # n => to < size)
      BY <2>1, <2>2, <2>3
    <2> HIDE DEF size, from, to, all
    <2> QED BY <2>1, <2>4, <2>5
  <1>8. IsRecord(stream, k + 1, h, from, to)
    BY <1>6 DEF InRecords
  <1>9. before \in Nat /\ after = before + RecHeader /\ after <= all /\ all \in Nat
    BY <1>2, <1>6, Headers
  <1>11. /\ long \in Nat /\ long >= 1 /\ long <= MaxRecord
         /\ IsHeader(stream[s.off + 1], "rec", "handshake", long)
         /\ \A q \in (from + 1)..to : IsMessage(stream[q + after], h, q)
    <2>1. from + ((k + 1) - 1) * RecHeader + 1 = s.off + 1
      BY <1>3, <1>6
    <2>2. /\ long <= MaxRecord
          /\ IsHeader(stream[from + ((k + 1) - 1) * RecHeader + 1], "rec", "handshake", long)
          /\ \A q \in (from + 1)..to : IsMessage(stream[q + after], h, q)
      BY <1>8 DEF IsRecord
    <2> HIDE DEF from, to, after
    <2>3. long \in Nat /\ long >= 1
      BY <1>7
    <2> QED BY <2>1, <2>2, <2>3
  <1>20. to = from + long
    <2> HIDE DEF from, to
    <2> QED BY <1>7
  <1> HIDE DEF B, size, from, to, long, before, after, all, buf, t, rest, len, piece, hs, off, msg
  <1>4. Len(stream) \in Nat /\ m <= Len(stream)
    BY <1>2
  <1>5. buf \in Seq(B) /\ Len(buf) = m /\ \A i \in 1..m : buf[i] = stream[i]
    BY <1>2, <1>4 DEF buf
  <1>10. s.off \in Nat /\ rest = m - s.off /\ rest \in Nat
    <2>1. s.off \in Nat
      BY <1>3, <1>7, <1>9
    <2> QED BY <2>1, <1>5, <1>2 DEF rest
  <1>21. /\ s.off = from + before /\ from \in Nat /\ to \in Nat /\ long \in Nat /\ before \in Nat
         /\ after = before + RecHeader /\ RecHeader \in Nat /\ to = from + long
         /\ s.off \in Nat /\ rest = m - s.off /\ m \in Nat
    BY <1>1, <1>2, <1>3, <1>7, <1>9, <1>10, <1>11, <1>20
  <1>12. s.off + RecHeader + long = to + after /\ to + after <= Len(stream)
    <2>1. s.off + RecHeader + long = to + after
      BY <1>21
    <2>2. size \in Nat /\ all \in Nat /\ to <= size /\ after <= all /\ Len(stream) = size + all
      BY <1>1, <1>7, <1>9
    <2>3. to \in Nat /\ after \in Nat
      BY <1>21
    <2> QED BY <2>1, <2>2, <2>3
  <1>14. \A v : [s EXCEPT !.verdict = v].verdict = v
    BY <1>3
  <1>15. CASE rest < RecHeader
    <2>1. t.verdict = "incomplete"
      BY <1>14, <1>15 DEF NextRecord, t, rest
    <2>2. m < Len(stream)
      BY <1>1, <1>2, <1>4, <1>10, <1>11, <1>12, <1>15
    <2> QED BY <2>1, <2>2 DEF t, buf
  <1>16. ASSUME ~(rest < RecHeader)
         PROVE  /\ len = long
                /\ ~(buf[s.off + 1][1] # "rec" \/ buf[s.off + 1][2] # "handshake" \/ len \notin 1..MaxRecord)
    <2>1. s.off + 1 \in 1..m
      BY <1>1, <1>2, <1>10, <1>16
    <2>2. buf[s.off + 1] = stream[s.off + 1]
      BY <2>1, <1>5
    <2> QED BY <2>2, <1>1, <1>11 DEF IsHeader, len
  <1>17. CASE ~(rest < RecHeader) /\ rest - RecHeader < long
    <2>1. t.verdict = "incomplete"
      BY <1>14, <1>16, <1>17 DEF NextRecord, t, rest, len
    <2>2. m < Len(stream)
      BY <1>1, <1>2, <1>4, <1>10, <1>11, <1>12, <1>17
    <2> QED BY <2>1, <2>2 DEF t, buf
  <1>18. CASE ~(rest < RecHeader) /\ ~(rest - RecHeader < long)
    <2>1. s.off + RecHeader \in Nat /\ off = s.off + RecHeader + long /\ off <= m /\ len = long
      <3>1. len = long
        BY <1>16, <1>18
      <3>2. off = s.off + RecHeader + long
        BY <3>1 DEF off
      <3>3. /\ s.off \in Nat /\ RecHeader \in Nat /\ long \in Nat /\ m \in Nat
            /\ ~((m - s.off) - RecHeader < long)
        BY <1>18, <1>21
      <3>4. s.off + RecHeader \in Nat /\ s.off + RecHeader + long <= m
        BY <3>3, Within
      <3> QED BY <3>1, <3>2, <3>4
    <2>2. /\ piece \in Seq(B) /\ Len(piece) = long
          /\ \A i \in 1..long : piece[i] = buf[s.off + RecHeader + i]
      <3>1. s.off + RecHeader + long <= Len(buf) /\ piece = SubSeq(buf, s.off + RecHeader + 1, s.off + RecHeader + long)
        BY <2>1, <1>5 DEF piece, off
      <3>2. s.off + RecHeader \in Nat /\ long \in Nat /\ buf \in Seq(B)
        BY <2>1, <1>5, <1>21
      <3> HIDE DEF buf
      <3>3. /\ SubSeq(buf, (s.off + RecHeader) + 1, (s.off + RecHeader) + long) \in Seq(B)
            /\ Len(SubSeq(buf, (s.off + RecHeader) + 1, (s.off + RecHeader) + long)) = long
            /\ \A i \in 1..long : SubSeq(buf, (s.off + RecHeader) + 1, (s.off + RecHeader) + long)[i]
                                    = buf[(s.off + RecHeader) + i]
        BY ONLY <3>1, <3>2, PieceOf
      <3> QED BY <3>1, <3>3
    <2>3. /\ hs \in Seq(B) /\ Len(hs) = to
          /\ \A q \in 1..from : hs[q] = s.hs[q]
          /\ \A q \in (from + 1)..to : hs[q] = piece[q - from]
      <3>0. s.hs \in Seq(B) /\ Len(s.hs) = from
        BY <1>3
      <3>1. /\ hs \in Seq(B) /\ Len(hs) = Len(s.hs) + Len(piece)
            /\ \A q \in 1..Len(s.hs) : hs[q] = s.hs[q]
            /\ \A q \in (Len(s.hs) + 1)..(Len(s.hs) + Len(piece)) : hs[q] = piece[q - Len(s.hs)]
        BY <2>2, <3>0, Joined DEF hs
      <3> QED BY <3>0, <3>1, <2>2, <1>20
    <2>4. \A q \in 1..to : IsMessage(hs[q], h, q)
      <3> SUFFICES ASSUME NEW q \in 1..to PROVE IsMessage(hs[q], h, q)
        OBVIOUS
      <3>1. CASE q <= from
        <4>1. q \in 1..from
          BY <3>1, <1>7
        <4> QED BY <4>1, <2>3, <1>3
      <3>2. CASE q > from
        <4>1. q \in (from + 1)..to /\ q - from \in 1..long
          BY <3>2, <1>7, <1>20, <1>11
        <4>2. s.off + RecHeader + (q - from) = q + after
          <5>1. /\ q \in Nat /\ from \in Nat /\ before \in Nat /\ RecHeader \in Nat
                /\ s.off = from + before /\ after = before + RecHeader
            BY <4>1, <1>21
          <5> QED BY ONLY <5>1
        <4>3. s.off + RecHeader + (q - from) \in 1..m
          <5>1. /\ q - from \in Nat /\ q - from >= 1 /\ q - from <= long /\ long \in Nat /\ m \in Nat
                /\ s.off + RecHeader \in Nat /\ s.off + RecHeader + long <= m
            BY <4>1, <2>1, <1>21
          <5> QED BY <5>1
        <4>4. hs[q] = piece[q - from] /\ piece[q - from] = buf[s.off + RecHeader + (q - from)]
          BY <4>1, <2>2, <2>3
        <4>5. hs[q] = stream[q + after]
          BY <4>2, <4>3, <4>4, <1>5
        <4> QED BY <4>1, <4>5, <1>11
      <3> QED BY <3>1, <3>2, <1>7
    <2>5. /\ ~(k + 1 > MaxRecords \/ Len(hs) > MaxPeek)
      BY <2>3, <1>1, <1>2, <1>6, <1>7
    <2>6. msg = IF k + 1 = n THEN "hello" ELSE "incomplete"
      <3>1. hs[1][1] = "hs" /\ hs[1][2] = "client_hello" /\ hs[1][3] = Hellos[h].size
        <4>1. 1 \in 1..to
          BY <1>7
        <4> QED BY <4>1, <2>4 DEF IsMessage, IsHeader
      <3>2. Len(hs) = to /\ (Len(hs) < HsHeader => k + 1 # n)
        BY <1>1, <1>7, <2>3
      <3>3. HsHeader + hs[1][3] = size
        BY <3>1 DEF size
      <3> QED BY <3>1, <3>2, <3>3, <1>1, <1>7 DEF HandshakeMessage, msg
    <2>7. k + 1 = n => off = Len(buf)
      <3>1. k + 1 = n => off = Len(stream)
        <4>1. k + 1 = n => to + after = Len(stream)
          BY <1>7 DEF after, all
        <4> QED BY <4>1, <2>1, <1>12
      <3> QED BY <3>1, <2>1, <1>4, <1>5, <1>2
    <2>8. t = [off |-> off, hs |-> hs, verdict |-> IF msg = "incomplete" THEN "more"
                 ELSE IF msg = "invalid" \/ Trailing(buf, off) THEN "invalid" ELSE "hello"]
      <3>1. ~(rest - RecHeader < len)
        BY <2>1, <1>18
      <3> QED BY <3>1, <2>5, <1>16, <1>18 DEF NextRecord, t, rest, len, hs, off, msg, piece, Missing
    <2>9. t.off = off /\ t.hs = hs /\ t.verdict = IF k + 1 = n THEN "hello" ELSE "more"
      BY <2>6, <2>7, <2>8 DEF Trailing
    <2>10. t = [off |-> t.off, hs |-> t.hs, verdict |-> t.verdict]
      BY <2>8
    <2>11. Advanced(stream, h, ends, k + 1, t)
      BY <2>1, <2>3, <2>4, <2>9, <2>10, <1>12 DEF Advanced, B, to, after
    <2> QED BY <2>1, <2>9, <2>11 DEF t, buf
  <1> QED BY <1>15, <1>17, <1>18

\* Over a beginning of the encoding of a hello the loop waits for more, or
\* ends with the message when all of it is there.
LEMMA LoopComplete ==
    ASSUME NEW stream, IsSequence(stream), NEW m \in 0..Len(stream), NEW h \in DOMAIN Hellos, Fits(h),
           NEW n \in 1..MaxRecords, NEW ends \in [0..n -> 0..(HsHeader + Hellos[h].size)],
           InRecords(stream, h, n, ends)
    PROVE  LET end == Turns(SubSeq(stream, 1, m))[MaxRecords + 1] IN
           \/ end.verdict = "incomplete" /\ m < Len(stream)
           \/ end.verdict = "hello" /\ Advanced(stream, h, ends, n, end) /\ m = Len(stream)
  <1> DEFINE buf == SubSeq(stream, 1, m)
             s == Turns(buf)
             Waits(k) == s[k].verdict = "incomplete" /\ m < Len(stream)
             Ended(k) == s[k].verdict = "hello" /\ Advanced(stream, h, ends, n, s[k]) /\ s[k].off <= m
             Goes(k) == k < n /\ s[k].verdict = "more" /\ Advanced(stream, h, ends, k, s[k]) /\ s[k].off <= m
             T == {k \in Nat : k <= MaxRecords + 1 => Waits(k) \/ Goes(k) \/ (k >= n /\ Ended(k))}
             B == {stream[i] : i \in DOMAIN stream}
  <1>1. MaxRecords \in Nat /\ n \in Nat /\ n >= 1 /\ n <= MaxRecords /\ m \in Nat
    BY HelloAssumption
  <1>2. Len(stream) \in Nat /\ m <= Len(stream)
    <2>1. stream \in Seq(B)
      BY DEF IsSequence
    <2> HIDE DEF B
    <2> QED BY <2>1
  <1>3. /\ s[0] = [off |-> 0, hs |-> <<>>, verdict |-> "more"]
        /\ \A k \in 0..MaxRecords :
              s[k + 1] = IF s[k].verdict # "more" THEN s[k] ELSE NextRecord(buf, s[k], k + 1)
    BY TurnsStep
  <1> HIDE DEF s, buf
  <1>4. 0 \in T
    <2>1. s[0].off = 0 /\ s[0].hs = <<>> /\ s[0].verdict = "more"
      BY <1>3
    <2>2. <<>> \in Seq(B) /\ Len(<<>>) = 0
      OBVIOUS
    <2>3. ends[0] = 0 /\ 0 * RecHeader = 0
      BY Headers DEF InRecords
    <2> HIDE DEF B
    <2>4. \A q \in 1..0 : IsMessage(<<>>[q], h, q)
      OBVIOUS
    <2>5. Advanced(stream, h, ends, 0, s[0])
      BY <1>3, <2>1, <2>2, <2>3, <2>4 DEF Advanced, B
    <2> QED BY <2>1, <2>5, <1>1
  <1>5. ASSUME NEW k \in Nat, k \in T PROVE k + 1 \in T
    <2> SUFFICES ASSUME k + 1 <= MaxRecords + 1
                 PROVE  Waits(k + 1) \/ Goes(k + 1) \/ (k + 1 >= n /\ Ended(k + 1))
      OBVIOUS
    <2>1. k \in 0..MaxRecords /\ k <= MaxRecords + 1
      BY <1>1
    <2>2. s[k + 1] = IF s[k].verdict # "more" THEN s[k] ELSE NextRecord(buf, s[k], k + 1)
      BY <1>3, <2>1
    <2>3. Waits(k) \/ Goes(k) \/ (k >= n /\ Ended(k))
      BY <2>1, <1>5
    <2>4. CASE Waits(k)
      BY <2>2, <2>4
    <2>5. CASE k >= n /\ Ended(k)
      BY <2>2, <2>5, <1>1
    <2>6. CASE Goes(k)
      <3>1. k \in 0..(n - 1) /\ s[k + 1] = NextRecord(buf, s[k], k + 1)
        BY <2>2, <2>6, <1>1
      <3>2. \/ s[k + 1].verdict = "incomplete" /\ m < Len(stream)
            \/ /\ Advanced(stream, h, ends, k + 1, s[k + 1]) /\ s[k + 1].off <= m
               /\ s[k + 1].verdict = IF k + 1 = n THEN "hello" ELSE "more"
        BY <3>1, <2>6, TurnComplete DEF buf
      <3>3. k + 1 < n \/ k + 1 = n
        BY <3>1, <1>1
      <3> QED BY <3>2, <3>3, <1>1
    <2> QED BY <2>3, <2>4, <2>5, <2>6
  <1>6. Nat \subseteq T
    <2> HIDE DEF T
    <2> QED BY <1>4, <1>5, Induct
  <1>7. Waits(MaxRecords + 1) \/ Ended(MaxRecords + 1)
    <2>1. MaxRecords + 1 \in Nat /\ ~(MaxRecords + 1 < n)
      BY <1>1
    <2> QED BY <2>1, <1>6
  <1>8. ASSUME Ended(MaxRecords + 1) PROVE m = Len(stream)
    <2>1. s[MaxRecords + 1].off = Len(stream)
      BY <1>8 DEF Advanced, InRecords
    <2> QED BY <2>1, <1>1, <1>2, <1>8
  <1> QED BY <1>7, <1>8 DEF s, buf

\* Of a ClientHello that names a host the scan never refuses a beginning;
\* it waits for the rest and then has the name.
THEOREM ScanComplete ==
    ASSUME NEW stream, IsSequence(stream), NEW m \in 0..Len(stream), m <= MaxPeek,
           NEW h \in DOMAIN Hellos, Encodes(stream, h), Fits(h), NEW name, Names(Hellos[h], name)
    PROVE  Scan(SubSeq(stream, 1, m)) =
               IF m < Len(stream) THEN [verdict |-> "incomplete", name |-> NoName]
               ELSE [verdict |-> "done", name |-> name]
  <1> DEFINE buf == SubSeq(stream, 1, m)
             end == Turns(buf)[MaxRecords + 1]
             hs == end.hs
             body == SubSeq(hs, HsHeader + 1, Len(hs))
             size == Hellos[h].size
             B == {stream[i] : i \in DOMAIN stream}
  <1>1. HsHeader \in Nat \ {0} /\ size \in Nat \ {0} /\ MaxPeek \in Nat
    BY HelloAssumption, HellosAssumption
  <1>a. PICK n \in 1..MaxRecords : \E ends \in [0..n -> 0..(HsHeader + Hellos[h].size)] :
            InRecords(stream, h, n, ends)
    BY DEF Encodes
  <1>2. PICK ends \in [0..n -> 0..(HsHeader + Hellos[h].size)] : InRecords(stream, h, n, ends)
    BY <1>a
  <1>3. \/ end.verdict = "incomplete" /\ m < Len(stream)
        \/ end.verdict = "hello" /\ Advanced(stream, h, ends, n, end) /\ m = Len(stream)
    BY <1>2, LoopComplete
  <1>4. Len(buf) = m /\ m \in Nat /\ Len(stream) \in Nat
    <2>1. stream \in Seq(B)
      BY DEF IsSequence
    <2> HIDE DEF B
    <2> QED BY <2>1
  <1>5. ~(Len(buf) > MaxPeek)
    BY <1>1, <1>4
  <1> HIDE DEF buf, end, hs, B
  <1>6. CASE end.verdict = "incomplete" /\ m < Len(stream)
    BY <1>5, <1>6 DEF Scan, end, buf
  <1>7. CASE end.verdict = "hello" /\ Advanced(stream, h, ends, n, end) /\ m = Len(stream)
    <2>1. /\ hs \in Seq(B) /\ Len(hs) = HsHeader + size
          /\ \A q \in 1..(HsHeader + size) : IsMessage(hs[q], h, q)
      BY <1>2, <1>7 DEF Advanced, InRecords, hs, B
    <2>2. /\ body \in Seq(B) /\ Len(body) = size
          /\ \A i \in 1..size : body[i] = hs[HsHeader + i]
      BY <1>1, <2>1, PieceOf
    <2>3. \A i \in 1..size : body[i] = <<"body", h, i>>
      <3>1. TAKE i \in 1..size
      <3>2. HsHeader + i \in 1..(HsHeader + size) /\ HsHeader + i > HsHeader /\ (HsHeader + i) - HsHeader = i
        BY <1>1
      <3> QED BY <3>2, <2>1, <2>2 DEF IsMessage
    <2> HIDE DEF body
    <2>4. body = Body(h)
      <3>1. Body(h) = [i \in 1..size |-> <<"body", h, i>>]
        BY DEF Body
      <3>2. body = [i \in 1..Len(body) |-> body[i]]
        BY <2>2
      <3> QED BY <3>1, <3>2, <2>2, <2>3
    <2>5. body # <<>> /\ body[1][1] = "body" /\ body[1][2] = h
      <3>1. 1 \in 1..size
        BY <1>1
      <3> QED BY <3>1, <2>2, <2>3, <1>1
    <2>6. ParseBody(body) = TryParse(Hellos[h])
      BY <2>4, <2>5 DEF ParseBody
    <2>7. TryParse(Hellos[h]) = Some(name)
      BY ParserExact
    <2>8. ParseBody(body).ok /\ ParseBody(body).name = name
      BY <2>6, <2>7 DEF Some
    <2>9. Scan(buf) = [verdict |-> "done", name |-> name]
      BY <1>5, <1>7, <2>8 DEF Scan, end, hs, body
    <2> QED BY <2>9, <1>4, <1>7 DEF buf
  <1> QED BY <1>3, <1>6, <1>7
=============================================================================
