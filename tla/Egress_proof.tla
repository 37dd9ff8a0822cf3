---------------------------- MODULE Egress_proof ----------------------------
(***************************************************************************)
(* Proofs about Egress, for addresses of any width, any reserved blocks,   *)
(* any command line and any answers of the resolver.                       *)
(***************************************************************************)
EXTENDS Egress, TLAPS

(* Blocks. *)

\* Division with a remainder, as a fact the solvers can use.
LEMMA Division ==
    ASSUME NEW s \in Nat \ {0}, NEW a \in Nat
    PROVE  /\ a \div s \in Nat /\ a % s \in 0..(s - 1)
           /\ a = s * (a \div s) + (a % s)
  OBVIOUS

\* A block starts at or before each of its addresses.
LEMMA LowEnd ==
    ASSUME NEW s \in Nat \ {0}, NEW a \in Nat
    PROVE  a - (a % s) \in 0..a
<1>1. a % s \in 0..(s - 1) /\ a = s * (a \div s) + (a % s) /\ a \div s \in Nat BY Division
<1>2. s * (a \div s) \in Nat BY <1>1
<1> QED BY <1>1, <1>2

\* A quotient is determined by the multiple below.
LEMMA Quotient ==
    ASSUME NEW s \in Nat \ {0}, NEW k \in Nat, NEW m \in Nat, NEW x \in Nat,
           s * k <= x, x < s * k + s, s * m <= x, x < s * m + s
    PROVE  k = m
<1>1. CASE k < m
  <2>1. m >= k + 1 BY <1>1
  <2>2. PICK d \in Nat : m = k + 1 + d BY <2>1, m - (k + 1) \in Nat
  <2>3. s * m = s * k + s + s * d BY <2>2
  <2>4. s * d >= 0 OBVIOUS
  <2> QED BY <2>3, <2>4
<1>2. CASE m < k
  <2>1. PICK d \in Nat : k = m + 1 + d BY <1>2, k - (m + 1) \in Nat
  <2>2. s * k = s * m + s + s * d BY <2>1
  <2>3. s * d >= 0 OBVIOUS
  <2> QED BY <2>2, <2>3
<1> QED BY <1>1, <1>2

\* The range of a block holds exactly the addresses that share its prefix.
LEMMA RangeIsBlock ==
    ASSUME NEW s \in Nat \ {0}, NEW a \in Nat, NEW x \in Nat
    PROVE  x \div s = a \div s <=>
              a - (a % s) <= x /\ x <= a - (a % s) + s - 1
<1>1. /\ a \div s \in Nat /\ a % s \in 0..(s - 1) /\ a = s * (a \div s) + (a % s)
      /\ x \div s \in Nat /\ x % s \in 0..(s - 1) /\ x = s * (x \div s) + (x % s)
  BY Division
<1>2. a - (a % s) = s * (a \div s) BY <1>1
<1>3. ASSUME x \div s = a \div s
      PROVE  a - (a % s) <= x /\ x <= a - (a % s) + s - 1
  BY <1>1, <1>2, <1>3
<1>4. ASSUME a - (a % s) <= x, x <= a - (a % s) + s - 1
      PROVE  x \div s = a \div s
  <2> DEFINE k == a \div s
             m == x \div s
             sk == s * k
             sm == s * m
  <2>1. sk <= x /\ x < sk + s
    <3>1. sk \in Int /\ a - (a % s) = sk BY <1>1, <1>2
    <3> QED BY <1>4, <3>1
  <2>2. sm <= x /\ x < sm + s
    <3>1. sm \in Int BY <1>1
    <3>2. x = sm + (x % s) BY <1>1
    <3> QED BY <1>1, <3>1, <3>2
  <2> QED BY <1>1, <2>1, <2>2, Quotient
<1> QED BY <1>3, <1>4

\* Addresses and spans are natural numbers, and an address is its own block.
LEMMA Numbers ==
    /\ Addrs \subseteq Nat
    /\ \A p \in 0..Width : Span[p] \in Nat \ {0}
    /\ Span[Width] = 1
    /\ \A b \in {Loopback, LinkLocal} \cup Private : b.addr \in Addrs /\ b.prefix \in 0..Width
<1>1. \A p \in 0..Width : Span[p] \in Nat \ {0} BY SpanAssumption
<1>2. Span[0] \in Nat BY <1>1, WidthAssumption
<1>3. Addrs \subseteq Nat BY <1>2 DEF Addrs
<1>4. {Loopback, LinkLocal} \cup Private \subseteq Blocks BY BlocksAssumption
<1>5. \A b \in Blocks : b.addr \in Addrs /\ b.prefix \in 0..Width BY DEF Blocks
<1> QED BY <1>1, <1>3, <1>4, <1>5, SpanAssumption

\* An address as a block of full length has itself as only member.
LEMMA Itself ==
    ASSUME NEW x \in Addrs, NEW a \in Addrs, x \div Span[Width] = a \div Span[Width]
    PROVE  x = a
  BY Numbers

\* egress.rs:455: two inclusive ranges intersect iff each starts at or before
\* the other ends.  The computed test holds exactly when some address belongs
\* to both blocks, at every prefix, 0 and the full width included.
THEOREM OverlapIsMeeting ==
    ASSUME NEW a \in Addrs, NEW p \in 0..Width, NEW b \in Addrs, NEW q \in 0..Width
    PROVE  CidrOverlaps(a, p, b, q) <=>
              \E x \in Addrs : Member(x, [addr |-> a, prefix |-> p])
                             /\ Member(x, [addr |-> b, prefix |-> q])
<1> DEFINE s == Span[p]
           t == Span[q]
           lo == a - (a % s)
           lb == b - (b % t)
<1>1. s \in Nat \ {0} /\ t \in Nat \ {0} /\ a \in Nat /\ b \in Nat BY Numbers
<1>3. lo \in 0..a /\ lb \in 0..b BY <1>1, LowEnd
<1>4. lo \in Addrs /\ lb \in Addrs
  <2> HIDE DEF lo, lb
  <2>1. Span[0] \in Nat \ {0} BY Numbers, WidthAssumption
  <2>2. a \in 0..(Span[0] - 1) /\ b \in 0..(Span[0] - 1) BY DEF Addrs
  <2> QED BY <1>3, <2>1, <2>2 DEF Addrs
<1>5. CidrOverlaps(a, p, b, q) <=> lo <= lb + t - 1 /\ lb <= lo + s - 1
  BY DEF CidrOverlaps, CidrRange
<1>6. ASSUME NEW x \in Addrs
      PROVE  /\ Member(x, [addr |-> a, prefix |-> p]) <=> lo <= x /\ x <= lo + s - 1
             /\ Member(x, [addr |-> b, prefix |-> q]) <=> lb <= x /\ x <= lb + t - 1
  BY <1>1, Numbers, RangeIsBlock DEF Member
<1> HIDE DEF s, t, lo, lb
<1>7. ASSUME NEW x \in Addrs, lo <= x, x <= lo + s - 1, lb <= x, x <= lb + t - 1
      PROVE  lo <= lb + t - 1 /\ lb <= lo + s - 1
  BY <1>1, <1>3, <1>7, Numbers
<1>8. ASSUME lo <= lb + t - 1, lb <= lo + s - 1
      PROVE  \E x \in {lo, lb} : lo <= x /\ x <= lo + s - 1 /\ lb <= x /\ x <= lb + t - 1
  <2>1. CASE lo <= lb BY <1>1, <1>3, <1>8, <2>1
  <2>2. CASE lb <= lo BY <1>1, <1>3, <1>8, <2>2
  <2> QED BY <1>3, <2>1, <2>2
<1> QED BY <1>4, <1>5, <1>6, <1>7, <1>8

-----------------------------------------------------------------------------
(* The inductive invariant: every rule and every SNI entry comes from a    *)
(* flag that was dealt with, and passed its checks.                        *)

Outward(r) == \A x \in Addrs : Member(x, r) => ~Member(x, LinkLocal)

\* Rule r is what flag i of the command line amounts to.
FromFlag(r, i) ==
    LET f == cmd.allow[i] IN
    /\ r.proto = f.proto /\ r.ports = f.ports
    /\ \/ f.kind = "addr" /\ r.addr = f.addr /\ r.prefix = Width
       \/ f.kind = "cidr" /\ r.addr = f.addr /\ r.prefix = f.prefix
       \/ f.kind = "name" /\ r.addr \in asked[i] /\ r.prefix = Width /\ ~IsPrivate(r.addr)

Dealt == {i \in 1..Len(asked) : i <= Len(cmd.allow)}

RulesFromFlags ==
    \A r \in rules : Outward(r) /\ \E i \in Dealt : FromFlag(r, i)

SniFromFlags ==
    \A r \in sni :
        /\ \E i \in (Len(cmd.allow) + 1)..Len(asked) : r.addrs \subseteq asked[i]
        /\ \A a \in r.addrs :
              ClassifyInward(a) \notin {"linkLocal", "private"} /\ <<r.host, a>> \in hosts

NamesPinned ==
    \A i \in Dealt :
        LET f == cmd.allow[i] IN
        f.kind = "name" =>
            /\ asked[i] # {}
            /\ ~(f.proto = "tcp" /\ Contains(f.ports, Https))
            /\ \A a \in asked[i] :
                  /\ ClassifyInward(a) = "none"
                  /\ <<f.name, a>> \in hosts
                  /\ Rule(a, Width, f) \in rules

IInv == TypeOK /\ RulesFromFlags /\ SniFromFlags /\ NamesPinned

\* A rule whose block is one address leads where the address leads.
LEMMA SingleRule ==
    ASSUME NEW a \in Addrs, NEW f, ~Member(a, LinkLocal)
    PROVE  Outward(Rule(a, Width, f))
<1> SUFFICES ASSUME NEW x \in Addrs, Member(x, Rule(a, Width, f))
             PROVE  ~Member(x, LinkLocal)
  BY DEF Outward
<1>1. x = a BY Itself DEF Member, Rule
<1> QED BY <1>1

\* A block that does not overlap link-local holds none of its addresses.
LEMMA BlockRule ==
    ASSUME NEW a \in Addrs, NEW p \in 0..Width, NEW f,
           ~CidrOverlaps(a, p, LinkLocal.addr, LinkLocal.prefix)
    PROVE  Outward(Rule(a, p, f))
<1> SUFFICES ASSUME NEW x \in Addrs, Member(x, Rule(a, p, f)), Member(x, LinkLocal)
             PROVE  FALSE
  BY DEF Outward
<1>1. LinkLocal.addr \in Addrs /\ LinkLocal.prefix \in 0..Width BY Numbers
<1>2. Member(x, [addr |-> a, prefix |-> p]) BY DEF Member, Rule
<1>3. Member(x, [addr |-> LinkLocal.addr, prefix |-> LinkLocal.prefix]) BY DEF Member
<1> QED BY <1>1, <1>2, <1>3, OverlapIsMeeting

LEMMA InitInv == Init => IInv
  BY InputAssumption DEF Init, IInv, TypeOK, RulesFromFlags, SniFromFlags, NamesPinned, Dealt

\* What is known of the next --allow flag.
LEMMA NextFlag ==
    ASSUME TypeOK, NEW k, Flag(k)
    PROVE  LET n == Len(asked) + 1
               f == cmd.allow[n]
           IN /\ Len(asked) \in Nat /\ n \in 1..Len(cmd.allow) /\ Len(cmd.allow) \in Nat
              /\ f \in Flags /\ f.addr \in Addrs /\ f.prefix \in 0..Width /\ f.proto \in Protos
              /\ f.kind = k
<1>1. cmd.allow \in Seq(Flags) /\ asked \in Seq(SUBSET Addrs)
  BY InputAssumption DEF TypeOK
<1>2. Len(asked) + 1 \in 1..Len(cmd.allow) BY <1>1 DEF Flag, AllowDone
<1>3. cmd.allow[Len(asked) + 1] \in Flags BY <1>1, <1>2
<1> QED BY <1>1, <1>2, <1>3 DEF Flags, Flag

\* Dealing with one more flag leaves what was said of the earlier ones.
LEMMA OneMore ==
    ASSUME TypeOK, RulesFromFlags, SniFromFlags, NEW answer \in SUBSET Addrs,
           asked' = Append(asked, answer), cmd' = cmd
    PROVE  /\ asked' \in Seq(SUBSET Addrs)
           /\ Len(asked) \in Nat /\ Len(asked') = Len(asked) + 1
           /\ \A i \in 1..Len(asked) : asked'[i] = asked[i]
           /\ asked'[Len(asked) + 1] = answer
           /\ Dealt \subseteq Dealt'
           /\ \A r \in rules : Outward(r) /\ \E i \in Dealt' : FromFlag(r, i)'
<1>1. asked \in Seq(SUBSET Addrs) BY DEF TypeOK
<1>2. /\ asked' \in Seq(SUBSET Addrs)
      /\ Len(asked) \in Nat /\ Len(asked') = Len(asked) + 1
      /\ \A i \in 1..Len(asked) : asked'[i] = asked[i]
      /\ asked'[Len(asked) + 1] = answer
  BY <1>1
<1>3. Dealt \subseteq Dealt' /\ \A i \in Dealt : i \in 1..Len(asked) BY <1>2 DEF Dealt
<1>4. ASSUME NEW r \in rules
      PROVE  Outward(r) /\ \E i \in Dealt' : FromFlag(r, i)'
  <2>1. PICK i \in Dealt : FromFlag(r, i) BY DEF RulesFromFlags
  <2>2. asked'[i] = asked[i] BY <1>2, <1>3
  <2>3. FromFlag(r, i)' BY <2>1, <2>2 DEF FromFlag
  <2> QED BY <1>3, <2>1, <2>3 DEF RulesFromFlags
<1> QED BY <1>2, <1>3, <1>4

\* A refusal leaves what was resolved.
LEMMA RefuseStep == ASSUME IInv, Refuse PROVE IInv'
  BY DEF IInv, Refuse, TypeOK, RulesFromFlags, SniFromFlags, NamesPinned, Dealt, FromFlag, Outward

\* A flag that adds one rule of its own and asks nothing.
LEMMA RuleStep ==
    ASSUME IInv, NEW k \in {"cidr", "addr"}, Flag(k), NEW p \in 0..Width,
           LET f == cmd.allow[Len(asked) + 1] IN
              /\ k = "addr" => p = Width
              /\ k = "cidr" => p = f.prefix
              /\ Outward(Rule(f.addr, p, f))
              /\ rules' = rules \cup {Rule(f.addr, p, f)},
           Note({}), UNCHANGED <<cmd, phase, hosts, sni>>
    PROVE  IInv'
<1> DEFINE n == Len(asked) + 1
           f == cmd.allow[n]
           r0 == Rule(f.addr, p, f)
<1> USE DEF IInv
<1>1. /\ Len(asked) \in Nat /\ n \in 1..Len(cmd.allow) /\ Len(cmd.allow) \in Nat
      /\ f \in Flags /\ f.addr \in Addrs /\ f.prefix \in 0..Width /\ f.proto \in Protos
      /\ f.kind = k
  BY NextFlag
<1>2. /\ asked' \in Seq(SUBSET Addrs)
      /\ Len(asked') = n
      /\ \A i \in 1..Len(asked) : asked'[i] = asked[i]
      /\ Dealt \subseteq Dealt'
      /\ \A r \in rules : Outward(r) /\ \E i \in Dealt' : FromFlag(r, i)'
  BY OneMore, {} \in SUBSET Addrs DEF Note
<1>3. n \in Dealt' BY <1>1, <1>2 DEF Dealt
<1>4. r0.addr \in Addrs /\ r0.prefix \in 0..Width /\ r0.proto \in Protos BY <1>1 DEF Rule
<1>5. TypeOK' BY <1>2, <1>4 DEF TypeOK
<1>6. RulesFromFlags'
  <2>1. ASSUME NEW r, r = r0, NEW i, i = n PROVE FromFlag(r, i)'
    BY <1>1, <2>1 DEF FromFlag, Rule
  <2>2. rules' = rules \cup {r0} /\ Outward(r0) OBVIOUS
  <2>3. \A r : Outward(r)' <=> Outward(r) BY DEF Outward
  <2> HIDE DEF r0, n
  <2> QED BY <1>2, <1>3, <2>1, <2>2, <2>3 DEF RulesFromFlags
<1>7. SniFromFlags'
  <2> SUFFICES ASSUME NEW r \in sni
               PROVE \E i \in (Len(cmd.allow) + 1)..Len(asked') : r.addrs \subseteq asked'[i]
    BY DEF SniFromFlags
  <2>1. PICK i \in (Len(cmd.allow) + 1)..Len(asked) : r.addrs \subseteq asked[i]
    BY DEF SniFromFlags
  <2> QED BY <1>1, <1>2, <2>1
<1>8. NamesPinned'
  <2> SUFFICES ASSUME NEW i \in Dealt', cmd.allow[i].kind = "name"
               PROVE  /\ i \in Dealt /\ asked'[i] = asked[i]
                      /\ rules \subseteq rules'
    BY DEF NamesPinned
  <2>1. i # n BY <1>1
  <2>2. i \in 1..n BY <1>2 DEF Dealt
  <2> QED BY <1>1, <1>2, <2>1, <2>2 DEF Dealt
<1> QED BY <1>5, <1>6, <1>7, <1>8

LEMMA CidrStep == ASSUME IInv, AllowCidr PROVE IInv'
<1> DEFINE f == cmd.allow[Len(asked) + 1]
<1>1. CASE Refuse BY <1>1, RefuseStep
<1>2. CASE ~Refuse
  <2>1. /\ ~CidrOverlaps(f.addr, f.prefix, LinkLocal.addr, LinkLocal.prefix)
        /\ rules' = rules \cup {Rule(f.addr, f.prefix, f)}
        /\ Note({}) /\ UNCHANGED <<cmd, phase, hosts, sni>> /\ Flag("cidr")
    BY <1>2 DEF AllowCidr
  <2>2. f.addr \in Addrs /\ f.prefix \in 0..Width BY <2>1, NextFlag DEF IInv
  <2>3. Outward(Rule(f.addr, f.prefix, f)) BY <2>1, <2>2, BlockRule
  <2> QED BY <2>1, <2>2, <2>3, RuleStep
<1> QED BY <1>1, <1>2

LEMMA AddrStep == ASSUME IInv, AllowAddr PROVE IInv'
<1> DEFINE f == cmd.allow[Len(asked) + 1]
<1>1. CASE Refuse BY <1>1, RefuseStep
<1>2. CASE ~Refuse
  <2>1. /\ ClassifyInward(f.addr) \notin {"loopback", "linkLocal"}
        /\ rules' = rules \cup {Rule(f.addr, Width, f)}
        /\ Note({}) /\ UNCHANGED <<cmd, phase, hosts, sni>> /\ Flag("addr")
    BY <1>2 DEF AllowAddr
  <2>2. f.addr \in Addrs BY <2>1, NextFlag DEF IInv
  <2>3. ~Member(f.addr, LinkLocal) BY <2>1 DEF ClassifyInward
  <2>4. Outward(Rule(f.addr, Width, f)) BY <2>2, <2>3, SingleRule
  <2>5. Width \in 0..Width BY WidthAssumption
  <2> QED BY <2>1, <2>4, <2>5, RuleStep
<1> QED BY <1>1, <1>2

LEMMA NameStep == ASSUME IInv, AllowName PROVE IInv'
<1> DEFINE n == Len(asked) + 1
           f == cmd.allow[n]
<1> USE DEF IInv
<1>1. CASE Refuse BY <1>1, RefuseStep
<1>2. CASE ~Refuse
  <2>1. PICK answer \in Answers :
          /\ answer # {}
          /\ ~(f.proto = "tcp" /\ Contains(f.ports, Https))
          /\ \A a \in answer : ClassifyInward(a) = "none"
          /\ rules' = rules \cup {Rule(a, Width, f) : a \in answer}
          /\ hosts' = hosts \cup {<<f.name, a>> : a \in answer}
          /\ Note(answer)
          /\ UNCHANGED <<cmd, phase, sni>>
    BY <1>2 DEF AllowName
  <2>2. /\ Len(asked) \in Nat /\ n \in 1..Len(cmd.allow) /\ Len(cmd.allow) \in Nat
        /\ f \in Flags /\ f.addr \in Addrs /\ f.prefix \in 0..Width /\ f.proto \in Protos
        /\ f.kind = "name"
    BY NextFlag DEF AllowName
  <2>3. answer \in SUBSET Addrs BY InputAssumption
  <2>4. /\ asked' \in Seq(SUBSET Addrs)
        /\ Len(asked') = n
        /\ \A i \in 1..Len(asked) : asked'[i] = asked[i]
        /\ asked'[n] = answer
        /\ Dealt \subseteq Dealt'
        /\ \A r \in rules : Outward(r) /\ \E i \in Dealt' : FromFlag(r, i)'
    BY <2>1, <2>3, OneMore DEF Note
  <2>5. n \in Dealt' BY <2>1, <2>2, <2>4 DEF Dealt
  <2>6. ASSUME NEW a \in answer
        PROVE  /\ a \in Addrs /\ ~Member(a, LinkLocal) /\ ~IsPrivate(a)
               /\ Outward(Rule(a, Width, f))
    <3>1. a \in Addrs /\ ~Member(a, LinkLocal) /\ ~IsPrivate(a)
      BY <2>1, <2>3 DEF ClassifyInward
    <3> QED BY <3>1, SingleRule
  <2>7. TypeOK'
    <3>1. Width \in 0..Width BY WidthAssumption
    <3>2. \A r \in rules' : r.addr \in Addrs /\ r.prefix \in 0..Width /\ r.proto \in Protos
      BY <2>1, <2>2, <2>6, <3>1 DEF TypeOK, Rule
    <3>3. \A h \in hosts' : h[2] \in Addrs BY <2>1, <2>6 DEF TypeOK
    <3> QED BY <2>1, <2>4, <3>2, <3>3 DEF TypeOK
  <2>8. RulesFromFlags'
    <3>1. ASSUME NEW a \in answer, NEW r, r = Rule(a, Width, f), NEW i, i = n
          PROVE  FromFlag(r, i)'
      BY <2>1, <2>2, <2>4, <2>6, <3>1 DEF FromFlag, Rule, IsPrivate
    <3>2. \A r : Outward(r)' <=> Outward(r) BY DEF Outward
    <3>3. ASSUME NEW r \in rules'
          PROVE  Outward(r) /\ \E i \in Dealt' : FromFlag(r, i)'
      <4>1. CASE r \in rules BY <2>4, <4>1
      <4>2. CASE r \notin rules
        <5>1. PICK a \in answer : r = Rule(a, Width, f) BY <2>1, <4>2
        <5>2. \A i : i = n => FromFlag(r, i)' BY <3>1, <5>1
        <5>3. Outward(r) BY <2>6, <5>1
        <5> HIDE DEF n
        <5> QED BY <2>5, <5>2, <5>3
      <4> QED BY <4>1, <4>2
    <3> QED BY <3>2, <3>3 DEF RulesFromFlags
  <2>9. SniFromFlags'
    <3> SUFFICES ASSUME NEW r \in sni
                 PROVE  /\ \E i \in (Len(cmd.allow) + 1)..Len(asked') : r.addrs \subseteq asked'[i]
                        /\ hosts \subseteq hosts'
      BY <2>1 DEF SniFromFlags, ClassifyInward, IsPrivate
    <3>1. PICK i \in (Len(cmd.allow) + 1)..Len(asked) : r.addrs \subseteq asked[i]
      BY DEF SniFromFlags
    <3> QED BY <2>1, <2>2, <2>4, <3>1
  <2>10. NamesPinned'
    <3>1. ASSUME NEW i \in Dealt', i # n PROVE i \in Dealt /\ asked'[i] = asked[i]
      BY <2>1, <2>2, <2>4, <3>1 DEF Dealt
    <3>2. hosts \subseteq hosts' /\ rules \subseteq rules' /\ cmd' = cmd BY <2>1
    <3>3. ASSUME NEW i \in Dealt', cmd.allow[i].kind = "name"
          PROVE  LET g == cmd.allow[i] IN
                 /\ asked'[i] # {}
                 /\ ~(g.proto = "tcp" /\ Contains(g.ports, Https))
                 /\ \A a \in asked'[i] :
                       /\ ClassifyInward(a) = "none"
                       /\ <<g.name, a>> \in hosts'
                       /\ Rule(a, Width, g) \in rules'
      <4>1. CASE i = n BY <2>1, <2>4, <4>1
      <4>2. CASE i # n BY <3>1, <3>2, <3>3, <4>2 DEF NamesPinned
      <4> QED BY <4>1, <4>2
    <3> QED BY <3>2, <3>3 DEF NamesPinned, ClassifyInward, IsPrivate, Rule
  <2> QED BY <2>7, <2>8, <2>9, <2>10
<1> QED BY <1>1, <1>2

LEMMA SniStep == ASSUME IInv, ResolveSni PROVE IInv'
<1> DEFINE n == Len(asked) + 1
           host == cmd.sni[Len(asked) + 1 - Len(cmd.allow)]
<1> USE DEF IInv
<1>1. CASE Refuse BY <1>1, RefuseStep
<1>2. CASE ~Refuse
  <2>1. PICK answer \in SUBSET Addrs :
          /\ Note(answer)
          /\ UNCHANGED <<cmd, phase, rules>>
          /\ \/ answer = {} /\ UNCHANGED <<hosts, sni>>
             \/ /\ \A r \in sni : r.host # host
                /\ \A a \in answer : ClassifyInward(a) \notin {"linkLocal", "private"}
                /\ sni' = sni \cup {[host |-> host, addrs |-> answer]}
                /\ hosts' = hosts \cup {<<host, a>> : a \in answer}
    <3>1. \/ Note({}) /\ UNCHANGED <<cmd, phase, rules, hosts, sni>>
          \/ /\ \A r \in sni : r.host # host
             /\ \E answer \in Answers :
                  \/ Refuse
                  \/ /\ \A a \in answer : ClassifyInward(a) \notin {"linkLocal", "private"}
                     /\ sni' = sni \cup {[host |-> host, addrs |-> answer]}
                     /\ hosts' = hosts \cup {<<host, a>> : a \in answer}
                     /\ Note(answer)
                     /\ UNCHANGED <<cmd, phase, rules>>
      <4>1. ResolveHost(host) BY DEF ResolveSni
      <4> HIDE DEF host
      <4> QED BY <4>1, Zenon DEF ResolveHost
    <3> HIDE DEF host
    <3>2. CASE Note({}) /\ UNCHANGED <<cmd, phase, rules, hosts, sni>>
      BY <3>2, {} \in SUBSET Addrs
    <3>3. CASE ~(Note({}) /\ UNCHANGED <<cmd, phase, rules, hosts, sni>>)
      <4>1. PICK answer \in Answers :
              /\ \A a \in answer : ClassifyInward(a) \notin {"linkLocal", "private"}
              /\ sni' = sni \cup {[host |-> host, addrs |-> answer]}
              /\ hosts' = hosts \cup {<<host, a>> : a \in answer}
              /\ Note(answer)
              /\ UNCHANGED <<cmd, phase, rules>>
        BY <1>2, <3>1, <3>3
      <4>2. answer \in SUBSET Addrs BY InputAssumption
      <4> QED BY <3>1, <3>3, <4>1, <4>2
    <3> QED BY <3>2, <3>3
  <2>2. /\ asked' \in Seq(SUBSET Addrs)
        /\ Len(asked) \in Nat /\ Len(asked') = n
        /\ \A i \in 1..Len(asked) : asked'[i] = asked[i]
        /\ asked'[n] = answer
        /\ \A r \in rules : Outward(r) /\ \E i \in Dealt' : FromFlag(r, i)'
    BY <2>1, OneMore DEF Note
  <2>3. Len(cmd.allow) \in Nat /\ n > Len(cmd.allow)
    BY <2>2, InputAssumption DEF TypeOK, ResolveSni, AllowDone
  <2>4. \A i \in Dealt' : i \in Dealt /\ asked'[i] = asked[i] BY <2>1, <2>2, <2>3 DEF Dealt
  <2>5. TypeOK'
    <3> HIDE DEF host
    <3>1. ASSUME NEW r \in sni', NEW s \in sni'
          PROVE  r.addrs \subseteq Addrs /\ (r.host = s.host => r = s)
      <4> DEFINE new == [host |-> host, addrs |-> answer]
      <4>1. new.host = host /\ new.addrs = answer OBVIOUS
      <4>2. /\ r \in sni \/ (r = new /\ \A t \in sni : t.host # host)
            /\ s \in sni \/ (s = new /\ \A t \in sni : t.host # host)
        BY <2>1
      <4> HIDE DEF new
      <4>3. r.addrs \subseteq Addrs BY <4>1, <4>2 DEF TypeOK
      <4>4. r.host = s.host => r = s BY <4>1, <4>2 DEF TypeOK
      <4> QED BY <4>3, <4>4
    <3>2. \A r, s \in sni' : r.addrs \subseteq Addrs /\ (r.host = s.host => r = s)
      BY <3>1
    <3>3. ASSUME NEW h \in hosts' PROVE h[2] \in Addrs
      <4>1. CASE h \in hosts BY <4>1 DEF TypeOK
      <4>2. CASE h \notin hosts
        <5>1. PICK a \in answer : h = <<host, a>> BY <2>1, <4>2
        <5> QED BY <5>1
      <4> QED BY <4>1, <4>2
    <3> QED BY <2>1, <2>2, <3>2, <3>3 DEF TypeOK
  <2>6. RulesFromFlags'
    <3>1. \A r : Outward(r)' <=> Outward(r) BY DEF Outward
    <3> QED BY <2>1, <2>2, <3>1 DEF RulesFromFlags
  <2>7. SniFromFlags'
    <3>1. ASSUME NEW r \in sni'
          PROVE  /\ \E i \in (Len(cmd.allow) + 1)..Len(asked') : r.addrs \subseteq asked'[i]
                 /\ \A a \in r.addrs :
                       ClassifyInward(a) \notin {"linkLocal", "private"} /\ <<r.host, a>> \in hosts'
      <4>1. CASE r \in sni
        <5>1. PICK i \in (Len(cmd.allow) + 1)..Len(asked) : r.addrs \subseteq asked[i]
          BY <4>1 DEF SniFromFlags
        <5>2. hosts \subseteq hosts' BY <2>1
        <5>3. i \in (Len(cmd.allow) + 1)..Len(asked') /\ asked'[i] = asked[i]
          BY <2>2, <2>3, <5>1
        <5> QED BY <4>1, <5>1, <5>2, <5>3 DEF SniFromFlags
      <4>2. CASE r \notin sni
        <5>1. /\ r = [host |-> host, addrs |-> answer]
              /\ \A a \in answer : ClassifyInward(a) \notin {"linkLocal", "private"}
              /\ hosts' = hosts \cup {<<host, a>> : a \in answer}
          BY <2>1, <4>2
        <5>2. n \in (Len(cmd.allow) + 1)..Len(asked') BY <2>2, <2>3
        <5>3. r.addrs \subseteq asked'[n] BY <2>2, <5>1
        <5> HIDE DEF n, host
        <5> QED BY <5>1, <5>2, <5>3
      <4> QED BY <4>1, <4>2
    <3> QED BY <2>1, <3>1 DEF SniFromFlags, ClassifyInward, IsPrivate
  <2>8. NamesPinned'
    <3>1. hosts \subseteq hosts' /\ rules' = rules /\ cmd' = cmd BY <2>1
    <3> QED BY <2>4, <3>1 DEF NamesPinned, ClassifyInward, IsPrivate, Rule
  <2> QED BY <2>5, <2>6, <2>7, <2>8
<1> QED BY <1>1, <1>2

\* Loading the rule set changes none of it, nor does a stutter.
LEMMA LoadStep == ASSUME IInv, Resolved \/ UNCHANGED vars PROVE IInv'
<1>1. UNCHANGED <<cmd, asked, rules, hosts, sni>> /\ (phase' = "up" \/ phase' = phase)
  BY DEF Resolved, vars
<1> USE <1>1 DEF IInv
<1>2. TypeOK' BY DEF TypeOK
<1>3. RulesFromFlags' BY DEF RulesFromFlags, Dealt, FromFlag, Outward
<1>4. SniFromFlags' BY DEF SniFromFlags
<1>5. NamesPinned' BY DEF NamesPinned, Dealt
<1> QED BY <1>2, <1>3, <1>4, <1>5

\* Every reachable state satisfies the inductive invariant: each rule and
\* each SNI entry comes from a flag and passed that flag's checks.
THEOREM RulesSound == Spec => []IInv
<1>1. IInv /\ [Next]_vars => IInv'
  <2> SUFFICES ASSUME IInv, [Next]_vars PROVE IInv' OBVIOUS
  <2>1. CASE AllowMalformed BY <2>1, RefuseStep DEF AllowMalformed
  <2>2. CASE AllowCidr BY <2>2, CidrStep
  <2>3. CASE AllowAddr BY <2>3, AddrStep
  <2>4. CASE AllowName BY <2>4, NameStep
  <2>5. CASE ResolveSni BY <2>5, SniStep
  <2>6. CASE Resolved \/ UNCHANGED vars BY <2>6, LoadStep
  <2> QED BY <2>1, <2>2, <2>3, <2>4, <2>5, <2>6 DEF Next
<1> QED BY InitInv, <1>1, PTL DEF Spec

-----------------------------------------------------------------------------
(* The properties. *)

\* The state of the resolution keeps its types, and no host has two entries.
THEOREM TypeCorrect == Spec => []TypeOK
  BY RulesSound, PTL DEF IInv

\* What is left of a packet that leaves: it matched a rule, or it is a dial
\* of the proxy to an address of an SNI host.
LEMMA OutBy ==
    ASSUME NEW pkt \in Packets, Fate(pkt) = "out"
    PROVE  /\ pkt.fam = 4
           /\ \/ \E r \in rules : MatchesRule(pkt, r)
              \/ /\ pkt.by = "proxy" /\ pkt.proto = "tcp" /\ pkt.port = Https
                 /\ pkt.dst \in SniAddrs
<1>1. ~Redirected(pkt) /\ Accepted(AfterNat(pkt), ToLoopback(pkt)) /\ ~ToLoopback(pkt)
  BY DEF Fate
<1>2. AfterNat(pkt) = pkt BY <1>1 DEF AfterNat
<1>3. Accepted(pkt, ToLoopback(pkt)) BY <1>1, <1>2
<1>4. ~(pkt.fam = 4 /\ pkt.dst = ProxyAddr) BY <1>1, ProxyAssumption DEF ToLoopback
<1> QED BY <1>1, <1>3, <1>4 DEF Accepted, MatchesRule

\* A flag that a rule comes from says so of every packet the rule matches.
LEMMA RuleSpeaks ==
    ASSUME IInv, NEW pkt \in Packets, NEW r \in rules, MatchesRule(pkt, r),
           NEW i \in Dealt, FromFlag(r, i)
    PROVE  /\ AllowedBy(i, pkt)
           /\ ~Member(pkt.dst, LinkLocal)
           /\ cmd.allow[i].kind = "name" => ~IsPrivate(pkt.dst)
<1> USE DEF IInv
<1>1. pkt.dst \in Addrs /\ r.addr \in Addrs BY DEF Packets, TypeOK
<1>2. /\ pkt.fam = 4 /\ pkt.proto = r.proto /\ Contains(r.ports, pkt.port)
      /\ Member(pkt.dst, r)
  BY DEF MatchesRule
<1>3. r.prefix = Width => pkt.dst = r.addr BY <1>1, <1>2, Itself DEF Member
<1>4. ~Member(pkt.dst, LinkLocal) BY <1>1, <1>2 DEF RulesFromFlags, Outward
<1>5. Member(pkt.dst, cmd.allow[i]) <=>
         pkt.dst \div Span[cmd.allow[i].prefix] = cmd.allow[i].addr \div Span[cmd.allow[i].prefix]
  BY DEF Member
<1>6. AllowedBy(i, pkt)
  <2>1. CASE cmd.allow[i].kind = "addr" BY <1>2, <1>3, <2>1 DEF FromFlag, AllowedBy
  <2>2. CASE cmd.allow[i].kind = "cidr" BY <1>2, <2>2 DEF FromFlag, AllowedBy, Member
  <2>3. CASE cmd.allow[i].kind = "name" BY <1>2, <1>3, <2>3 DEF FromFlag, AllowedBy
  <2> QED BY <2>1, <2>2, <2>3 DEF FromFlag
<1>7. cmd.allow[i].kind = "name" => ~IsPrivate(pkt.dst) BY <1>3 DEF FromFlag
<1> QED BY <1>4, <1>6, <1>7

\* What leaves by the SNI clause goes to an address that was answered for an
\* SNI host, and leads neither to link-local nor to a private address.
LEMMA SniSpeaks ==
    ASSUME IInv, NEW pkt \in Packets, pkt.dst \in SniAddrs
    PROVE  /\ \E i \in (Len(cmd.allow) + 1)..Len(asked) : pkt.dst \in asked[i]
           /\ ~ToLoopback(pkt) /\ pkt.fam = 4 =>
                 ~Member(pkt.dst, LinkLocal) /\ ~IsPrivate(pkt.dst)
<1>1. PICK r \in sni : pkt.dst \in r.addrs BY DEF SniAddrs
<1>2. \E i \in (Len(cmd.allow) + 1)..Len(asked) : r.addrs \subseteq asked[i]
  BY DEF IInv, SniFromFlags
<1>3. ClassifyInward(pkt.dst) \notin {"linkLocal", "private"}
  BY <1>1 DEF IInv, SniFromFlags
<1> QED BY <1>1, <1>2, <1>3 DEF ClassifyInward, ToLoopback

\* What follows of a packet that leaves: a flag allows it, or it is a dial of
\* the proxy to what was answered for an SNI host.
LEMMA OutSpeaks ==
    ASSUME IInv, NEW pkt \in Packets, Fate(pkt) = "out"
    PROVE  /\ ~Member(pkt.dst, LinkLocal)
           /\ \/ \E i \in 1..Len(cmd.allow) :
                    /\ AllowedBy(i, pkt)
                    /\ IsPrivate(pkt.dst) => cmd.allow[i].kind \in {"addr", "cidr"}
              \/ pkt.by = "proxy" /\ AllowedAsSni(pkt) /\ ~IsPrivate(pkt.dst)
<1>1. CASE \E r \in rules : MatchesRule(pkt, r)
  <2>1. PICK r \in rules : MatchesRule(pkt, r) BY <1>1
  <2>2. PICK i \in Dealt : FromFlag(r, i) BY DEF IInv, RulesFromFlags
  <2>3. /\ AllowedBy(i, pkt) /\ ~Member(pkt.dst, LinkLocal)
        /\ cmd.allow[i].kind = "name" => ~IsPrivate(pkt.dst)
    BY <2>1, <2>2, RuleSpeaks
  <2>4. cmd.allow[i].kind \in {"addr", "cidr", "name"} BY <2>2 DEF FromFlag
  <2>5. i \in 1..Len(cmd.allow)
    <3>1. i \in 1..Len(asked) /\ i <= Len(cmd.allow) BY DEF Dealt
    <3>2. Len(asked) \in Nat /\ Len(cmd.allow) \in Nat
      BY InputAssumption DEF IInv, TypeOK
    <3> QED BY <3>1, <3>2
  <2> QED BY <2>3, <2>4, <2>5
<1>2. CASE ~\E r \in rules : MatchesRule(pkt, r)
  <2>1. /\ pkt.fam = 4 /\ pkt.by = "proxy" /\ pkt.proto = "tcp" /\ pkt.port = Https
        /\ pkt.dst \in SniAddrs
    BY <1>2, OutBy
  <2>2. ~ToLoopback(pkt) BY DEF Fate
  <2> QED BY <2>1, <2>2, SniSpeaks DEF AllowedAsSni
<1> QED BY <1>1, <1>2

\* No packet leaves the sandbox that no flag allows.
THEOREM Authorised == Spec => []OnlyAuthorised
<1>1. IInv => OnlyAuthorised BY OutSpeaks DEF OnlyAuthorised
<1> QED BY <1>1, RulesSound, PTL

\* Whatever resolvers answer, nothing reaches link-local, nor a private
\* address that was not written out.
THEOREM Inward == Spec => []NothingInward
<1>1. ASSUME IInv, NEW pkt \in Packets, Fate(pkt) = "out"
      PROVE  /\ ~Member(pkt.dst, LinkLocal)
             /\ IsPrivate(pkt.dst) =>
                  \E i \in 1..Len(cmd.allow) :
                     AllowedBy(i, pkt) /\ cmd.allow[i].kind \in {"addr", "cidr"}
  BY <1>1, OutSpeaks
<1>2. IInv => NothingInward BY <1>1 DEF NothingInward
<1> QED BY <1>2, RulesSound, PTL

\* With an SNI host, TCP to port 443 ends at the proxy.
THEOREM Inspected == Spec => []HttpsInspected
<1>1. HttpsInspected
  <2> SUFFICES ASSUME SniEnabled, NEW pkt \in Packets,
                      pkt.by = "sandbox", pkt.fam = 4, pkt.proto = "tcp", pkt.port = Https
               PROVE  Fate(pkt) = "proxy"
    BY DEF HttpsInspected
  <2>1. Redirected(pkt) BY DEF Redirected
  <2>2. AfterNat(pkt) = [pkt EXCEPT !.dst = ProxyAddr, !.port = ProxyPort] BY <2>1 DEF AfterNat
  <2>3. /\ AfterNat(pkt).fam = 4 /\ AfterNat(pkt).proto = "tcp"
        /\ AfterNat(pkt).dst = ProxyAddr /\ AfterNat(pkt).port = ProxyPort
    BY <2>2 DEF Packets
  <2>4. Accepted(AfterNat(pkt), ToLoopback(pkt)) BY <2>3 DEF Accepted
  <2> QED BY <2>1, <2>4 DEF Fate
<1> QED BY <1>1, PTL

\* A packet to an address with a rule of its own leaves.
LEMMA PinnedLeaves ==
    ASSUME NEW a \in Addrs, NEW p \in Ports, NEW f \in Flags, Contains(f.ports, p),
           ~(f.proto = "tcp" /\ p = Https), ~Member(a, Loopback),
           Rule(a, Width, f) \in rules
    PROVE  Fate([by |-> "sandbox", fam |-> 4, proto |-> f.proto, dst |-> a, port |-> p]) = "out"
<1> DEFINE pkt == [by |-> "sandbox", fam |-> 4, proto |-> f.proto, dst |-> a, port |-> p]
<1>1. ~Redirected(pkt) BY DEF Redirected
<1>2. AfterNat(pkt) = pkt BY <1>1 DEF AfterNat
<1>3. MatchesRule(pkt, Rule(a, Width, f)) BY DEF MatchesRule, Rule, Member
<1>4. Accepted(pkt, ToLoopback(pkt)) BY <1>3 DEF Accepted
<1>5. ~ToLoopback(pkt) BY DEF ToLoopback
<1> HIDE DEF pkt
<1>6. Fate(pkt) = "out" BY <1>1, <1>2, <1>4, <1>5 DEF Fate
<1> QED BY <1>6 DEF pkt

\* The proxy gets through to every outward address of an SNI host.
LEMMA DialLeaves ==
    ASSUME NEW r \in sni, NEW a \in r.addrs, ~Member(a, Loopback)
    PROVE  Fate([by |-> "proxy", fam |-> 4, proto |-> "tcp", dst |-> a, port |-> Https]) = "out"
<1> DEFINE pkt == [by |-> "proxy", fam |-> 4, proto |-> "tcp", dst |-> a, port |-> Https]
<1>1. ~Redirected(pkt) BY DEF Redirected
<1>2. AfterNat(pkt) = pkt BY <1>1 DEF AfterNat
<1>3. pkt.dst \in SniAddrs /\ SniEnabled BY DEF SniAddrs, SniEnabled
<1>4. Accepted(pkt, ToLoopback(pkt)) BY <1>3 DEF Accepted
<1>5. ~ToLoopback(pkt) BY DEF ToLoopback
<1> HIDE DEF pkt
<1>6. Fate(pkt) = "out" BY <1>1, <1>2, <1>4, <1>5 DEF Fate
<1> QED BY <1>6 DEF pkt

\* Once the rules are up, every flag was dealt with.
AllDealt == phase = "up" => Len(asked) = Len(cmd.allow) + Len(cmd.sni)

\* What was allowed by name can be reached: every name has a pin at which
\* its ports are open, every SNI host its pins, and the proxy its upstreams.
THEOREM Reachable == Spec => []NamesReachable
<1>1. Init => AllDealt BY DEF Init, AllDealt
<1>2. AllDealt /\ [Next]_vars => AllDealt'
  <2> SUFFICES ASSUME AllDealt, [Next]_vars PROVE AllDealt' OBVIOUS
  <2>1. CASE Resolved BY <2>1 DEF Resolved, AllDealt
  <2>2. CASE UNCHANGED vars BY <2>2 DEF vars, AllDealt
  <2>3. CASE phase = "resolve" /\ phase' \in {"resolve", "refused"} BY <2>3 DEF AllDealt
  <2>4. CASE AllowMalformed \/ AllowCidr BY <2>3, <2>4
    DEF AllowMalformed, AllowCidr, Refuse, Flag
  <2>5. CASE AllowAddr \/ AllowName BY <2>3, <2>5 DEF AllowAddr, AllowName, Refuse, Flag
  <2>6. CASE ResolveSni BY <2>3, <2>6 DEF ResolveSni, ResolveHost, Refuse
  <2> QED BY <2>1, <2>2, <2>4, <2>5, <2>6 DEF Next
<1>3. ASSUME IInv, AllDealt, phase = "up" PROVE NamesReachable
  <2>1. cmd.allow \in Seq(Flags) /\ cmd.sni \in Seq(Names) /\ asked \in Seq(SUBSET Addrs)
    BY <1>3, InputAssumption DEF IInv, TypeOK
  <2>2. 1..Len(cmd.allow) \subseteq Dealt
    <3>1. Len(cmd.allow) \in Nat /\ Len(cmd.sni) \in Nat BY <2>1
    <3>2. Len(asked) = Len(cmd.allow) + Len(cmd.sni) BY <1>3 DEF AllDealt
    <3>3. ASSUME NEW i \in 1..Len(cmd.allow) PROVE i \in Dealt
      <4>1. \A x, y \in Nat : \A j \in 1..x : j \in 1..(x + y) /\ j <= x OBVIOUS
      <4>2. i \in 1..(Len(cmd.allow) + Len(cmd.sni)) /\ i <= Len(cmd.allow) BY <3>1, <4>1
      <4>3. i \in 1..Len(asked) /\ i <= Len(cmd.allow) BY <3>2, <4>2
      <4> QED BY <4>3 DEF Dealt
    <3> QED BY <3>3
  <2>3. ASSUME NEW i \in 1..Len(cmd.allow), cmd.allow[i].kind = "name"
        PROVE  \E h \in hosts :
                 /\ h[1] = cmd.allow[i].name
                 /\ \A p \in Ports : Contains(cmd.allow[i].ports, p) =>
                       Fate([by |-> "sandbox", fam |-> 4, proto |-> cmd.allow[i].proto,
                             dst |-> h[2], port |-> p]) = "out"
    <3> DEFINE f == cmd.allow[i]
    <3>1. f \in Flags BY <2>1
    <3>2. i \in Dealt BY <2>2
    <3>3. /\ asked[i] # {}
          /\ ~(f.proto = "tcp" /\ Contains(f.ports, Https))
          /\ \A a \in asked[i] :
                /\ ClassifyInward(a) = "none"
                /\ <<f.name, a>> \in hosts
                /\ Rule(a, Width, f) \in rules
      BY <1>3, <2>3, <3>2 DEF IInv, NamesPinned
    <3>4. PICK a \in asked[i] : TRUE BY <3>3
    <3>5. a \in Addrs
      <4>1. i \in 1..Len(asked) BY <3>2 DEF Dealt
      <4>2. asked[i] \in SUBSET Addrs BY <2>1, <4>1
      <4> QED BY <4>2
    <3>6. ~Member(a, Loopback) BY <3>3 DEF ClassifyInward
    <3> HIDE DEF f
    <3>7. ASSUME NEW p \in Ports, Contains(f.ports, p)
          PROVE  Fate([by |-> "sandbox", fam |-> 4, proto |-> f.proto,
                       dst |-> a, port |-> p]) = "out"
      BY <3>1, <3>3, <3>5, <3>6, <3>7, PinnedLeaves
    <3>8. <<f.name, a>> \in hosts /\ <<f.name, a>>[1] = f.name /\ <<f.name, a>>[2] = a
      BY <3>3
    <3> QED BY <3>7, <3>8 DEF f
  <2>4. \A r \in sni : \A a \in r.addrs : <<r.host, a>> \in hosts
    BY <1>3 DEF IInv, SniFromFlags
  <2>5. ASSUME NEW r \in sni, NEW a \in r.addrs, ~Member(a, Loopback)
        PROVE  Fate([by |-> "proxy", fam |-> 4, proto |-> "tcp", dst |-> a,
                     port |-> Https]) = "out"
    BY <2>5, DialLeaves
  <2> QED BY <2>3, <2>4, <2>5 DEF NamesReachable
<1>4. IInv /\ AllDealt => NamesReachable
  <2>1. phase # "up" => NamesReachable BY DEF NamesReachable
  <2> QED BY <1>3, <2>1
<1> QED BY <1>1, <1>2, <1>4, RulesSound, PTL DEF Spec
=============================================================================
