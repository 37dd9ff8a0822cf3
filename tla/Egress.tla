------------------------------- MODULE Egress -------------------------------
(***************************************************************************)
(* Filtered egress (egress.rs): `--allow` and `--allow-sni` are resolved   *)
(* on the host before the launch, one flag after the other, and rendered   *)
(* as two nft chains; the kernel then decides about every packet of the    *)
(* sandbox and of the SNI proxy.                                           *)
(*                                                                         *)
(* An address is a number of Width bits.  A block is an address with a     *)
(* prefix length; Span[p] addresses share a prefix of p bits.  A packet    *)
(* opens a connection: what follows passes as established.                 *)
(***************************************************************************)
EXTENDS Integers, Sequences

CONSTANTS
    Width,         \* bits of an address, 32 in the code
    Span,          \* addresses in a block, by prefix length
    Loopback, LinkLocal,  \* reserved blocks
    Private,       \* a set of blocks: RFC 1918 and 100.64.0.0/10
    ProxyAddr,     \* 127.0.0.1
    Https,         \* port 443
    ProxyPort,     \* PROXY_PORT
    Ports,         \* the ports of packets
    Names,         \* host names
    Answers,       \* the sets of IPv4 addresses a lookup may return
    CommandLines   \* [allow, sni]: sequences of flags and of host names

Addrs == 0..(Span[0] - 1)
Blocks == [addr : Addrs, prefix : 0..Width]
Ranges == {r \in [lo : Ports, hi : Ports] : r.lo <= r.hi}
Protos == {"tcp", "udp"}
Kinds == {"bad", "cidr", "addr", "name"}
Flags == [kind : Kinds, addr : Addrs, prefix : 0..Width, name : Names,
          ports : Ranges, proto : Protos]

ASSUME WidthAssumption == Width \in Nat
ASSUME SpanAssumption ==
    /\ Span \in [0..Width -> Nat \ {0}]
    /\ Span[Width] = 1
    /\ \A p \in 0..(Width - 1) : Span[p] = 2 * Span[p + 1]
ASSUME BlocksAssumption ==
    Loopback \in Blocks /\ LinkLocal \in Blocks /\ Private \subseteq Blocks
ASSUME PortsAssumption == Ports \subseteq Nat /\ Https \in Ports /\ ProxyPort \in Ports
ASSUME InputAssumption ==
    /\ Answers \subseteq SUBSET Addrs
    /\ CommandLines \subseteq [allow : Seq(Flags), sni : Seq(Names)]

VARIABLES
    cmd,      \* the command line
    phase,    \* "resolve", "up" or "refused"
    asked,    \* what was answered for each flag dealt with (addresses)
    rules,    \* EgressSpec::rules
    hosts,    \* EgressSpec::hosts: <<name, address>>
    sni       \* EgressSpec::sni: [host, addrs]

vars == <<cmd, phase, asked, rules, hosts, sni>>

-----------------------------------------------------------------------------
(* Blocks of addresses.                                                    *)

\* Mutant: without the case of prefix 0 the shift is by the whole width,
\* which the processor takes for a shift by nothing.
CidrRange_Shift(addr, prefix) ==
    LET span == IF prefix = 0 THEN Span[Width] ELSE Span[prefix]
        lo == addr - (addr % span)
    IN [lo |-> lo, hi |-> lo + span - 1]

\* The low bits cleared, and set.
CidrRange(addr, prefix) ==
    LET lo == addr - (addr % Span[prefix]) IN [lo |-> lo, hi |-> lo + Span[prefix] - 1]

\* Two inclusive ranges meet iff each starts before the other ends.
CidrOverlaps(addr, prefix, base, basePrefix) ==
    LET a == CidrRange(addr, prefix)
        b == CidrRange(base, basePrefix)
    IN a.lo <= b.hi /\ b.lo <= a.hi

\* What a block is, whatever its range is computed to be: the addresses that
\* share its prefix.
Member(x, block) == x \div Span[block.prefix] = block.addr \div Span[block.prefix]

ASSUME ProxyAssumption == ProxyAddr \in Addrs /\ Member(ProxyAddr, Loopback)

IsPrivate(a) == \E b \in Private : Member(a, b)

\* The first class that holds; "none" for an address that leads outwards.
ClassifyInward(a) ==
    IF Member(a, Loopback) THEN "loopback"
    ELSE IF Member(a, LinkLocal) THEN "linkLocal"
    ELSE IF IsPrivate(a) THEN "private" ELSE "none"

-----------------------------------------------------------------------------
(* EgressSpec::resolve.                                                    *)

Rule(addr, prefix, f) ==
    [addr |-> addr, prefix |-> prefix, ports |-> f.ports, proto |-> f.proto]

Contains(ports, port) == ports.lo <= port /\ port <= ports.hi

SniEnabled == sni # {}

Init ==
    /\ cmd \in CommandLines
    /\ phase = "resolve" /\ asked = <<>>
    /\ rules = {} /\ hosts = {} /\ sni = {}

AllowDone == Len(asked) >= Len(cmd.allow)

\* The next --allow flag, of the given kind.
Flag(kind) ==
    /\ phase = "resolve" /\ ~AllowDone
    /\ cmd.allow[Len(asked) + 1].kind = kind

Refuse == phase' = "refused" /\ UNCHANGED <<cmd, asked, rules, hosts, sni>>

Note(answer) == asked' = Append(asked, answer)

\* No port, no host, or a port or prefix out of range.
AllowMalformed == Flag("bad") /\ Refuse

\* A block is refused if any address of it is loopback or link-local.
AllowCidr ==
    /\ Flag("cidr")
    /\ LET f == cmd.allow[Len(asked) + 1]
           overlaps(b) == CidrOverlaps(f.addr, f.prefix, b.addr, b.prefix)
       IN \/ (overlaps(Loopback) \/ overlaps(LinkLocal)) /\ Refuse
          \/ /\ ~overlaps(Loopback) /\ ~overlaps(LinkLocal)
             /\ rules' = rules \cup {Rule(f.addr, f.prefix, f)}
             /\ Note({})
             /\ UNCHANGED <<cmd, phase, hosts, sni>>

\* A literal private address is intent, and stays allowed.
AllowAddr ==
    /\ Flag("addr")
    /\ LET f == cmd.allow[Len(asked) + 1]
           refused == ClassifyInward(f.addr) \in {"loopback", "linkLocal"}
       IN \/ refused /\ Refuse
          \/ /\ ~refused
             /\ rules' = rules \cup {Rule(f.addr, Width, f)}
             /\ Note({})
             /\ UNCHANGED <<cmd, phase, hosts, sni>>

\* A name is refused on TCP port 443, without an IPv4 address, and if any of
\* its addresses leads inwards; else each of them gets a rule and a pin.
AllowName ==
    /\ Flag("name")
    /\ LET f == cmd.allow[Len(asked) + 1] IN
       \E answer \in Answers :
          LET refused ==
                 \/ f.proto = "tcp" /\ Contains(f.ports, Https)
                 \/ answer = {}
                 \/ \E a \in answer : ClassifyInward(a) # "none"
          IN \/ refused /\ Refuse
             \/ /\ ~refused
                /\ rules' = rules \cup {Rule(a, Width, f) : a \in answer}
                /\ hosts' = hosts \cup {<<f.name, a>> : a \in answer}
                /\ Note(answer)
                /\ UNCHANGED <<cmd, phase, sni>>

\* A repeated name is skipped, a loopback address let through.
ResolveHost(host) ==
    \/ /\ \E r \in sni : r.host = host
       /\ Note({})
       /\ UNCHANGED <<cmd, phase, rules, hosts, sni>>
    \/ /\ \A r \in sni : r.host # host
       /\ \E answer \in Answers :
             LET refused ==
                    \/ answer = {}
                    \/ \E a \in answer : ClassifyInward(a) \in {"linkLocal", "private"}
             IN \/ refused /\ Refuse
                \/ /\ ~refused
                   /\ sni' = sni \cup {[host |-> host, addrs |-> answer]}
                   /\ hosts' = hosts \cup {<<host, a>> : a \in answer}
                   /\ Note(answer)
                   /\ UNCHANGED <<cmd, phase, rules>>

\* The next --allow-sni flag.
ResolveSni ==
    /\ phase = "resolve" /\ AllowDone /\ Len(asked) < Len(cmd.allow) + Len(cmd.sni)
    /\ ResolveHost(cmd.sni[Len(asked) + 1 - Len(cmd.allow)])

\* The whole command line is resolved; the rule set is loaded and stays.
Resolved ==
    /\ phase = "resolve"
    /\ Len(asked) = Len(cmd.allow) + Len(cmd.sni)
    /\ phase' = "up"
    /\ UNCHANGED <<cmd, asked, rules, hosts, sni>>

Next == AllowMalformed \/ AllowCidr \/ AllowAddr \/ AllowName \/ ResolveSni \/ Resolved

Spec == Init /\ [][Next]_vars

-----------------------------------------------------------------------------
(* EgressSpec::nft_ruleset, as the kernel runs it on a packet.  Only the   *)
(* proxy's sockets carry PROXY_MARK.  `ip` matches IPv4 only.              *)

Packets == [by : {"sandbox", "proxy"}, fam : {4, 6}, proto : Protos, dst : Addrs, port : Ports]

\* The interface the first routing decision chose: loopback or the tap.
ToLoopback(pkt) == pkt.fam = 4 /\ Member(pkt.dst, Loopback)

\* Mutant: the proxy's own dials are redirected to the proxy.
Redirected_NoReturn(pkt) ==
    SniEnabled /\ pkt.fam = 4 /\ pkt.proto = "tcp" /\ pkt.port = Https

\* bastanat: the proxy's marked dials return, any other :443 is redirected.
Redirected(pkt) ==
    /\ SniEnabled /\ pkt.fam = 4
    /\ pkt.by # "proxy"
    /\ pkt.proto = "tcp" /\ pkt.port = Https

\* The packet as the filter chain sees it.
AfterNat(pkt) ==
    IF Redirected(pkt) THEN [pkt EXCEPT !.dst = ProxyAddr, !.port = ProxyPort] ELSE pkt

\* Mutant: a rule opens its ports for both protocols.
MatchesRule_AnyProto(pkt, r) ==
    pkt.fam = 4 /\ Member(pkt.dst, r) /\ Contains(r.ports, pkt.port)

MatchesRule(pkt, r) ==
    pkt.fam = 4 /\ Member(pkt.dst, r) /\ pkt.proto = r.proto /\ Contains(r.ports, pkt.port)

SniAddrs == UNION {r.addrs : r \in sni}

\* Mutant: redirected packets are left to the interface rule, but they still
\* carry the interface of their first route.
Accepted_ByInterface(pkt, toLo) ==
    \/ toLo
    \/ /\ SniEnabled /\ pkt.fam = 4 /\ pkt.by = "proxy"
       /\ pkt.dst \in SniAddrs /\ pkt.proto = "tcp" /\ pkt.port = Https
    \/ \E r \in rules : MatchesRule(pkt, r)

\* The filter chain, policy drop; toLo is the route before the redirect.
Accepted(pkt, toLo) ==
    \/ toLo
    \/ /\ SniEnabled /\ pkt.fam = 4
       /\ pkt.dst = ProxyAddr /\ pkt.proto = "tcp" /\ pkt.port = ProxyPort
    \/ /\ SniEnabled /\ pkt.fam = 4 /\ pkt.by = "proxy"
       /\ pkt.dst \in SniAddrs /\ pkt.proto = "tcp" /\ pkt.port = Https
    \/ \E r \in rules : MatchesRule(pkt, r)

\* "dropped", or where it goes: "proxy", "lo" (the sandbox itself) or "out".
Fate(pkt) ==
    IF ~Accepted(AfterNat(pkt), ToLoopback(pkt)) THEN "dropped"
    ELSE IF Redirected(pkt) THEN "proxy"
    ELSE IF ToLoopback(pkt) THEN "lo" ELSE "out"

-----------------------------------------------------------------------------
TypeOK ==
    /\ cmd \in CommandLines
    /\ phase \in {"resolve", "up", "refused"}
    /\ asked \in Seq(SUBSET Addrs)
    /\ \A r \in rules : r.addr \in Addrs /\ r.prefix \in 0..Width /\ r.proto \in Protos
    /\ \A h \in hosts : h[2] \in Addrs
    /\ \A r, s \in sni : r.addrs \subseteq Addrs /\ (r.host = s.host => r = s)

\* What the user said about a packet of the sandbox, whatever the rules are.
AllowedBy(i, pkt) ==
    LET f == cmd.allow[i] IN
    /\ pkt.fam = 4 /\ pkt.proto = f.proto /\ Contains(f.ports, pkt.port)
    /\ CASE f.kind = "addr" -> pkt.dst = f.addr
         [] f.kind = "cidr" -> Member(pkt.dst, f)
         [] f.kind = "name" -> pkt.dst \in asked[i]
         [] OTHER -> FALSE

AllowedAsSni(pkt) ==
    /\ pkt.fam = 4 /\ pkt.proto = "tcp" /\ pkt.port = Https
    /\ \E i \in (Len(cmd.allow) + 1)..Len(asked) : pkt.dst \in asked[i]

\* Nothing leaves but what a flag names: a packet of the sandbox by --allow,
\* and one of the proxy, whatever the proxy was made to dial, by --allow or
\* to an address of an --allow-sni host (egress.rs:278).
OnlyAuthorised ==
    phase = "up" =>
        \A pkt \in Packets : Fate(pkt) = "out" =>
            \/ \E i \in 1..Len(cmd.allow) : AllowedBy(i, pkt)
            \/ pkt.by = "proxy" /\ AllowedAsSni(pkt)

\* No flag and no answer of a resolver opens the link-local block, and none
\* but a literal address or block opens private addresses.
NothingInward ==
    phase = "up" =>
        \A pkt \in Packets : Fate(pkt) = "out" =>
            /\ ~Member(pkt.dst, LinkLocal)
            /\ IsPrivate(pkt.dst) =>
                 \E i \in 1..Len(cmd.allow) :
                    AllowedBy(i, pkt) /\ cmd.allow[i].kind \in {"addr", "cidr"}

\* With --allow-sni every TCP connection of the sandbox to port 443 ends up
\* at the proxy: none leaves by an --allow rule, and none is dropped on the
\* way to the proxy.
HttpsInspected ==
    phase = "up" /\ SniEnabled =>
        \A pkt \in Packets :
            pkt.by = "sandbox" /\ pkt.fam = 4 /\ pkt.proto = "tcp" /\ pkt.port = Https =>
                Fate(pkt) = "proxy"

\* What the user allowed by name works: a client that asks /etc/hosts finds
\* an address at which the flag's ports are open, and the proxy gets through
\* to every outward address of every host it serves.
NamesReachable ==
    phase = "up" =>
        /\ \A i \in 1..Len(cmd.allow) :
              LET f == cmd.allow[i] IN
              f.kind = "name" =>
                 \E h \in hosts :
                    /\ h[1] = f.name
                    /\ \A p \in Ports : Contains(f.ports, p) =>
                          Fate([by |-> "sandbox", fam |-> 4, proto |-> f.proto,
                                dst |-> h[2], port |-> p]) = "out"
        /\ \A r \in sni : \A a \in r.addrs :
              /\ <<r.host, a>> \in hosts
              /\ ~Member(a, Loopback) =>
                    Fate([by |-> "proxy", fam |-> 4, proto |-> "tcp",
                          dst |-> a, port |-> Https]) = "out"
=============================================================================
