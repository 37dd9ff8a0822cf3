------------------------------ MODULE MCEgress ------------------------------
(* The instance of Egress that TLC checks: sixteen addresses.  4 and 5 are  *)
(* private, 8 and 9 loopback, 12 and 13 link-local; port 2 is 443.          *)
EXTENDS Egress, FiniteSets

Spans == [p \in 0..4 |-> 2 ^ (4 - p)]
LoopbackBlock == [addr |-> 8, prefix |-> 3]
LinkLocalBlock == [addr |-> 12, prefix |-> 3]
PrivateBlocks == {[addr |-> 4, prefix |-> 3]}

PortNumbers == {1, 2, 3, 9}

\* No IPv4 address; one or two outward ones; one of each inward class.
ManyAnswers == {{}, {1}, {2, 3}, {4}, {8}, {12}, {1, 13}}

One(p) == [lo |-> p, hi |-> p]
FromTo(p, q) == [lo |-> p, hi |-> q]
F(kind, addr, prefix, name, ports, proto) ==
    [kind |-> kind, addr |-> addr, prefix |-> prefix, name |-> name,
     ports |-> ports, proto |-> proto]

SomePorts == {One(1), One(2), FromTo(1, 3)}

Cidrs == {F("cidr", a, p, "a", r, "tcp") : a \in 0..15, p \in 0..4, r \in SomePorts}
Literals == {F("addr", a, 4, "a", r, t) : a \in 0..15, r \in SomePorts, t \in {"tcp", "udp"}}
ByName == {F("name", 0, 4, n, r, t) : n \in {"a", "b"}, r \in SomePorts, t \in {"tcp", "udp"}}
Bad == {F("bad", 0, 0, "a", One(1), "tcp")}

\* Every flag alone, with and without an SNI host; then flags that meet.
Few == {F("cidr", 5, 3, "a", One(1), "tcp"), F("addr", 1, 4, "a", One(2), "tcp"),
        F("addr", 4, 4, "a", One(2), "udp"), F("name", 0, 4, "a", One(1), "tcp"),
        F("name", 0, 4, "a", One(3), "tcp"), F("name", 0, 4, "b", One(3), "udp")}

ManyCommands ==
    {[allow |-> <<f>>, sni |-> s] : f \in Cidrs \cup Literals \cup ByName \cup Bad,
                                    s \in {<<>>, <<"a">>}}
      \cup {[allow |-> <<f, g>>, sni |-> s] : f, g \in Few, s \in {<<>>, <<"b", "a", "b">>}}
      \cup {[allow |-> <<>>, sni |-> s] : s \in {<<"a">>, <<"a", "a">>, <<"a", "b">>}}
=============================================================================
