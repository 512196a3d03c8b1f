---------------------------- MODULE MCGatewayConfig ----------------------------
(* GatewayConfig with addresses of two bits: a client (1) and two proxies      *)
(* (2, 3) of one network (2/1); documents with every kind of mistake in their   *)
(* networks, and others with one in the rest.                                   *)
EXTENDS GatewayConfig

Cidr(a, b)  == [addr |-> a, bits |-> b, form |-> "plain"]
Mapped(a, b) == [addr |-> a, bits |-> b, form |-> "mapped"]
BadCidr     == [addr |-> 0, bits |-> 0, form |-> "malformed"]

MCHosts   == {1, 2, 3}
MCTrusted == {<<>>, <<Cidr(2, 1)>>, <<Cidr(2, 2)>>, <<Cidr(2, 2), Cidr(3, 2)>>, <<Cidr(3, 1)>>,
              <<Mapped(2, 1)>>, <<Cidr(2, 2), BadCidr>>, <<Cidr(2, 2), Cidr(2, 2)>>}
MCAllowed == {<<>>, <<Cidr(1, 2)>>, <<Cidr(2, 1)>>, <<Cidr(0, 0)>>, <<Cidr(1, 2), Cidr(3, 2)>>,
              <<Cidr(3, 1)>>, <<Mapped(1, 2)>>, <<BadCidr>>}
\* Up to two entries, on one line or on two, with blank lines before, between and
\* after them.
MCShapes  == {<<>>, <<0>>, <<1>>, <<2>>, <<0, 0>>, <<0, 1>>, <<1, 0>>, <<1, 1>>, <<2, 0>>,
              <<0, 2>>, <<1, 0, 1>>}

In(ns, n)      == [namespace |-> ns, name |-> n]
Exp(n, s, a)   == [name |-> n, source |-> s, auth |-> a, valid |-> TRUE]
At(h, p)       == [host |-> h, spelling |-> 0, port |-> p, zeros |-> 0]
ByName(l)      == [l EXCEPT !.spelling = 1]     \* by a host name
Padded(l)      == [l EXCEPT !.zeros = 1]        \* with a port such as 08080
Plain ==
    [defaultNamespace |-> "n1", metricsAuth |-> In(Blank, "t"), server |-> Absent,
     exposures |-> <<Exp("e1", In(Blank, "s"), In("n2", "t"))>>, metrics |-> Absent,
     trustedProxies |-> <<Cidr(2, 1)>>, allowedCidrs |-> <<Cidr(1, 2)>>, valid |-> TRUE]

Networks ==
    {[Plain EXCEPT !.trustedProxies = t, !.allowedCidrs = a] : t \in MCTrusted, a \in MCAllowed}

\* Secrets that are shared, by exposures and by the metrics, and namespaces left out.
Sharing ==
    {[Plain EXCEPT !.defaultNamespace = d, !.metricsAuth = m,
                   !.exposures = <<Exp(n, In("n1", "s"), In(ns, "t")),
                                   Exp("e2", In("n2", "s"), In("n1", "t"))>>] :
        d \in {"n1", Blank, Wrong}, m \in {NoAuth, In("n1", "t"), In(Blank, "t")},
        n \in {"e1", "e2", Wrong}, ns \in {"n1", Blank}}

Listeners ==
    {[Plain EXCEPT !.server = l, !.metrics = m] :
        l \in {At("ip1", 8080), At(Wildcard, 8081), At("ip1", 0), ByName(At("ip1", 8080)),
               Padded(At(Wildcard, 8080))},
        m \in {Absent, At("ip1", 8080), At("ip2", 8080), At(Wildcard, 8080), At(Wrong, 8081),
               ByName(At("ip1", 8080)), Padded(At("ip1", 8080))}}

Incomplete ==
    {[Plain EXCEPT !.exposures = <<>>], [Plain EXCEPT !.valid = FALSE],
     [Plain EXCEPT !.exposures[1].source.name = Blank],
     [Plain EXCEPT !.exposures[1].auth = In(Wrong, "t")],
     [Plain EXCEPT !.exposures[1].valid = FALSE], [Plain EXCEPT !.exposures[1].name = Blank]}

MCDocuments == Networks \cup Sharing \cup Listeners \cup Incomplete
=============================================================================
