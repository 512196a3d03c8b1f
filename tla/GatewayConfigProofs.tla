------------------------- MODULE GatewayConfigProofs -------------------------
(***************************************************************************)
(* Proofs about ClientIP, as a part of GatewayConfig, for any networks,    *)
(* documents and addresses and for headers with any number of lines and    *)
(* entries: Resolve finds the originator of a request, and a request is    *)
(* let in exactly when the configuration lists that address.               *)
(* And about the rest of GatewayConfig, for documents with any number of   *)
(* exposures: what is built from an accepted one is what it names.         *)
(***************************************************************************)
EXTENDS GatewayConfig, SequenceTheorems, FiniteSetTheorems, TLAPS

-----------------------------------------------------------------------------
(* The networks.                                                           *)

Configured == stage \notin {"config", "refused"}

\* The networks in use are those of the configuration, and every one of them is one.
NetworkInv ==
    Configured =>
        /\ trusted = ToSet(trustedProxies) /\ allowed = ToSet(allowedCidrs)
        /\ \A t \in trusted \cup allowed : ParsePrefix(t)

Plain(a) == [host |-> a.host, form |-> "plain"]

\* normalize leaves the address and drops how it was written.
LEMMA NormalizeIsPlain ==
    ASSUME NEW a \in Entries
    PROVE  normalize(a) = Plain(a) /\ normalize(Plain(a)) = Plain(a)
BY DEF Entries, Malformed, Forms, normalize, Plain

\* In an accepted configuration the networks that contain an address are those that
\* list it.
LEMMA ContainsListed ==
    ASSUME NEW texts, \A t \in ToSet(texts) : ParsePrefix(t), NEW a, a.host \in Hosts
    PROVE  (\E t \in ToSet(texts) : PrefixContains(t, Plain(a))) <=> a.host \in ListedIn(texts)
<1>1. ASSUME NEW t \in ToSet(texts)
      PROVE  PrefixContains(t, Plain(a)) <=> a.host \in Listed(t)
  BY <1>1 DEF PrefixContains, Plain, ParsePrefix, Listed
<1> QED
  BY <1>1 DEF ListedIn

\* isTrusted is true of the addresses the trusted proxies list.
LEMMA TrustedIsListed ==
    ASSUME NetworkInv, Configured, NEW a \in Entries, a # Malformed
    PROVE  isTrusted(normalize(a)) <=> a.host \in ListedIn(trustedProxies)
<1>1. a.host \in Hosts
  BY DEF Entries
<1> QED
  BY <1>1, ContainsListed, NormalizeIsPlain DEF isTrusted, NetworkInv

\* AllowsClient is true of the addresses the allowed networks list.
LEMMA AllowedIsListed ==
    ASSUME NetworkInv, Configured, NEW a \in Entries, a # Malformed
    PROVE  AllowsClient(Plain(a)) <=> a.host \in ListedIn(allowedCidrs)
<1>1. a.host \in Hosts
  BY DEF Entries
<1> QED
  BY <1>1, ContainsListed, NormalizeIsPlain DEF AllowsClient, NetworkInv

-----------------------------------------------------------------------------
(* The hops.                                                               *)

Asked == stage \in {"peer", "walk", "check", "allowed", "denied"}

RequestInv == Asked => remote \in Entries /\ values \in Seq(Seq(Entries))

\* Every header is a sequence of lines.
LEMMA HeadersAreLines == Headers \subseteq Seq(Seq(Entries))
<1> SUFFICES ASSUME NEW s \in Shapes, NEW h \in Shaped(s)
             PROVE  h \in Seq(Seq(Entries))
  BY DEF Headers
<1>1. s \in Seq(Nat)
  BY ClientIPAssumption
<1>2. DOMAIN s = 1..Len(s) /\ Len(s) \in Nat
  BY <1>1
<1>3. \A k \in 1..Len(s) : h[k] \in Seq(Entries)
  <2> SUFFICES ASSUME NEW k \in 1..Len(s) PROVE h[k] \in Seq(Entries)
    OBVIOUS
  <2>1. s[k] \in Nat /\ h[k] \in [1..s[k] -> Entries]
    BY <1>1, <1>2 DEF Shaped, Lines
  <2> QED
    BY <2>1, SeqDef
<1>4. h \in [1..Len(s) -> Seq(Entries)]
  BY <1>2, <1>3 DEF Shaped
<1> QED
  BY <1>2, <1>4, SeqDef

\* The route is the header and the peer, on a line of its own at the end.
LEMMA RouteLines ==
    ASSUME remote \in Entries, values \in Seq(Seq(Entries))
    PROVE  /\ Len(values) \in Nat
           /\ DOMAIN Route = 1..(Len(values) + 1)
           /\ \A k \in 1..Len(values) : Route[k] = values[k]
           /\ Route[Len(values) + 1] = <<remote>>
           /\ \A k \in DOMAIN Route :
                /\ Len(Route[k]) \in Nat /\ DOMAIN Route[k] = 1..Len(Route[k])
                /\ \A m \in DOMAIN Route[k] : Route[k][m] \in Entries
<1>1. <<remote>> \in Seq(Entries)
  OBVIOUS
<1>2. Route \in Seq(Seq(Entries)) /\ Len(Route) = Len(values) + 1
  BY <1>1 DEF Route
<1>3. /\ \A k \in 1..Len(values) : Route[k] = values[k]
      /\ Route[Len(values) + 1] = <<remote>>
  BY <1>1 DEF Route
<1>4. Len(values) \in Nat /\ DOMAIN Route = 1..(Len(values) + 1)
  BY <1>2
<1>5. ASSUME NEW k \in DOMAIN Route
      PROVE  /\ Len(Route[k]) \in Nat /\ DOMAIN Route[k] = 1..Len(Route[k])
             /\ \A m \in DOMAIN Route[k] : Route[k][m] \in Entries
  <2>1. Route[k] \in Seq(Entries)
    BY <1>2
  <2> QED
    BY <2>1
<1> QED
  BY <1>3, <1>4, <1>5

\* The places of the hops.
LEMMA HopPlaces ==
    ASSUME remote \in Entries, values \in Seq(Seq(Entries))
    PROVE  /\ \A p \in Hops :
                /\ p = <<p[1], p[2]>>
                /\ p[1] \in 1..(Len(values) + 1) /\ p[2] \in 1..Len(Route[p[1]])
                /\ p[1] \in Nat /\ p[2] \in Nat
                /\ Hop(p) \in Entries
           /\ \A k \in 1..(Len(values) + 1) : \A m \in 1..Len(Route[k]) :
                <<k, m>> \in Hops /\ Hop(<<k, m>>) = Route[k][m]
<1>1. ASSUME NEW p \in Hops
      PROVE  /\ p = <<p[1], p[2]>>
             /\ p[1] \in 1..(Len(values) + 1) /\ p[2] \in 1..Len(Route[p[1]])
             /\ p[1] \in Nat /\ p[2] \in Nat
             /\ Hop(p) \in Entries
  <2>1. PICK k \in DOMAIN Route : \E m \in DOMAIN Route[k] : p = <<k, m>>
    BY DEF Hops
  <2>2. PICK m \in DOMAIN Route[k] : p = <<k, m>>
    BY <2>1
  <2> QED
    BY <2>2, RouteLines DEF Hop
<1>2. ASSUME NEW k \in 1..(Len(values) + 1), NEW m \in 1..Len(Route[k])
      PROVE  <<k, m>> \in Hops /\ Hop(<<k, m>>) = Route[k][m]
  BY RouteLines DEF Hops, Hop
<1> QED
  BY <1>1, <1>2

\* A request has one originator.
LEMMA OriginatorUnique ==
    ASSUME remote \in Entries, values \in Seq(Seq(Entries)),
           NEW p \in Hops, NEW q \in Hops, Originator(p), Originator(q)
    PROVE  p = q
<1>1. p = <<p[1], p[2]>> /\ q = <<q[1], q[2]>>
      /\ p[1] \in Nat /\ p[2] \in Nat /\ q[1] \in Nat /\ q[2] \in Nat
  BY HopPlaces
<1>2. ~RightOf(p, q) /\ ~RightOf(q, p)
  BY DEF Originator
<1> QED
  BY <1>1, <1>2 DEF RightOf

-----------------------------------------------------------------------------
(* The walk.                                                               *)

\* The hops that have been looked at: those to the right of what is left of the line.
Seen(p) == p[1] > i + 1 \/ (p[1] = i + 1 /\ p[2] > Len(line))

\* Before the walk.
PeerInv ==
    stage \in {"config", "refused", "idle", "peer"} =>
        /\ line = <<>> /\ client = NoAddr
        /\ stage = "peer" => i = Len(values)

\* Where the walk is...
PlaceInv ==
    stage = "walk" =>
        /\ i \in 0..Len(values)
        /\ line \in Seq(Entries)
        /\ Len(line) <= Len(Route[i + 1])
        /\ \A m \in 1..Len(line) : line[m] = Route[i + 1][m]

\* ...and what it has found: only trusted proxies, the last of which is the client.
WalkInv ==
    stage = "walk" =>
        /\ \A q \in Hops : Seen(q) => Proxy(q)
        /\ \E p \in Hops :
            /\ Seen(p)
            /\ client = Plain(Hop(p))
            /\ \A q \in Hops : Seen(q) => ~RightOf(p, q)

ResolveInv ==
    /\ NetworkInv /\ RequestInv /\ PeerInv /\ PlaceInv /\ WalkInv
    /\ ResolvesOriginator /\ AdmitsListed

\* While the request and the configuration stay, so do the hops and what they are.
LEMMA HopsStay ==
    ASSUME UNCHANGED <<configVars, requestVars>>
    PROVE  /\ Hops' = Hops /\ Route' = Route
           /\ \A p : Hop(p)' = Hop(p) /\ Proxy(p)' = Proxy(p)
                     /\ Originator(p)' = Originator(p)
BY DEF configVars, requestVars, Hops, Route, Hop, Proxy, Originator

\* The configuration is loaded or refused.
LEMMA LoadStep ==
    ASSUME ResolveInv, Load
    PROVE  ResolveInv'
BY DEF Load, ResolveInv, NetworkInv, Configured, prefixes, ToSet, RequestInv, Asked,
       PeerInv, PlaceInv, WalkInv, ResolvesOriginator, AdmitsListed, requestVars

\* Another part of the document is refused.
LEMMA RefuseStep ==
    ASSUME ResolveInv, stage = "config", stage' = "refused",
           UNCHANGED <<configVars, requestVars, i, line, client, result>>
    PROVE  ResolveInv'
BY DEF ResolveInv, NetworkInv, Configured, RequestInv, Asked, PeerInv, PlaceInv, WalkInv,
       ResolvesOriginator, AdmitsListed

\* A request that arrives has its lines, and nothing of them was looked at.
LEMMA ArriveStep ==
    ASSUME ResolveInv, Arrive
    PROVE  ResolveInv'
<1>1. RequestInv'
  BY HeadersAreLines DEF Arrive, RequestInv
<1> QED
  BY <1>1 DEF Arrive, ResolveInv, NetworkInv, Configured, configVars, PeerInv, PlaceInv,
              WalkInv, ResolvesOriginator, AdmitsListed

\* Returning from Resolve at the originator.
LEMMA ReturnStep ==
    ASSUME ResolveInv, Asked, NEW r, Return(r), UNCHANGED <<configVars, requestVars>>,
           NEW p \in Hops, Originator(p),
           IF Hop(p) = Malformed THEN client' = NoAddr /\ r # "ok"
           ELSE client' = Plain(Hop(p)) /\ r = "ok"
    PROVE  ResolveInv'
<1>1. NetworkInv' /\ RequestInv'
  BY DEF ResolveInv, NetworkInv, Configured, RequestInv, Asked, Return, configVars,
         requestVars
<1>2. PeerInv' /\ PlaceInv' /\ WalkInv' /\ AdmitsListed'
  BY DEF Return, PeerInv, PlaceInv, WalkInv, AdmitsListed
<1>3. ResolvesOriginator'
  BY HopsStay DEF Return, ResolvesOriginator, Plain
<1> QED
  BY <1>1, <1>2, <1>3 DEF ResolveInv

\* The peer is the first hop that is looked at.
LEMMA PeerStep ==
    ASSUME ResolveInv, Peer
    PROVE  ResolveInv'
<1>0. PICK p : p = <<Len(values) + 1, 1>>
  OBVIOUS
<1>1. /\ UNCHANGED <<configVars, requestVars>> /\ UNCHANGED <<i, line>>
      /\ stage = "peer" /\ Configured /\ Asked
  BY DEF Peer, Configured, Asked
<1>2. /\ remote \in Entries /\ values \in Seq(Seq(Entries))
      /\ i = Len(values) /\ line = <<>> /\ client = NoAddr
  BY <1>1 DEF ResolveInv, RequestInv, PeerInv
<1>3. p \in Hops /\ Hop(p) = remote
  <2>1. Len(values) \in Nat /\ Route[Len(values) + 1] = <<remote>>
    BY <1>2, RouteLines
  <2>2. Len(values) + 1 \in 1..(Len(values) + 1) /\ 1 \in 1..Len(Route[Len(values) + 1])
    BY <2>1
  <2>3. p \in Hops /\ Hop(p) = Route[Len(values) + 1][1]
    BY <1>0, <1>2, <2>2, HopPlaces
  <2> QED
    BY <2>1, <2>3
<1>4. \A q \in Hops : ~RightOf(q, p)
  <2> SUFFICES ASSUME NEW q \in Hops, RightOf(q, p) PROVE FALSE
    OBVIOUS
  <2>1. q[1] \in 1..(Len(values) + 1) /\ q[2] \in 1..Len(Route[q[1]])
    BY <1>2, HopPlaces
  <2>2. q[1] = Len(values) + 1
    <3>1. Len(values) \in Nat /\ p[1] = Len(values) + 1
      BY <1>0, <1>2
    <3> QED
      BY <2>1, <3>1 DEF RightOf
  <2>3. Len(Route[q[1]]) = 1
    <3>1. Route[Len(values) + 1] = <<remote>>
      BY <1>2, RouteLines
    <3> QED
      BY <2>2, <3>1
  <2> QED
    BY <1>0, <2>1, <2>2, <2>3 DEF RightOf
<1>5. CASE remote = Malformed
  <2>1. Return("ErrInvalidRemoteAddr") /\ client' = NoAddr
    BY <1>2, <1>5 DEF Peer
  <2>2. Originator(p)
    BY <1>3, <1>4, <1>5 DEF Originator, Proxy
  <2> QED
    BY <1>1, <1>3, <1>5, <2>1, <2>2, ReturnStep
<1>6. CASE remote # Malformed
  <2>1. /\ client' = Plain(remote)
        /\ isTrusted(normalize(remote)) <=> Proxy(p)
        /\ IF isTrusted(normalize(remote)) THEN Continue ELSE Return("ok")
    BY <1>1, <1>2, <1>3, <1>6, NormalizeIsPlain, TrustedIsListed
    DEF Peer, Proxy, ResolveInv
  <2>2. CASE ~Proxy(p)
    BY <1>1, <1>3, <1>4, <1>6, <2>1, <2>2, ReturnStep DEF Originator
  <2>3. CASE Proxy(p)
    <3>1. stage' = "walk" /\ i' = Len(values) /\ line' = <<>>
      BY <1>1, <1>2, <2>1, <2>3 DEF Continue
    <3>2. Len(values) \in Nat /\ Len(line') = 0
      BY <1>2, <3>1
    <3>3. \A q \in Hops : Seen(q)' <=> q = p
      <4> SUFFICES ASSUME NEW q \in Hops PROVE Seen(q)' <=> q = p
        OBVIOUS
      <4>1. /\ q = <<q[1], q[2]>> /\ q[1] \in 1..(Len(values) + 1)
            /\ q[2] \in 1..Len(Route[q[1]])
        BY <1>2, HopPlaces
      <4>2. q[1] = Len(values) + 1 => q[2] = 1
        <5>1. Route[Len(values) + 1] = <<remote>>
          BY <1>2, RouteLines
        <5> QED
          BY <4>1, <5>1
      <4> QED
        BY <1>0, <3>1, <3>2, <4>1, <4>2 DEF Seen
    <3>4. NetworkInv' /\ RequestInv'
      BY <1>1, <3>1 DEF ResolveInv, NetworkInv, Configured, RequestInv, Asked, configVars,
                        requestVars
    <3>5. PeerInv' /\ AdmitsListed' /\ ResolvesOriginator'
      BY <3>1 DEF PeerInv, AdmitsListed, ResolvesOriginator
    <3>6. PlaceInv'
      <4>1. i' \in 0..Len(values') /\ line' \in Seq(Entries)
        BY <1>1, <3>1, <3>2 DEF requestVars
      <4>2. Len(line') <= Len(Route[Len(values) + 1])
        <5>1. Route[Len(values) + 1] = <<remote>>
          BY <1>2, RouteLines
        <5> QED
          BY <3>2, <5>1
      <4>3. Route' = Route
        BY <1>1, HopsStay
      <4> QED
        BY <3>1, <3>2, <4>1, <4>2, <4>3 DEF PlaceInv
    <3>7. WalkInv'
      <4>1. \A q \in Hops' : Seen(q)' => Proxy(q)'
        BY <1>1, <2>3, <3>3, HopsStay
      <4>2. p \in Hops' /\ Seen(p)' /\ client' = Plain(Hop(p)')
        BY <1>1, <1>3, <2>1, <3>3, HopsStay
      <4>3. \A q \in Hops' : Seen(q)' => ~RightOf(p, q)
        BY <1>1, <1>3, <1>4, <3>3, HopsStay
      <4> QED
        BY <4>1, <4>2, <4>3 DEF WalkInv, RightOf, Plain
    <3> QED
      BY <3>4, <3>5, <3>6, <3>7 DEF ResolveInv
  <2> QED
    BY <2>2, <2>3
<1> QED
  BY <1>5, <1>6

\* The next line to the left is opened: no hop is passed, blank or not.
LEMMA LineStep ==
    ASSUME ResolveInv, Line
    PROVE  ResolveInv'
<1>1. /\ UNCHANGED <<configVars, requestVars>> /\ UNCHANGED <<client, result, stage>>
      /\ stage = "walk" /\ line = <<>> /\ line' = values[i] /\ i' = i - 1
  BY DEF Line
<1>2. /\ remote \in Entries /\ values \in Seq(Seq(Entries))
      /\ i \in 1..Len(values)
  BY <1>1 DEF ResolveInv, RequestInv, Asked, PlaceInv, Line
<1>3. values[i] \in Seq(Entries) /\ Route[i] = values[i] /\ Route' = Route
  BY <1>1, <1>2, RouteLines, HopsStay
<1>4. \A q \in Hops : Seen(q)' <=> Seen(q)
  <2> SUFFICES ASSUME NEW q \in Hops PROVE Seen(q)' <=> Seen(q)
    OBVIOUS
  <2>1. q[1] \in Nat /\ q[2] \in 1..Len(Route[q[1]])
    BY <1>2, HopPlaces
  <2>2. Len(line) = 0 /\ Len(line') = Len(Route[i]) /\ Len(line') \in Nat
    BY <1>1, <1>3
  <2>3. q[1] = i => q[2] \in 1..Len(Route[i])
    BY <2>1
  <2> QED
    BY <1>1, <1>2, <2>1, <2>2, <2>3 DEF Seen
<1>5. PlaceInv'
  <2>1. i' \in 0..Len(values') /\ i' + 1 = i
    BY <1>1, <1>2 DEF requestVars
  <2>2. line' \in Seq(Entries) /\ line' = Route'[i' + 1] /\ Len(line') \in Nat
    BY <1>1, <1>3, <2>1
  <2> QED
    BY <2>1, <2>2 DEF PlaceInv
<1>6. WalkInv'
  <2>1. \A q \in Hops' : Seen(q)' => Proxy(q)'
    BY <1>1, <1>4, HopsStay DEF ResolveInv, WalkInv
  <2>2. PICK p \in Hops : /\ Seen(p) /\ client = Plain(Hop(p))
                          /\ \A q \in Hops : Seen(q) => ~RightOf(p, q)
    BY <1>1 DEF ResolveInv, WalkInv
  <2>3. /\ p \in Hops' /\ Seen(p)' /\ client' = Plain(Hop(p)')
        /\ \A q \in Hops' : Seen(q)' => ~RightOf(p, q)
    BY <1>1, <1>4, <2>2, HopsStay
  <2> QED
    BY <2>1, <2>3 DEF WalkInv, RightOf, Plain
<1>7. NetworkInv' /\ RequestInv' /\ PeerInv' /\ ResolvesOriginator' /\ AdmitsListed'
  BY <1>1 DEF ResolveInv, NetworkInv, Configured, RequestInv, Asked, PeerInv, configVars,
              requestVars, ResolvesOriginator, AdmitsListed
<1> QED
  BY <1>5, <1>6, <1>7 DEF ResolveInv

\* Taking the last entry off what is left of a line.
LEMMA FrontLast ==
    ASSUME NEW s \in Seq(Entries), s # <<>>
    PROVE  /\ Len(s) \in Nat \ {0} /\ Last(s) = s[Len(s)] /\ Last(s) \in Entries
           /\ Front(s) \in Seq(Entries) /\ Len(Front(s)) = Len(s) - 1
           /\ \A m \in 1..(Len(s) - 1) : Front(s)[m] = s[m]
<1>1. Len(s) \in Nat \ {0}
  OBVIOUS
<1>2. Last(s) = s[Len(s)] /\ Last(s) \in Entries
  BY <1>1 DEF Last
<1>3. \A m \in 1..(Len(s) - 1) : s[m] \in Entries
  BY <1>1
<1>4. /\ Front(s) \in Seq(Entries) /\ Len(Front(s)) = Len(s) - 1
      /\ \A m \in 1..(Len(s) - 1) : Front(s)[m] = s[m]
  <2> DEFINE l == Len(s) - 1
  <2>1. l \in Nat /\ 1 \in Int /\ l \in Int
    BY <1>1
  <2>2. /\ SubSeq(s, 1, l) \in Seq(Entries)
        /\ Len(SubSeq(s, 1, l)) = IF 1 <= l THEN l - 1 + 1 ELSE 0
        /\ \A m \in 1..(l - 1 + 1) : SubSeq(s, 1, l)[m] = s[1 + m - 1]
    <3>1. \A m \in 1..l : s[m] \in Entries
      BY <1>3
    <3> HIDE DEF l
    <3> QED
      BY <2>1, <3>1, SubSeqProperties
  <2>3. Front(s) = SubSeq(s, 1, l)
    BY DEF Front
  <2> HIDE DEF l
  <2>4. Front(s) \in Seq(Entries) /\ Len(Front(s)) = l
    BY <2>1, <2>2, <2>3
  <2>5. ASSUME NEW m \in 1..l PROVE Front(s)[m] = s[m]
    <3>1. m \in 1..(l - 1 + 1) /\ 1 + m - 1 = m
      BY <2>1
    <3> QED
      BY <2>2, <2>3, <3>1
  <2> QED
    BY <2>4, <2>5 DEF l
<1> QED
  BY <1>1, <1>2, <1>4

\* An entry is the next hop to the left of those that were looked at.
LEMMA EntryStep ==
    ASSUME ResolveInv, Entry
    PROVE  ResolveInv'
<1>0. PICK p : p = <<i + 1, Len(line)>>
  OBVIOUS
<1>1. /\ UNCHANGED <<configVars, requestVars>> /\ i' = i
      /\ stage = "walk" /\ Configured /\ Asked /\ line # <<>> /\ line' = Front(line)
  BY DEF Entry, Configured, Asked
<1>2. /\ remote \in Entries /\ values \in Seq(Seq(Entries))
      /\ i \in 0..Len(values) /\ i \in Nat /\ line \in Seq(Entries)
      /\ Len(line) \in 1..Len(Route[i + 1])
  BY <1>1, FrontLast DEF ResolveInv, RequestInv, PlaceInv
<1>3. p \in Hops /\ Hop(p) = Last(line) /\ Last(line) \in Entries
  <2>1. i + 1 \in 1..(Len(values) + 1)
    BY <1>2
  <2>2. p \in Hops /\ Hop(p) = Route[i + 1][Len(line)]
    BY <1>0, <1>2, <2>1, HopPlaces
  <2>3. Route[i + 1][Len(line)] = line[Len(line)]
    BY <1>1, <1>2 DEF ResolveInv, PlaceInv
  <2> QED
    BY <1>1, <1>2, <2>2, <2>3, FrontLast
<1>4. p[1] = i + 1 /\ p[2] = Len(line) /\ Len(line) \in Nat \ {0}
  BY <1>0, <1>1, <1>2, FrontLast
<1>5. \A q \in Hops : (RightOf(q, p) <=> Seen(q)) /\ (Seen(q) => Proxy(q))
  BY <1>1, <1>4 DEF RightOf, Seen, ResolveInv, WalkInv
<1>6. CASE Last(line) = Malformed
  <2>1. Return("ErrMalformedForwardedFor") /\ client' = NoAddr
    BY <1>6 DEF Entry
  <2>2. Originator(p)
    BY <1>3, <1>5, <1>6 DEF Originator, Proxy
  <2> QED
    BY <1>1, <1>3, <1>6, <2>1, <2>2, ReturnStep
<1>7. CASE Last(line) # Malformed
  <2>1. /\ client' = Plain(Last(line))
        /\ isTrusted(normalize(Last(line))) <=> Proxy(p)
        /\ IF isTrusted(normalize(Last(line))) THEN Continue ELSE Return("ok")
    BY <1>1, <1>3, <1>7, NormalizeIsPlain, TrustedIsListed DEF Entry, Proxy, ResolveInv
  <2>2. CASE ~Proxy(p)
    BY <1>1, <1>3, <1>5, <1>7, <2>1, <2>2, ReturnStep DEF Originator
  <2>3. CASE Proxy(p)
    <3>1. stage' = "walk"
      BY <2>1, <2>3 DEF Continue
    <3>2. /\ line' \in Seq(Entries) /\ Len(line') = Len(line) - 1
          /\ \A m \in 1..(Len(line) - 1) : line'[m] = line[m]
      BY <1>1, <1>2, FrontLast
    <3>3. \A q \in Hops : Seen(q)' <=> Seen(q) \/ q = p
      <4> SUFFICES ASSUME NEW q \in Hops PROVE Seen(q)' <=> Seen(q) \/ q = p
        OBVIOUS
      <4>1. q = <<q[1], q[2]>> /\ q[1] \in Nat /\ q[2] \in Nat
        BY <1>2, HopPlaces
      <4>2. q = p <=> q[1] = i + 1 /\ q[2] = Len(line)
        BY <1>0, <4>1
      <4> QED
        BY <1>1, <1>2, <1>4, <3>2, <4>1, <4>2 DEF Seen
    <3>4. PlaceInv'
      <4>1. /\ i' \in 0..Len(values') /\ Route' = Route /\ i' + 1 = i + 1
            /\ Len(line') <= Len(Route[i + 1])
        BY <1>1, <1>2, <1>4, <3>2, HopsStay DEF requestVars, ResolveInv, PlaceInv
      <4>2. \A m \in 1..Len(line') : line'[m] = Route[i + 1][m]
        BY <1>1, <1>4, <3>2 DEF ResolveInv, PlaceInv
      <4> QED
        BY <3>2, <4>1, <4>2 DEF PlaceInv
    <3>5. WalkInv'
      <4>1. \A q \in Hops' : Seen(q)' => Proxy(q)'
        BY <1>1, <1>5, <2>3, <3>3, HopsStay
      <4>2. p \in Hops' /\ Seen(p)' /\ client' = Plain(Hop(p)')
        BY <1>1, <1>3, <2>1, <3>3, HopsStay
      <4>3. \A q \in Hops' : Seen(q)' => ~RightOf(p, q)
        <5> SUFFICES ASSUME NEW q \in Hops, Seen(q) \/ q = p, RightOf(p, q) PROVE FALSE
          BY <1>1, <3>3, HopsStay
        <5>1. q[1] \in Nat /\ q[2] \in Nat /\ p[1] \in Nat /\ p[2] \in Nat
          BY <1>2, <1>3, HopPlaces
        <5>2. RightOf(q, p) \/ q = p
          BY <1>5
        <5> QED
          BY <5>1, <5>2 DEF RightOf
      <4> QED
        BY <4>1, <4>2, <4>3 DEF WalkInv, RightOf, Plain
    <3>6. NetworkInv' /\ RequestInv' /\ PeerInv' /\ ResolvesOriginator' /\ AdmitsListed'
      BY <1>1, <3>1 DEF ResolveInv, NetworkInv, Configured, RequestInv, Asked, PeerInv,
                        configVars, requestVars, ResolvesOriginator, AdmitsListed
    <3> QED
      BY <3>4, <3>5, <3>6 DEF ResolveInv
  <2> QED
    BY <2>2, <2>3
<1> QED
  BY <1>6, <1>7

\* At the end of the header every hop has been seen.
LEMMA ExhaustedStep ==
    ASSUME ResolveInv, Exhausted
    PROVE  ResolveInv'
<1>1. /\ UNCHANGED <<configVars, requestVars>> /\ client' = client /\ Return("ok")
      /\ stage = "walk" /\ Asked /\ line = <<>> /\ i = 0
  BY DEF Exhausted, Asked
<1>2. remote \in Entries /\ values \in Seq(Seq(Entries))
  BY <1>1 DEF ResolveInv, RequestInv
<1>3. \A q \in Hops : Seen(q) /\ Proxy(q)
  <2>1. \A q \in Hops : q[1] \in 1..(Len(values) + 1) /\ q[2] \in 1..Len(Route[q[1]])
                        /\ q[1] \in Nat /\ q[2] \in Nat
    BY <1>2, HopPlaces
  <2>2. Len(line) = 0
    BY <1>1
  <2>3. \A q \in Hops : Seen(q)
    BY <1>1, <2>1, <2>2 DEF Seen
  <2> QED
    BY <1>1, <2>3 DEF ResolveInv, WalkInv
<1>4. PICK p \in Hops : client = Plain(Hop(p)) /\ \A q \in Hops : ~RightOf(p, q)
  BY <1>1, <1>3 DEF ResolveInv, WalkInv
<1>5. Originator(p) /\ Hop(p) # Malformed
  BY <1>3, <1>4 DEF Originator, Proxy
<1> QED
  BY <1>1, <1>4, <1>5, ReturnStep

\* The handler's decision.
LEMMA CheckStep ==
    ASSUME ResolveInv, Check
    PROVE  ResolveInv'
<1>1. /\ UNCHANGED <<configVars, requestVars>> /\ stage = "check" /\ Configured /\ Asked
      /\ stage' = IF result = "ok" /\ AllowsClient(client) THEN "allowed" ELSE "denied"
  BY DEF Check, Configured, Asked
<1>2. remote \in Entries /\ values \in Seq(Seq(Entries))
  BY <1>1 DEF ResolveInv, RequestInv
<1>3. PICK p \in Hops :
        /\ Originator(p)
        /\ IF Hop(p) = Malformed
           THEN client = NoAddr /\ result # "ok"
           ELSE client = Plain(Hop(p)) /\ result = "ok"
  BY <1>1 DEF ResolveInv, ResolvesOriginator, Plain
<1>4. Hop(p) \in Entries
  BY <1>2, HopPlaces
<1>5. stage' = "allowed" <=>
        Hop(p) # Malformed /\ Hop(p).host \in ListedIn(allowedCidrs)
  BY <1>1, <1>3, <1>4, AllowedIsListed DEF ResolveInv
<1>6. AdmitsListed'
  <2>1. ListedIn(allowedCidrs)' = ListedIn(allowedCidrs)
    BY <1>1 DEF configVars, ListedIn
  <2> QED
    BY <1>1, <1>3, <1>5, <2>1, HopsStay DEF AdmitsListed
<1>7. /\ NetworkInv' /\ RequestInv' /\ PeerInv' /\ PlaceInv' /\ WalkInv'
      /\ ResolvesOriginator'
  BY <1>1 DEF ResolveInv, NetworkInv, Configured, RequestInv, Asked, PeerInv, PlaceInv,
              WalkInv, configVars, requestVars, ResolvesOriginator
<1> QED
  BY <1>6, <1>7 DEF ResolveInv

\* The invariant of the walk.
LEMMA ResolveInvariance == ConfigSpec => []ResolveInv
<1>1. ConfigInit => ResolveInv
  BY DEF ConfigInit, Init, ResolveInv, NetworkInv, Configured, RequestInv, Asked, PeerInv,
         PlaceInv, WalkInv, ResolvesOriginator, AdmitsListed
<1>2. ASSUME ResolveInv, [ConfigNext]_configState PROVE ResolveInv'
  <2>1. CASE Configure
    BY <1>2, <2>1, LoadStep, RefuseStep DEF Configure
  <2>2. CASE Handle
    BY <1>2, <2>2, ArriveStep, PeerStep, LineStep, EntryStep, ExhaustedStep, CheckStep
    DEF Handle
  <2>3. CASE UNCHANGED vars
    <3>1. UNCHANGED <<configVars, requestVars>> /\ UNCHANGED <<i, line, client, result, stage>>
      BY <2>3 DEF vars
    <3>2. NetworkInv' /\ RequestInv' /\ PeerInv'
      BY <1>2, <3>1 DEF configVars, requestVars, ResolveInv, NetworkInv, Configured,
                        RequestInv, Asked, PeerInv
    <3>3. PlaceInv' /\ WalkInv'
      BY <1>2, <3>1, HopsStay DEF requestVars, ResolveInv, PlaceInv, WalkInv, Seen, RightOf,
                                  Plain
    <3>4. ResolvesOriginator' /\ AdmitsListed'
      <4>1. ListedIn(allowedCidrs)' = ListedIn(allowedCidrs)
        BY <3>1 DEF configVars, ListedIn
      <4> QED
        BY <1>2, <3>1, <4>1, HopsStay DEF ResolveInv, ResolvesOriginator, AdmitsListed
    <3> QED
      BY <3>2, <3>3, <3>4 DEF ResolveInv
  <2> QED
    BY <1>2, <2>1, <2>2, <2>3 DEF ConfigNext, configState
<1> QED
  BY <1>1, <1>2, PTL DEF ConfigSpec

(***************************************************************************)
(* Resolve returns the address of the rightmost hop that is not a trusted  *)
(* proxy, or of the leftmost one when all are, in plain form, and an error *)
(* when that hop cannot be read; for headers of any number of lines and    *)
(* entries, blank lines included.                                          *)
(***************************************************************************)
THEOREM ResolveIsRight == ConfigSpec => []ResolvesOriginator
<1>1. ResolveInv => ResolvesOriginator
  BY DEF ResolveInv
<1> QED
  BY <1>1, ResolveInvariance, PTL

(***************************************************************************)
(* "a typo such as 10.0.0.1/8 cannot silently grant a much wider range     *)
(* than intended" (exposure.go): with an accepted configuration a request  *)
(* is let in exactly when its originator is among the listed addresses.    *)
(***************************************************************************)
THEOREM AdmissionIsRight == ConfigSpec => []AdmitsListed
<1>1. ResolveInv => AdmitsListed
  BY DEF ResolveInv
<1> QED
  BY <1>1, ResolveInvariance, PTL
-----------------------------------------------------------------------------
(* What is built from an accepted document.                                *)

\* SetToSeq lists a finite set, every element once.
LEMMA SetToSeqLists ==
    ASSUME NEW S, IsFiniteSet(S)
    PROVE  /\ SetToSeq(S) \in Seq(S) /\ ToSet(SetToSeq(S)) = S
           /\ \A k, m \in DOMAIN SetToSeq(S) : SetToSeq(S)[k] = SetToSeq(S)[m] => k = m
<1> DEFINE n == Cardinality(S)
<1>1. n \in Nat /\ Bijection(1..n, S) # {}
  BY FS_CardinalityType DEF ExistsBijection
<1>2. SetToSeq(S) \in [1..n -> S] /\ IsInjective(SetToSeq(S))
  <2>1. \E f \in [1..n -> S] : IsInjective(f)
    BY <1>1 DEF Bijection, Injection
  <2> QED
    BY <2>1 DEF SetToSeq
<1>3. SetToSeq(S) \in Injection(1..n, S)
  BY <1>2 DEF Injection
<1>4. SetToSeq(S) \in Surjection(1..n, S)
  <2>1. Cardinality(1..n) = n
    BY <1>1, FS_Interval
  <2> QED
    BY <1>3, <2>1, FS_Injection
<1>5. ToSet(SetToSeq(S)) = S
  BY <1>2, <1>4 DEF ToSet, Surjection
<1>6. SetToSeq(S) \in Seq(S)
  BY <1>1, <1>2, SeqDef
<1> QED
  BY <1>2, <1>5, <1>6 DEF IsInjective

\* NewManager makes one resource per reference, when no reference but the last one
\* repeats another.
LEMMA OneResourceEach ==
    ASSUME NEW refs, DOMAIN refs = 1..Len(refs), Len(refs) \in Nat,
           \A k, m \in DOMAIN refs : k < m /\ m < Len(refs) => refs[k] # refs[m]
    PROVE  /\ ToSet(NewManager(refs)) = ToSet(refs)
           /\ \A r \in ToSet(refs) : \E k :
                {j \in DOMAIN NewManager(refs) : NewManager(refs)[j] = r} = {k}
<1> DEFINE First == {k \in DOMAIN refs : \A j \in DOMAIN refs : j < k => refs[j] # refs[k]}
<1>1. /\ DOMAIN NewManager(refs) = First
      /\ \A k \in First : NewManager(refs)[k] = refs[k]
  BY DEF NewManager
<1>2. DOMAIN refs = 1..Len(refs) /\ Len(refs) \in Nat
  OBVIOUS
<1>3. ASSUME NEW r \in ToSet(refs) PROVE \E k \in First : refs[k] = r
  <2>1. PICK k \in DOMAIN refs : refs[k] = r
    BY DEF ToSet
  <2>2. CASE k \in First
    BY <2>1, <2>2
  <2>3. CASE k \notin First
    <3>1. PICK j \in DOMAIN refs : j < k /\ refs[j] = refs[k]
      BY <2>3
    <3>2. j \in First
      BY <1>2, <3>1
    <3> QED
      BY <2>1, <3>1, <3>2
  <2> QED
    BY <2>2, <2>3
<1>4. \A k, m \in First : refs[k] = refs[m] => k = m
  BY <1>2
<1> HIDE DEF First
<1>5. First \subseteq DOMAIN refs
  BY DEF First
<1>6. ToSet(NewManager(refs)) = ToSet(refs)
  BY <1>1, <1>3, <1>5 DEF ToSet
<1>7. ASSUME NEW r \in ToSet(refs)
      PROVE  \E k : {j \in DOMAIN NewManager(refs) : NewManager(refs)[j] = r} = {k}
  <2>1. PICK k \in First : refs[k] = r
    BY <1>3
  <2>2. {j \in DOMAIN NewManager(refs) : NewManager(refs)[j] = r} = {k}
    BY <1>1, <1>4, <2>1
  <2> QED
    BY <2>2
<1> QED
  BY <1>6, <1>7

\* The document is a configuration file.
DocInv == doc \in Document

\* The fields of a document, with their types.
LEMMA DocFields ==
    ASSUME DocInv
    PROVE  /\ doc.exposures \in Seq(Exposure)
           /\ doc.metricsAuth \in Reference \cup {NoAuth}
           /\ doc.server \in Listener /\ doc.metrics \in Listener
  BY DEF DocInv, Document

\* A reference names one Secret, the one it is resolved to.
LEMMA ResolvedIsNamed ==
    ASSUME NEW r \in Reference
    PROVE  /\ Names(r) = {secretRef(r)}
           /\ ValidRef(r) => secretRef(r) \in Ref(Namespaces, SecretNames)
  BY DEF Reference, Ref, Names, secretRef, ValidRef

\* The Secrets the exposures refer to are finitely many.
LEMMA ReferencedFinite ==
    ASSUME DocInv
    PROVE  IsFiniteSet(ReferencedSecrets)
<1> DEFINE N == DOMAIN doc.exposures
           src == [k \in N |-> secretRef(doc.exposures[k].source)]
           aut == [k \in N |-> secretRef(doc.exposures[k].auth)]
           Src == {src[k] : k \in N}
           Aut == {aut[k] : k \in N}
<1>1. IsFiniteSet(N)
  <2>1. N = 1..Len(doc.exposures) /\ Len(doc.exposures) \in Nat
    BY DocFields
  <2> QED
    BY <2>1, FS_Interval
<1>2. src \in Surjection(N, Src) /\ aut \in Surjection(N, Aut)
  BY DEF Surjection
<1>3. IsFiniteSet(Src) /\ IsFiniteSet(Aut)
  <2> HIDE DEF src, aut, Src, Aut, N
  <2> QED
    BY <1>1, <1>2, FS_Surjection
<1>4. ReferencedSecrets = Src \cup Aut
  <2>1. ReferencedSecrets =
          UNION {{secretRef(e.source), secretRef(e.auth)} : e \in {doc.exposures[k] : k \in N}}
    BY DEF ReferencedSecrets, ToSet
  <2>2. \A x : x \in ReferencedSecrets <=>
          \E k \in N : x = secretRef(doc.exposures[k].source)
                         \/ x = secretRef(doc.exposures[k].auth)
    BY <2>1
  <2>3. \A x : x \in Src \cup Aut <=> \E k \in N : x = src[k] \/ x = aut[k]
    OBVIOUS
  <2> QED
    BY <2>2, <2>3
<1> QED
  <2> HIDE DEF Src, Aut
  <2> QED
    BY <1>3, <1>4, FS_Union

\* AllRefs lists the Secrets the document names, and only its last one may be there
\* already.
LEMMA AllRefsAreNamed ==
    ASSUME DocInv
    PROVE  /\ AllRefs \in Seq(Named) /\ ToSet(AllRefs) = Named
           /\ \A k, m \in DOMAIN AllRefs :
                k < m /\ m < Len(AllRefs) => AllRefs[k] # AllRefs[m]
<1> DEFINE q == SetToSeq(ReferencedSecrets)
           metrics == doc.metricsAuth
<1>1. /\ q \in Seq(ReferencedSecrets) /\ ToSet(q) = ReferencedSecrets
      /\ \A k, m \in DOMAIN q : q[k] = q[m] => k = m
  BY ReferencedFinite, SetToSeqLists
<1>2. \A e \in ToSet(doc.exposures) :
         Names(e.source) = {secretRef(e.source)} /\ Names(e.auth) = {secretRef(e.auth)}
  <2> SUFFICES ASSUME NEW e \in ToSet(doc.exposures)
               PROVE  Names(e.source) = {secretRef(e.source)} /\ Names(e.auth) = {secretRef(e.auth)}
    OBVIOUS
  <2>1. e \in Exposure
    BY DocFields DEF ToSet
  <2>2. e.source \in Reference /\ e.auth \in Reference
    BY <2>1 DEF Exposure
  <2> QED
    BY <2>2, ResolvedIsNamed
<1>3. Named = ReferencedSecrets
                \cup (IF metrics = NoAuth THEN {} ELSE {secretRef(metrics)})
  <2>1. \A x : x \in ReferencedSecrets <=>
          \E e \in ToSet(doc.exposures) : x \in Names(e.source) \cup Names(e.auth)
    BY <1>2 DEF ReferencedSecrets
  <2>2. metrics # NoAuth => Names(metrics) = {secretRef(metrics)}
    BY DocFields, ResolvedIsNamed
  <2>3. \A x : x \in Named <=>
          \/ \E e \in ToSet(doc.exposures) : x \in Names(e.source) \cup Names(e.auth)
          \/ metrics # NoAuth /\ x \in Names(metrics)
    BY DEF Named
  <2> QED
    BY <2>1, <2>2, <2>3
<1> HIDE DEF q
<1>4. q \in Seq(Named) /\ DOMAIN q = 1..Len(q) /\ Len(q) \in Nat
  BY <1>1, <1>3
<1>5. CASE metrics = NoAuth
  <2>1. AllRefs = q
    BY <1>4, <1>5 DEF AllRefs, q
  <2> QED
    BY <1>1, <1>3, <1>4, <1>5, <2>1
<1>6. CASE metrics # NoAuth
  <2> DEFINE last == secretRef(metrics)
  <2>1. AllRefs = q \o <<last>>
    BY <1>6 DEF AllRefs, q
  <2> HIDE DEF last
  <2>2. last \in Named
    BY <1>3, <1>6 DEF last
  <2>3. <<last>> \in Seq(Named) /\ Len(<<last>>) = 1 /\ <<last>>[1] = last
    BY <2>2
  <2>4. /\ AllRefs \in Seq(Named) /\ Len(AllRefs) = Len(q) + 1
        /\ DOMAIN AllRefs = 1..(Len(q) + 1)
    BY <1>4, <2>1, <2>3
  <2>5. /\ \A k \in 1..Len(q) : AllRefs[k] = q[k]
        /\ AllRefs[Len(q) + 1] = last
    BY <1>4, <2>1, <2>3
  <2>6. ToSet(AllRefs) = Named
    <3>1. \A x : x \in ToSet(AllRefs) <=> \E k \in 1..(Len(q) + 1) : x = AllRefs[k]
      BY <2>4 DEF ToSet
    <3>2. \A x : x \in ToSet(q) <=> \E k \in 1..Len(q) : x = q[k]
      BY <1>4 DEF ToSet
    <3>3. \A x : x \in Named <=> x \in ToSet(q) \/ x = last
      BY <1>1, <1>3, <1>6 DEF last
    <3>4. \A x : x \in ToSet(AllRefs) => x \in Named
      BY <1>4, <2>5, <3>1, <3>2, <3>3
    <3>5. \A x : x \in Named => x \in ToSet(AllRefs)
      BY <1>4, <2>5, <3>1, <3>2, <3>3
    <3> QED
      BY <3>4, <3>5
  <2>7. \A k, m \in DOMAIN AllRefs :
           k < m /\ m < Len(AllRefs) => AllRefs[k] # AllRefs[m]
    BY <1>1, <1>4, <2>4, <2>5
  <2> QED
    BY <2>4, <2>6, <2>7
<1> QED
  BY <1>5, <1>6

\* The names an accepted document gives its exposures tell them apart.
LEMMA ExposuresByName ==
    ASSUME DocInv, resolve
    PROVE  /\ Cardinality(DOMAIN New) = Len(doc.exposures)
           /\ \A n \in DOMAIN New : {New[n].source, New[n].auth} \subseteq Named
<1> DEFINE N == DOMAIN doc.exposures
           name == [k \in N |-> doc.exposures[k].name]
<1>1. N = 1..Len(doc.exposures) /\ Len(doc.exposures) \in Nat
  BY DocFields
<1>2. DOMAIN New = {e.name : e \in ToSet(doc.exposures)}
  BY DEF New
<1>3. name \in Bijection(N, DOMAIN New)
  <2>1. \A k, m \in N : name[k] = name[m] => k = m
    BY DEF resolve
  <2>2. DOMAIN New = {name[k] : k \in N}
    BY <1>2 DEF ToSet
  <2> QED
    BY <2>1, <2>2 DEF Bijection, Injection, Surjection, IsInjective
<1>4. IsFiniteSet(N) /\ Cardinality(N) = Len(doc.exposures)
  BY <1>1, FS_Interval
<1>5. Cardinality(DOMAIN New) = Len(doc.exposures)
  <2> HIDE DEF N, name
  <2> QED
    BY <1>3, <1>4, FS_Bijection DEF ExistsBijection
<1>6. ASSUME NEW n \in DOMAIN New
      PROVE  {New[n].source, New[n].auth} \subseteq Named
  <2> DEFINE e == CHOOSE e \in ToSet(doc.exposures) : e.name = n
  <2>1. e \in ToSet(doc.exposures)
    BY <1>2
  <2>2. New[n] = [source |-> secretRef(e.source), auth |-> secretRef(e.auth)]
    BY <1>2 DEF New
  <2> HIDE DEF e
  <2>3. e \in Exposure
    BY <2>1, DocFields DEF ToSet
  <2>4. Names(e.source) = {secretRef(e.source)} /\ Names(e.auth) = {secretRef(e.auth)}
    BY <2>3, ResolvedIsNamed DEF Exposure
  <2>5. Names(e.source) \cup Names(e.auth) \subseteq Named
    BY <2>1 DEF Named
  <2> QED
    BY <2>2, <2>4, <2>5
<1> QED
  BY <1>5, <1>6

\* Everything an accepted document names is in a namespace that it gives.
LEMMA NamedAreValid ==
    ASSUME DocInv, resolve
    PROVE  Named \subseteq Ref(Namespaces, SecretNames)
<1>1. ASSUME NEW e \in ToSet(doc.exposures)
      PROVE  Names(e.source) \cup Names(e.auth) \subseteq Ref(Namespaces, SecretNames)
  <2>1. e \in Exposure /\ ValidExposure(e)
    BY DocFields DEF ToSet, resolve
  <2>2. /\ e.source \in Reference /\ ValidRef(e.source)
        /\ e.auth \in Reference /\ ValidRef(e.auth)
    BY <2>1 DEF Exposure, ValidExposure
  <2> QED
    BY <2>2, ResolvedIsNamed
<1>2. ASSUME doc.metricsAuth # NoAuth
      PROVE  Names(doc.metricsAuth) \subseteq Ref(Namespaces, SecretNames)
  <2>1. doc.metricsAuth \in Reference /\ ValidRef(doc.metricsAuth)
    BY <1>2, DocFields DEF resolve
  <2> QED
    BY <2>1, ResolvedIsNamed
<1>3. \A x \in Named :
        \/ \E e \in ToSet(doc.exposures) : x \in Names(e.source) \cup Names(e.auth)
        \/ doc.metricsAuth # NoAuth /\ x \in Names(doc.metricsAuth)
  BY DEF Named
<1> QED
  BY <1>1, <1>2, <1>3

\* Listeners written in the usual way that do not conflict have no socket in common.
LEMMA SocketsApart ==
    ASSUME ~listenersConflict(Server, Metrics), Usual(Server), Usual(Metrics)
    PROVE  Sockets(Server) \cap Sockets(Metrics) = {}
<1> SUFFICES ASSUME NEW s \in Sockets(Server), s \in Sockets(Metrics) PROVE FALSE
  OBVIOUS
<1>1. PICK h : s = <<h, Server.port>> /\ (Server.host = Wildcard \/ h = Server.host)
  BY DEF Sockets
<1>2. PICK g : s = <<g, Metrics.port>> /\ (Metrics.host = Wildcard \/ g = Metrics.host)
  BY DEF Sockets
<1>3. h = g /\ Server.port = Metrics.port
  BY <1>1, <1>2
<1> QED
  BY <1>1, <1>2, <1>3 DEF listenersConflict, Usual

\* The part of Wired that is about the listeners.
Apart == Usual(Server) /\ Usual(Metrics) => Sockets(Server) \cap Sockets(Metrics) = {}

\* What a document says depends on the document only.
LEMMA DocStays ==
    ASSUME doc' = doc
    PROVE  Named' = Named /\ (Apart <=> Apart')
<1>1. Named' = Named
  BY DEF Named, Names
<1>2. Apart <=> Apart'
  BY DEF Apart, Usual, Sockets, Server, Metrics, listenAddress
<1> QED
  BY <1>1, <1>2

\* What Configure builds is wired to the document.
LEMMA ConfigureWires ==
    ASSUME DocInv, resolve, doc' = doc,
           watchers' = NewManager(AllRefs), exposures' = New
    PROVE  Wired'
<1>1. Named' = Named /\ (Apart <=> Apart')
  BY DocStays
<1>2. /\ ToSet(watchers') = Named
      /\ \A r \in Named : \E k : {j \in DOMAIN watchers' : watchers'[j] = r} = {k}
  <2>1. /\ AllRefs \in Seq(Named) /\ ToSet(AllRefs) = Named
        /\ \A k, m \in DOMAIN AllRefs :
             k < m /\ m < Len(AllRefs) => AllRefs[k] # AllRefs[m]
    BY AllRefsAreNamed
  <2>2. /\ ToSet(NewManager(AllRefs)) = ToSet(AllRefs)
        /\ \A r \in ToSet(AllRefs) : \E k :
             {j \in DOMAIN NewManager(AllRefs) : NewManager(AllRefs)[j] = r} = {k}
    <3>1. DOMAIN AllRefs = 1..Len(AllRefs) /\ Len(AllRefs) \in Nat
      BY <2>1
    <3> QED
      BY <2>1, <3>1, OneResourceEach
  <2> QED
    BY <2>1, <2>2
<1>3. \A r \in Named : Cardinality({j \in DOMAIN watchers' : watchers'[j] = r}) = 1
  BY <1>2, FS_Singleton
<1>4. ToSet(watchers') \subseteq Named \cap Ref(Namespaces, SecretNames)
  BY <1>2, NamedAreValid
<1>5. /\ Cardinality(DOMAIN exposures') = Len(doc'.exposures)
      /\ \A n \in DOMAIN exposures' :
            {exposures'[n].source, exposures'[n].auth} \subseteq ToSet(watchers')
  BY <1>2, ExposuresByName
<1>6. Apart
  BY SocketsApart DEF resolve, Apart
<1> QED
  BY <1>1, <1>3, <1>4, <1>5, <1>6 DEF Wired, Apart

\* What was built stays.
LEMMA StaysWired ==
    ASSUME Wired, UNCHANGED <<doc, wiring>>, stage' = stage \/ stage \notin {"config", "refused"}
    PROVE  Wired'
<1>1. doc' = doc /\ watchers' = watchers /\ exposures' = exposures
  BY DEF wiring
<1>2. Named' = Named /\ (Apart <=> Apart')
  BY <1>1, DocStays
<1> QED
  BY <1>1, <1>2 DEF Wired, Apart

(***************************************************************************)
(* For every document that is accepted, with any number of exposures, each *)
(* Secret it names has one watcher and no other Secret has one; every      *)
(* exposure is found under its name and asks for watched Secrets only; the *)
(* listeners do not compete for a socket, unless one of them is written in *)
(* another than the usual way.                                             *)
(***************************************************************************)
THEOREM WiringIsRight == ConfigSpec => []Wired
<1> DEFINE Inv == DocInv /\ Wired
<1>1. ConfigInit => Inv
  BY GatewayConfigAssumption DEF ConfigInit, Init, DocInv, Wired
<1>2. ASSUME Inv, [ConfigNext]_configState PROVE Inv'
  <2>1. doc' = doc
    BY <1>2 DEF ConfigNext, Configure, Handle, configState
  <2>2. CASE Configure
    <3>1. Wired'
      <4>1. CASE resolve /\ stage' = "idle"
        BY <1>2, <2>1, <2>2, <4>1, ConfigureWires DEF Configure
      <4>2. CASE ~resolve \/ stage' # "idle"
        <5>1. stage' = "refused"
          BY <2>2, <4>2 DEF Configure, Load
        <5> QED
          BY <5>1 DEF Wired
      <4> QED
        BY <4>1, <4>2
    <3> QED
      BY <1>2, <2>1, <3>1 DEF DocInv
  <2>3. CASE Handle
    <3>1. stage \notin {"config", "refused"} /\ UNCHANGED <<doc, wiring>>
      BY <2>3 DEF Handle, Arrive, Peer, Line, Entry, Exhausted, Check
    <3> QED
      BY <1>2, <3>1, StaysWired DEF DocInv
  <2>4. CASE UNCHANGED configState
    BY <1>2, <2>4, StaysWired DEF configState, vars, DocInv
  <2> QED
    BY <1>2, <2>2, <2>3, <2>4 DEF ConfigNext
<1> QED
  BY <1>1, <1>2, PTL DEF ConfigSpec
=============================================================================
