------------------------------- MODULE ClientIP -------------------------------
(***************************************************************************)
(* Which client a request is from, and whether it may use an exposure:     *)
(* the configured networks (validator.prefixes, exposure.ParsePrefix),     *)
(* clientip.Resolver.Resolve and Exposure.AllowsClient.  Resolve walks the *)
(* header's lines from the last to the first and each line from right to   *)
(* left, up to the first hop that is not a trusted proxy.                  *)
(*                                                                         *)
(* Addresses have Width bits; a network is an address and a prefix length. *)
(* The same address can be written in several forms: plain, as an          *)
(* IPv4-mapped IPv6 address, or with a zone.  A header line is the         *)
(* sequence of its comma-separated entries; a blank line has none.         *)
(***************************************************************************)
EXTENDS Naturals, Sequences, SequencesExt

CONSTANTS
    Width,          \* bits of an address
    Hosts,          \* the addresses that requests come from
    TrustedLists,   \* the server.trustedProxies that may be configured
    AllowedLists,   \* the allowedCidrs of the exposure that may be configured
    Shapes          \* bound: how many entries the lines of a header have

\* A CIDR as it is written in the configuration.
Text == [addr : 0..(2^Width - 1), bits : 0..Width, form : {"plain", "mapped", "malformed"}]

ASSUME ClientIPAssumption ==
    /\ Width \in Nat /\ Hosts \subseteq 0..(2^Width - 1) /\ Shapes \subseteq Seq(Nat)
    /\ TrustedLists \subseteq Seq(Text) /\ AllowedLists \subseteq Seq(Text)

Forms     == {"plain", "mapped", "zoned"}
Malformed == [host |-> 0, form |-> "malformed"]     \* not an address
NoAddr    == [host |-> 0, form |-> "none"]
Entries   == [host : Hosts, form : Forms] \cup {Malformed}
Lines(n)  == [1..n -> Entries]
Shaped(s) == {h \in [DOMAIN s -> UNION {Lines(s[k]) : k \in DOMAIN s}] :
                \A k \in DOMAIN s : h[k] \in Lines(s[k])}
Headers   == UNION {Shaped(s) : s \in Shapes}

VARIABLES
    trustedProxies, \* the configuration as it is written
    allowedCidrs,
    trusted,        \* Resolver.trusted
    allowed,        \* Exposure.AllowedCIDRs
    remote,         \* req.RemoteAddr
    values,         \* the X-Forwarded-For lines
    i,              \* lines still to be looked at
    line,           \* what is left of the current line
    client,         \* client, so far
    result,         \* of Resolve: "none", "ok" or an error
    stage           \* "config", "idle", "peer", "walk", "check"; "refused" (the
                    \* configuration); "allowed" or "denied" (the request)

configVars  == <<trustedProxies, allowedCidrs, trusted, allowed>>
requestVars == <<remote, values>>
vars == <<configVars, requestVars, i, line, client, result, stage>>

Init ==
    /\ trustedProxies \in TrustedLists /\ allowedCidrs \in AllowedLists
    /\ trusted = {} /\ allowed = {}
    /\ remote = NoAddr /\ values = <<>> /\ i = 0 /\ line = <<>>
    /\ client = NoAddr /\ result = "none"
    /\ stage = "config"
-----------------------------------------------------------------------------
(* The networks.                                                           *)

\* The network part of an address.
Masked(addr, bits) == addr \div 2^(Width - bits)

\* netip.Prefix.Contains is false for mapped and zoned addresses.
PrefixContains(p, a) == a.form = p.form /\ Masked(a.host, p.bits) = Masked(p.addr, p.bits)

IsNetwork(t) == t.addr = Masked(t.addr, t.bits) * 2^(Width - t.bits)

\* Mutant of ParsePrefix: host bits are masked away.
ParsePrefixLoosely(t) == t.form = "plain"

\* ParsePrefix succeeds: the network is well-formed, in IPv4 notation and without
\* host bits.
ParsePrefix(t) == t.form = "plain" /\ IsNetwork(t)

\* validator.prefixes finds no problem: every entry parses and none is repeated.
prefixes(texts, required) ==
    /\ required => texts # <<>>
    /\ \A k \in DOMAIN texts : ParsePrefix(texts[k])
    /\ IsInjective(texts)

\* The configuration is loaded, or refused as a whole.
Load ==
    /\ stage = "config"
    /\ IF prefixes(trustedProxies, FALSE) /\ prefixes(allowedCidrs, TRUE)
       THEN /\ trusted' = ToSet(trustedProxies) /\ allowed' = ToSet(allowedCidrs)
            /\ stage' = "idle"
       ELSE stage' = "refused" /\ UNCHANGED <<trusted, allowed>>
    /\ UNCHANGED <<trustedProxies, allowedCidrs, requestVars, i, line, client, result>>

isTrusted(a) == \E p \in trusted : PrefixContains(p, a)

normalize(a) == [a EXCEPT !.form = "plain"]

\* Exposure.AllowsClient.
AllowsClient(a) == \E p \in allowed : PrefixContains(p, normalize(a))
-----------------------------------------------------------------------------
(* Resolve.                                                                *)

\* A request arrives; the lines will be walked from the last one.
Arrive ==
    /\ stage = "idle"
    /\ remote' \in Entries
    /\ values' \in Headers
    /\ i' = Len(values')
    /\ stage' = "peer"
    /\ UNCHANGED <<configVars, line, client, result>>

\* Resolve goes on with the header, or returns.
Continue == stage' = "walk" /\ UNCHANGED result
Return(r) == stage' = "check" /\ result' = r

\* The peer: its address must parse, and be trusted for the header to count.
Peer ==
    /\ stage = "peer"
    /\ \/ remote = Malformed /\ Return("ErrInvalidRemoteAddr") /\ UNCHANGED client
       \/ /\ remote # Malformed
          /\ client' = normalize(remote)
          /\ IF isTrusted(client') THEN Continue ELSE Return("ok")
    /\ UNCHANGED <<configVars, requestVars, i, line>>

\* The outer loop: the next line to the left; a blank one is skipped.
Line ==
    /\ stage = "walk" /\ line = <<>> /\ i > 0
    /\ line' = values[i]
    /\ i' = i - 1
    /\ UNCHANGED <<configVars, requestVars, client, result, stage>>

\* Mutant of Entry: what cannot be parsed is skipped.
EntrySkipping ==
    /\ stage = "walk" /\ line # <<>>
    /\ line' = Front(line)
    /\ client' = IF Last(line) = Malformed THEN client ELSE normalize(Last(line))
    /\ IF isTrusted(client') THEN Continue ELSE Return("ok")
    /\ UNCHANGED <<configVars, requestVars, i>>

\* The inner loop: the rightmost entry of what is left of the line.
Entry ==
    /\ stage = "walk" /\ line # <<>>
    /\ line' = Front(line)
    /\ \/ /\ Last(line) = Malformed
          /\ client' = NoAddr /\ Return("ErrMalformedForwardedFor")
       \/ /\ Last(line) # Malformed
          /\ client' = normalize(Last(line))
          /\ IF isTrusted(client') THEN Continue ELSE Return("ok")
    /\ UNCHANGED <<configVars, requestVars, i>>

\* Every hop was a trusted proxy.
Exhausted ==
    /\ stage = "walk" /\ line = <<>> /\ i = 0
    /\ Return("ok")
    /\ UNCHANGED <<configVars, requestVars, i, line, client>>

\* The handler: without an address, or with one outside the networks, 404.
Check ==
    /\ stage = "check"
    /\ stage' = IF result = "ok" /\ AllowsClient(client) THEN "allowed" ELSE "denied"
    /\ UNCHANGED <<configVars, requestVars, i, line, client, result>>

Done == stage \in {"refused", "allowed", "denied"}

Next ==
    \/ Load \/ Arrive \/ Peer \/ Line \/ Entry \/ Exhausted \/ Check
    \/ Done /\ UNCHANGED vars

Spec == Init /\ [][Next]_vars
-----------------------------------------------------------------------------
(* The definition the request is held against.                             *)

\* The addresses a text lists: those of its network, in whatever notation; a text
\* with host bits can be meant for nothing but the one address it shows.
Listed(t) ==
    IF t.form = "malformed" THEN {}
    ELSE IF IsNetwork(t) THEN {h \in Hosts : Masked(h, t.bits) = Masked(t.addr, t.bits)}
    ELSE {t.addr}

ListedIn(texts) == UNION {Listed(t) : t \in ToSet(texts)}

\* All hops as places <<line, entry>>, the peer on a line of its own after the header.
Route == Append(values, <<remote>>)
Hops  == UNION {{<<k, m>> : m \in DOMAIN Route[k]} : k \in DOMAIN Route}
Hop(p) == Route[p[1]][p[2]]

RightOf(p, q) == p[1] > q[1] \/ (p[1] = q[1] /\ p[2] > q[2])

\* The hop is a trusted proxy, in whatever form it is written.
Proxy(p) == Hop(p) # Malformed /\ Hop(p).host \in ListedIn(trustedProxies)

\* The hop that counts: the rightmost that is not a trusted proxy, or the leftmost
\* one when all are.
Originator(p) ==
    /\ \A q \in Hops : RightOf(q, p) => Proxy(q)
    /\ Proxy(p) => \A q \in Hops : ~RightOf(p, q)

\* Resolve returns the originator in plain form, and an error when that hop cannot be
\* read.  Nothing to the left of that hop has any influence.
ResolvesOriginator ==
    stage = "check" => \E p \in Hops :
        /\ Originator(p)
        /\ IF Hop(p) = Malformed
           THEN client = NoAddr /\ result # "ok"
           ELSE client = [host |-> Hop(p).host, form |-> "plain"] /\ result = "ok"

\* "a typo such as 10.0.0.1/8 cannot silently grant a much wider range than
\* intended" (exposure.go): a request is let in exactly when its originator is
\* among the addresses the configuration lists, in whatever form proxies write it.
AdmitsListed ==
    stage \in {"allowed", "denied"} => \E p \in Hops :
        /\ Originator(p)
        /\ stage = "allowed" <=>
             Hop(p) # Malformed /\ Hop(p).host \in ListedIn(allowedCidrs)
=============================================================================
