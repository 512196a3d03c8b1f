---------------------------- MODULE GatewayConfig ----------------------------
(***************************************************************************)
(* The configuration of the gateway as a whole: document.resolve of        *)
(* gateway/internal/config, of which ClientIP has the networks, and what   *)
(* run of gateway/cmd builds from an accepted one: the Secrets to watch    *)
(* (exposure.ReferencedSecrets, resources.NewManager), the exposures by    *)
(* name (server.New) and the two listeners.                                *)
(***************************************************************************)
EXTENDS ClientIP, FiniteSets

CONSTANTS
    Namespaces, SecretNames, ExposureNames,     \* valid names
    Addresses,          \* the host's own, in listen addresses
    Documents           \* configuration files, see Document

Blank == ""             \* a field that is not given
Wrong == "-"            \* a field that is no valid name
Ref(namespaces, names) == [namespace : namespaces, name : names]

Reference == Ref(Namespaces \cup {Blank, Wrong}, SecretNames \cup {Blank, Wrong})
NoAuth    == [namespace |-> "none", name |-> "none"]  \* metrics.auth is not given

\* A listen address is a text.  spelling: which of the texts that mean the host it
\* uses, 0 for the address in its shortest form, others for a host name or a longer
\* form.  zeros: those written before the port's number.
Wildcard == ""                                          \* or 0.0.0.0, or ::
Absent   == [host |-> "absent", spelling |-> 0, port |-> 0, zeros |-> 0] \* use the default
Listener == [host : Addresses \cup {Wildcard, Wrong}, spelling : Nat, port : Nat, zeros : Nat]
            \cup {Absent}

\* valid: what resolve looks at in one field alone (keys, durations, TLS files) is
\* in order.
Exposure == [name : ExposureNames \cup {Blank, Wrong}, source : Reference, auth : Reference,
             valid : BOOLEAN]
Document == [defaultNamespace : Namespaces \cup {Blank, Wrong}, exposures : Seq(Exposure),
             metricsAuth : Reference \cup {NoAuth}, server : Listener, metrics : Listener,
             trustedProxies : TrustedLists, allowedCidrs : AllowedLists, valid : BOOLEAN]

ASSUME GatewayConfigAssumption ==
    /\ {Blank, Wrong} \cap (Namespaces \cup SecretNames \cup ExposureNames) = {}
    /\ {Wildcard, Wrong} \cap Addresses = {}
    /\ NoAuth \notin Reference
    /\ Documents \subseteq Document

VARIABLES
    doc,        \* the file
    watchers,   \* Manager.resources: the Secrets, each with a goroutine of its own
    exposures   \* Handler.exposures: the exposures by name

wiring == <<watchers, exposures>>
configState == <<vars, doc, wiring>>

ConfigInit ==
    /\ doc \in Documents
    /\ Init
    /\ trustedProxies = doc.trustedProxies /\ allowedCidrs = doc.allowedCidrs
    /\ watchers = <<>> /\ exposures = <<>>
-----------------------------------------------------------------------------
(* resolve.                                                                *)

DefaultListenAddress        == [Absent EXCEPT !.host = Wildcard, !.port = 8080]
DefaultMetricsListenAddress == [Absent EXCEPT !.host = Wildcard, !.port = 8081]

listenAddress(l, def) == IF l = Absent THEN def ELSE l

\* validateListenAddress, of an address that is given or the default.
ValidListener(l) == l.host # Wrong /\ l.port # 0

Server  == listenAddress(doc.server, DefaultListenAddress)
Metrics == listenAddress(doc.metrics, DefaultMetricsListenAddress)

\* Hosts and ports are compared as they are written, a wildcard as what it means.
listenersConflict(a, b) ==
    /\ <<a.port, a.zeros>> = <<b.port, b.zeros>>
    /\ \/ <<a.host, a.spelling>> = <<b.host, b.spelling>>
       \/ Wildcard \in {a.host, b.host}

\* validator.secretRef: the reference with its namespace...
secretRef(r) ==
    IF r.namespace = Blank THEN [r EXCEPT !.namespace = doc.defaultNamespace] ELSE r

\* ...and whether it found no problem.
ValidRef(r) == r.name \in SecretNames /\ secretRef(r).namespace \in Namespaces

\* exposureSection.resolve finds no problem.
ValidExposure(e) ==
    /\ e.valid
    /\ e.name \in ExposureNames
    /\ ValidRef(e.source) /\ ValidRef(e.auth)

\* document.resolve finds no problem, the networks apart.
resolve ==
    /\ doc.valid
    /\ doc.defaultNamespace # Wrong
    /\ ValidListener(Server) /\ ValidListener(Metrics)
    /\ ~listenersConflict(Server, Metrics)
    /\ doc.metricsAuth # NoAuth => ValidRef(doc.metricsAuth)
    /\ doc.exposures # <<>>
    /\ \A k \in DOMAIN doc.exposures : ValidExposure(doc.exposures[k])
    /\ \A k, m \in DOMAIN doc.exposures :
        doc.exposures[k].name = doc.exposures[m].name => k = m
-----------------------------------------------------------------------------
(* run.                                                                    *)

\* ReferencedSecrets: sources and authentication Secrets, each once.
ReferencedSecrets ==
    UNION {{secretRef(e.source), secretRef(e.auth)} : e \in ToSet(doc.exposures)}

\* The metrics credentials are appended without a look at what is there.
AllRefs ==
    SetToSeq(ReferencedSecrets)
        \o (IF doc.metricsAuth = NoAuth THEN <<>> ELSE <<secretRef(doc.metricsAuth)>>)

\* Mutant of NewManager: every reference gets a watcher.
NewManagerRepeating(refs) == refs

\* NewManager: the first use of a reference makes its resource.  Resources are kept
\* by the place of that use; how they are sorted afterwards is left out.
NewManager(refs) ==
    LET first == {k \in DOMAIN refs : \A j \in DOMAIN refs : j < k => refs[j] # refs[k]}
    IN  [k \in first |-> refs[k]]

\* New: the exposures by name, with their references resolved.
New ==
    [n \in {e.name : e \in ToSet(doc.exposures)} |->
        LET e == CHOOSE e \in ToSet(doc.exposures) : e.name = n
        IN  [source |-> secretRef(e.source), auth |-> secretRef(e.auth)]]

\* The document is accepted with everything in it, or refused.
Configure ==
    IF resolve
    THEN /\ Load
         /\ IF stage' = "idle"
            THEN watchers' = NewManager(AllRefs) /\ exposures' = New
            ELSE UNCHANGED wiring
         /\ UNCHANGED doc
    ELSE /\ stage = "config" /\ stage' = "refused"
         /\ UNCHANGED <<configVars, requestVars, i, line, client, result, doc, wiring>>

Handle ==
    /\ Arrive \/ Peer \/ Line \/ Entry \/ Exhausted \/ Check
    /\ UNCHANGED <<doc, wiring>>

ConfigNext ==
    \/ Configure \/ Handle
    \/ Done /\ UNCHANGED configState

ConfigSpec == ConfigInit /\ [][ConfigNext]_configState
-----------------------------------------------------------------------------
(* Properties.                                                             *)

\* The Secrets a document names, in the namespace it gives them.
Names(r) ==
    {[namespace |-> ns, name |-> r.name] :
        ns \in IF r.namespace = Blank THEN {doc.defaultNamespace} ELSE {r.namespace}}
Named ==
    UNION ({Names(e.source) \cup Names(e.auth) : e \in ToSet(doc.exposures)}
           \cup {IF doc.metricsAuth = NoAuth THEN {} ELSE Names(doc.metricsAuth)})

\* The sockets that listening at an address takes.
Sockets(l) ==
    {<<host, l.port>> : host \in IF l.host = Wildcard THEN Addresses ELSE {l.host}}

\* An address that is written in the usual way.
Usual(l) == l.spelling = 0 /\ l.zeros = 0

\* What a gateway that starts is wired to: every Secret the document names has one
\* watcher ("Duplicate references share a single state entry and a single watcher",
\* manager.go), no other Secret is read and none in a namespace the document does
\* not give (exposure.go: "the gateway never falls back to the namespace it happens
\* to run in"); every exposure is found under its name and asks for watched Secrets
\* only; and the listeners, defaults included, do not compete for a socket
\* (listenersConflict, config.go), when both are written in the usual way: of others,
\* such as ":08080" beside ":8080", only net.Listen finds out.
Wired ==
    stage \notin {"config", "refused"} =>
        /\ \A r \in Named : Cardinality({k \in DOMAIN watchers : watchers[k] = r}) = 1
        /\ ToSet(watchers) \subseteq Named \cap Ref(Namespaces, SecretNames)
        /\ Cardinality(DOMAIN exposures) = Len(doc.exposures)
        /\ \A n \in DOMAIN exposures :
            {exposures[n].source, exposures[n].auth} \subseteq ToSet(watchers)
        /\ Usual(Server) /\ Usual(Metrics) => Sockets(Server) \cap Sockets(Metrics) = {}
=============================================================================
