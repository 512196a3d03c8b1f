---------------------------- MODULE GatewayProcess ----------------------------
(***************************************************************************)
(* The gateway process with TLS: run (GatewayLifecycle) and the reloader   *)
(* of the delivery server's certificate (CertReloader), which run loads    *)
(* before anything else, starts with the background context of the         *)
(* watchers and ends with it.  The metrics server's reloader is another    *)
(* one that shares nothing with it.                                        *)
(***************************************************************************)
EXTENDS GatewayLifecycle, Sequences

CONSTANT MaxSerial      \* bound: certificates, see CertReloader

ASSUME CertAssumption == MaxSerial \in Nat

VARIABLES issued, certFile, keyFile, step, certPEM, keyPEM, pair    \* see CertReloader

Certs == INSTANCE CertReloader

certState    == <<issued, certFile, keyFile, step, certPEM, keyPEM, pair>>
processState == <<vars, certState>>

ProcessInit == Init /\ Certs!InitCerts

\* loadTLS, which ends the process unless it loads a pair.
LoadTLS ==
    /\ phase = "load" /\ pair = Certs!NoPair
    /\ Certs!Reload
    /\ IF Certs!NothingLoaded'
       THEN /\ phase' = "exited" /\ exitCode' = 1
            /\ server' = [s \in Servers |-> "closed"]
            /\ UNCHANGED <<signalled, shuttingDown, expired, failed, requests, managerVars,
                           probeVars, dropped>>
       ELSE UNCHANGED vars

\* run goes on past loadTLS only with a pair.
Loaded == phase = "load" /\ phase' # "exited" => pair # Certs!NoPair

LifeRun == Run /\ Loaded /\ UNCHANGED certState
Life    == Next /\ Loaded /\ UNCHANGED certState

\* Run of the reloader.  Once the background context is over it ends, after the
\* reload under way or a last one that its select chooses.
Tick ==
    /\ phase \notin {"load", "exited"}
    /\ Certs!Reload
    /\ UNCHANGED vars

ProcessNext ==
    \/ Life \/ LoadTLS \/ Tick
    \/ phase # "exited" /\ Certs!Files /\ UNCHANGED vars

\* Fairness: as in GatewayLifecycle, and the reloader's ticker fires.
ProcessSpec ==
    /\ ProcessInit /\ [][ProcessNext]_processState
    /\ WF_processState(LifeRun) /\ WF_processState(LoadTLS) /\ WF_processState(Tick)
    /\ WF_vars(Expire) /\ WF_vars(ManagerStops)
-----------------------------------------------------------------------------
(* Properties.                                                             *)

\* Whenever a server may be handshaking, the certificate that GetCertificate returns
\* is there and has its own key, although the two files are read one after the other
\* while they are replaced.
PairMatches ==
    server["secrets"] # "new" /\ phase # "exited" =>
        pair # Certs!NoPair /\ pair.key = Certs!KeyOf(pair.cert)

\* "picks up renewals without a restart" (tls.go): once a renewed pair is in place
\* for good, it is served, however often the files were damaged or half replaced
\* before, unless the process ends.
RenewalServed ==
    <>[](certFile = Certs!Newest.cert /\ keyFile = Certs!Newest.key)
        => <>[](phase = "exited" \/ pair = Certs!Newest)
=============================================================================
