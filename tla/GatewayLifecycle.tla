--------------------------- MODULE GatewayLifecycle ---------------------------
(***************************************************************************)
(* The gateway process (run of gateway/cmd/kube-secret-gateway/main.go)    *)
(* and the operations listener's readiness (gateway/internal/server/       *)
(* metrics.go): start-up, the check of the metrics credentials, serving,   *)
(* and a shutdown that drains the delivery server, then the metrics        *)
(* server, within one deadline, and only then stops the watchers.          *)
(*                                                                         *)
(* Requests are those of Delivery, here without their contents; the        *)
(* manager is reduced to what the process waits for.  http.Server.Shutdown *)
(* is external: it stops accepting, and returns when no request is left or *)
(* with an error when its context is over.                                 *)
(***************************************************************************)
EXTENDS Naturals

CONSTANTS
    MetricsAuth,    \* is metrics.auth configured?
    MaxRequests     \* bound: requests in flight on each server

ASSUME LifecycleAssumption == MetricsAuth \in BOOLEAN /\ MaxRequests \in Nat \ {0}

Servers == {"secrets", "metrics"}

VARIABLES
    phase,          \* where run is, see Phases
    exitCode,       \* exitCode, returned at the end
    signalled,      \* ctx is done: a first signal was received
    shuttingDown,   \* shuttingDown
    expired,        \* shutdownCtx is over
    server,         \* "new"; "bound": its listener exists; "serving"; "closed"
    failed,         \* Serve returned an error
    requests,       \* requests in flight
    manager,        \* "new", "running", "stopping" (background is cancelled), "stopped"
    initialized,    \* Manager.Initialized()
    auth,           \* the metrics credentials in the cache
    probe,          \* a /readyz request: "none", "asked", "up" (not shutting down)
    late,           \* history: it was asked after the shutdown began
    dropped         \* history: requests were in flight when run returned

processVars == <<phase, exitCode, signalled, shuttingDown, expired>>
managerVars == <<manager, initialized, auth>>
probeVars   == <<probe, late>>
vars == <<processVars, server, failed, requests, managerVars, probeVars, dropped>>

\* "check": in checkMetricsAuth; "abort": after it failed; "drain1" and "drain2":
\* in Shutdown of the delivery and of the metrics server; "wait": in manager.Wait.
Phases == {"load", "check", "serving", "drain1", "drain2", "wait", "abort", "exited"}

AuthStates == {"unsynced", "absent", "malformed", "usable"}

Busy(s) == requests[s] > 0 \/ (s = "metrics" /\ probe # "none")

Init ==
    /\ phase = "load"
    /\ exitCode = 0
    /\ signalled = FALSE /\ shuttingDown = FALSE /\ expired = FALSE
    /\ server = [s \in Servers |-> "new"]
    /\ failed = [s \in Servers |-> FALSE]
    /\ requests = [s \in Servers |-> 0]
    /\ manager = "new" /\ initialized = FALSE /\ auth = "unsynced"
    /\ probe = "none" /\ late = FALSE
    /\ dropped = FALSE
-----------------------------------------------------------------------------
(* The environment.                                                        *)

\* The first SIGTERM or SIGINT, once NotifyContext has been called.
Signal ==
    /\ phase \notin {"load", "exited"}
    /\ ~signalled
    /\ signalled' = TRUE
    /\ UNCHANGED <<phase, exitCode, shuttingDown, expired, server, failed, requests,
                   managerVars, probeVars, dropped>>

\* A signal that is not caught, before NotifyContext or after stopSignals, ends
\* the process at once.
Kill ==
    /\ phase \in {"load", "drain1", "drain2", "wait"}
    /\ phase' = "exited"
    /\ exitCode' = 2
    /\ server' = [s \in Servers |-> "closed"]
    /\ dropped' = \E s \in Servers : Busy(s)
    /\ UNCHANGED <<signalled, shuttingDown, expired, failed, requests, managerVars,
                   probeVars>>

\* The manager reads, or reads again, the metrics credentials.  It goes on to do so
\* when run no longer looks at them.
Sync ==
    /\ phase = "check"
    /\ auth' \in AuthStates \ {"unsynced", auth}
    /\ UNCHANGED <<processVars, server, failed, requests, manager, initialized,
                   probeVars, dropped>>

\* The manager has tried every Secret.
Initialize ==
    /\ manager = "running"
    /\ ~initialized
    /\ initialized' = TRUE
    /\ UNCHANGED <<processVars, server, failed, requests, manager, auth, probeVars,
                   dropped>>

\* The goroutines of the manager return, which also completes the initialization.
ManagerStops ==
    /\ manager = "stopping"
    /\ manager' = "stopped"
    /\ initialized' = TRUE
    /\ UNCHANGED <<processVars, server, failed, requests, auth, probeVars, dropped>>

\* A request arrives at a server that accepts, and is answered.
Request(s) ==
    /\ server[s] = "serving"
    /\ requests[s] < MaxRequests
    /\ requests' = [requests EXCEPT ![s] = @ + 1]
    /\ UNCHANGED <<processVars, server, failed, managerVars, probeVars, dropped>>

Answer(s) ==
    /\ phase # "exited"
    /\ requests[s] > 0
    /\ requests' = [requests EXCEPT ![s] = @ - 1]
    /\ UNCHANGED <<processVars, server, failed, managerVars, probeVars, dropped>>

\* Serve returns an error other than ErrServerClosed.
ServeFails(s) ==
    /\ server[s] = "serving"
    /\ server' = [server EXCEPT ![s] = "closed"]
    /\ failed' = [failed EXCEPT ![s] = TRUE]
    /\ UNCHANGED <<processVars, requests, managerVars, probeVars, dropped>>

\* shutdownTimeout is over.
Expire ==
    /\ phase \in {"drain1", "drain2", "wait"}
    /\ ~expired
    /\ expired' = TRUE
    /\ UNCHANGED <<phase, exitCode, signalled, shuttingDown, server, failed, requests,
                   managerVars, probeVars, dropped>>
-----------------------------------------------------------------------------
(* Readiness.                                                              *)

\* GET /readyz.
Probe ==
    /\ server["metrics"] = "serving"
    /\ probe = "none"
    /\ probe' = "asked"
    /\ late' = (phase # "serving")
    /\ UNCHANGED <<processVars, server, failed, requests, managerVars, dropped>>

\* ready(), first operand: shuttingDown is read.
ProbeUp ==
    /\ probe = "asked" /\ phase # "exited"
    /\ probe' = IF shuttingDown THEN "none" ELSE "up"
    /\ UNCHANGED <<processVars, server, failed, requests, managerVars, late, dropped>>

\* ready(), second operand: the answer is initialized.
ProbeReady ==
    /\ probe = "up" /\ phase # "exited"
    /\ probe' = "none"
    /\ UNCHANGED <<processVars, server, failed, requests, managerVars, late, dropped>>
-----------------------------------------------------------------------------
(* run.                                                                    *)

\* The flags are wrong, or the configuration, a certificate, the client or a
\* listener cannot be had.
StartFails ==
    /\ phase = "load"
    /\ phase' = "exited"
    /\ exitCode' \in {1, 2}
    /\ server' = [s \in Servers |-> "closed"]
    /\ UNCHANGED <<signalled, shuttingDown, expired, failed, requests, managerVars,
                   probeVars, dropped>>

\* Both listeners are bound; the watchers start, the servers do not yet.
Start ==
    /\ phase = "load"
    /\ phase' = "check"
    /\ server' = [s \in Servers |-> "bound"]
    /\ manager' = "running"
    /\ UNCHANGED <<exitCode, signalled, shuttingDown, expired, failed, requests,
                   initialized, auth, probeVars, dropped>>

\* checkMetricsAuth is content, or there is nothing to check.
Serve ==
    /\ phase = "check"
    /\ MetricsAuth => auth = "usable"
    /\ phase' = "serving"
    /\ server' = [s \in Servers |-> "serving"]
    /\ UNCHANGED <<exitCode, signalled, shuttingDown, expired, failed, requests,
                   managerVars, probeVars, dropped>>

\* checkMetricsAuth fails: the Secret is of no use, or its context is over, by a
\* signal or the timeout.  The select of WaitSynced may choose the end of the context
\* even if the Secret has just been read.
CheckFails ==
    /\ phase = "check" /\ MetricsAuth
    /\ phase' = "abort"
    /\ exitCode' = 1
    /\ manager' = "stopping"
    /\ UNCHANGED <<signalled, shuttingDown, expired, server, failed, requests,
                   initialized, auth, probeVars, dropped>>

\* Mutant of Shutdown: the watchers share the context of the signal.
ShutdownAll ==
    /\ phase = "serving"
    /\ \/ signalled /\ UNCHANGED exitCode
       \/ (\E s \in Servers : failed[s]) /\ exitCode' = 1
    /\ shuttingDown' = TRUE
    /\ manager' = "stopping"
    /\ phase' = "drain1"
    /\ server' = [server EXCEPT !["secrets"] = "closed"]
    /\ UNCHANGED <<signalled, expired, failed, requests, initialized, auth, probeVars,
                   dropped>>

\* Mutant of Shutdown: readiness is not withdrawn.
ShutdownReady ==
    /\ phase = "serving"
    /\ \/ signalled /\ UNCHANGED exitCode
       \/ (\E s \in Servers : failed[s]) /\ exitCode' = 1
    /\ phase' = "drain1"
    /\ server' = [server EXCEPT !["secrets"] = "closed"]
    /\ UNCHANGED <<signalled, shuttingDown, expired, failed, requests, managerVars,
                   probeVars, dropped>>

\* The select: a signal, or a server that failed.  Readiness is withdrawn and the
\* delivery server stops accepting.
Shutdown ==
    /\ phase = "serving"
    /\ \/ signalled /\ UNCHANGED exitCode
       \/ (\E s \in Servers : failed[s]) /\ exitCode' = 1
    /\ shuttingDown' = TRUE
    /\ phase' = "drain1"
    /\ server' = [server EXCEPT !["secrets"] = "closed"]
    /\ UNCHANGED <<signalled, expired, failed, requests, managerVars, probeVars, dropped>>

\* Mutant of Returns: the error of Shutdown is only logged.
ReturnsUnnoticed(s) ==
    /\ Busy(s) => expired
    /\ UNCHANGED exitCode

\* Mutant of Returns: Shutdown has no deadline.
ReturnsDrained(s) ==
    /\ ~Busy(s)
    /\ UNCHANGED exitCode

\* Shutdown of s returns: drained, or with an error.  It polls, so that the deadline
\* may also be noticed before the last answer is, and closing a listener that has
\* failed may be an error too.
Returns(s) ==
    \/ ~Busy(s) /\ UNCHANGED exitCode
    \/ expired /\ exitCode' = 1
    \/ ~Busy(s) /\ failed[s] /\ exitCode' = 1

\* The delivery server is through: it is the metrics server's turn.
Drained1 ==
    /\ phase = "drain1"
    /\ Returns("secrets")
    /\ phase' = "drain2"
    /\ server' = [server EXCEPT !["metrics"] = "closed"]
    /\ UNCHANGED <<signalled, shuttingDown, expired, failed, requests, managerVars,
                   probeVars, dropped>>

\* Both are through: the background context is cancelled.
Drained2 ==
    /\ phase = "drain2"
    /\ Returns("metrics")
    /\ phase' = "wait"
    /\ manager' = "stopping"
    /\ UNCHANGED <<signalled, shuttingDown, expired, server, failed, requests,
                   initialized, auth, probeVars, dropped>>

\* manager.Wait returns and run ends, with it every request still in flight.
Exit ==
    /\ phase \in {"wait", "abort"}
    /\ manager = "stopped"
    /\ phase' = "exited"
    /\ server' = [s \in Servers |-> "closed"]
    /\ dropped' = \E s \in Servers : Busy(s)
    /\ UNCHANGED <<exitCode, signalled, shuttingDown, expired, failed, requests,
                   managerVars, probeVars>>
-----------------------------------------------------------------------------
Run == StartFails \/ Start \/ Serve \/ CheckFails \/ Shutdown \/ Drained1 \/ Drained2 \/ Exit

Next ==
    \/ Run \/ Signal \/ Kill \/ Sync \/ Initialize \/ ManagerStops \/ Expire
    \/ Probe \/ ProbeUp \/ ProbeReady
    \/ \E s \in Servers : Request(s) \/ Answer(s) \/ ServeFails(s)
    \/ phase = "exited" /\ UNCHANGED vars

Spec == Init /\ [][Next]_vars

\* Fairness: run goes on, its timers fire, and the goroutines of a cancelled manager
\* return (ShutdownCompletes of SecretManager).  No request has to end.
FairSpec ==
    Spec /\ WF_vars(Run) /\ WF_vars(Expire) /\ WF_vars(ManagerStops)
-----------------------------------------------------------------------------
(* Properties.                                                             *)

\* "Watchers and certificate reloaders get their own context so they keep running
\* until in-flight HTTP requests have drained" (main.go): no request is served by
\* stopped watchers before the deadline.
WatchersOutliveRequests ==
    manager \in {"stopping", "stopped"} /\ ~expired => \A s \in Servers : ~Busy(s)

\* A probe that is asked after the shutdown began is never told that the gateway
\* is ready, although stopping the manager completes its initialization.
NeverReadyAgain ==
    [][probe = "up" /\ probe' = "none" /\ initialized => ~late]_vars

\* Exit code 0 means that no request was cut off.
CleanExit == phase = "exited" /\ exitCode = 0 => ~dropped

\* A signal ends the process, whatever the clients do.
Terminates == signalled ~> phase = "exited"
=============================================================================
