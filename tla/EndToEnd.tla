------------------------------ MODULE EndToEnd -------------------------------
(***************************************************************************)
(* One Secret on its way from the Kubernetes API server through the        *)
(* replicas of the gateway to the files of one host.  Every replica keeps  *)
(* the snapshot that SecretCache promises (SecretManager implements it);   *)
(* the host runs the agent of AgentSync, which sees, as "the gateway", the *)
(* replica its next request is routed to.                                  *)
(*                                                                         *)
(* Every version of the Secret has new values, so a version is its own     *)
(* content and, since the ETag is keyed with the Secret's UID, which all   *)
(* replicas share, its own ETag at every replica.                          *)
(***************************************************************************)
EXTENDS Naturals, Sequences

CONSTANTS
    Replicas,       \* the gateway's pods behind one address
    Lagging,        \* may the agent be routed to a replica that lags behind?
    MaxVersion,     \* bound: versions of the Secret
    MaxRestarts,    \* bound: restarts of replicas
    NumTargets, MaxFailures, MaxCrashes     \* of AgentSync

ASSUME EndToEndAssumption ==
    /\ Replicas # {} /\ Lagging \in BOOLEAN
    /\ MaxVersion \in Nat \ {0} /\ MaxRestarts \in Nat
    /\ NumTargets \in Nat \ {0} /\ MaxFailures \in Nat /\ MaxCrashes \in Nat

VARIABLES
    secret,         \* API server: secret[v], does the Secret exist at version v
    cache,          \* the snapshot of every replica
    high,           \* the version below which a replica's snapshot cannot be
    route,          \* the replica that answers the agent next
    restarts,
    \* the host, see AgentSync
    file, modeOK, temp, stamped, etag, durable, pc, tag, result, n, healthy, loaded,
    tampered, owed, renames, failures, crashes, tampering

clusterVars == <<secret, cache, high, route, restarts>>
hostVars == <<file, modeOK, temp, stamped, etag, durable, pc, tag, result, n, healthy,
              loaded, tampered, owed, renames, failures, crashes, tampering>>
vars == <<clusterVars, hostVars>>

Manager == INSTANCE SecretCache WITH
    Refs <- Replicas,
    hist <- [g \in Replicas |-> secret]

\* What the exposure answers at the replica the agent is routed to.
Available == cache[route].present
Served == IF high[route] = 0 THEN 1 ELSE high[route]

\* The host.  What it does is the same whatever its gateway does; its specification
\* supposes one that never goes back.
Host == INSTANCE AgentSync WITH
    served <- Served, available <- Available, MaxContent <- MaxVersion,
    Incomplete <- {}, Rollback <- FALSE, HasCommand <- FALSE, MaxTampering <- 0

Init ==
    /\ secret \in {<<e>> : e \in BOOLEAN}
    /\ cache = [g \in Replicas |-> Manager!Unsynced]
    /\ high = [g \in Replicas |-> 0]
    /\ route \in Replicas
    /\ restarts = 0
    /\ Host!InitHost
-----------------------------------------------------------------------------
(* The cluster.                                                            *)

\* A writer creates, updates or deletes the Secret.
Change ==
    /\ Len(secret) < MaxVersion
    /\ \E e \in BOOLEAN :
        /\ e \/ secret[Len(secret)]
        /\ secret' = Append(secret, e)
    /\ UNCHANGED <<cache, high, route, restarts, hostVars>>

\* A replica's manager replaces its snapshot.
Observe(g) ==
    /\ UNCHANGED <<secret, route, restarts, hostVars>>
    /\ Manager!AObserve(g)
    /\ cache' # cache

\* Mutant of ReplicaRestart: the first list may be answered from an old cache.
ReplicaRestartStale(g) ==
    /\ restarts < MaxRestarts
    /\ restarts' = restarts + 1
    /\ cache' = [cache EXCEPT ![g] = Manager!Unsynced]
    /\ high' = [high EXCEPT ![g] = 0]
    /\ UNCHANGED <<secret, route, hostVars>>

\* A replica is replaced.  Its manager starts with a list that names no
\* resourceVersion, which the API server answers from its newest state.
ReplicaRestart(g) ==
    /\ restarts < MaxRestarts
    /\ restarts' = restarts + 1
    /\ cache' = [cache EXCEPT ![g] = Manager!Unsynced]
    /\ high' = [high EXCEPT ![g] = Len(secret)]
    /\ UNCHANGED <<secret, route, hostVars>>

\* The agent's next connection goes to another replica.
Route ==
    /\ route' \in Replicas \ {route}
    /\ Lagging \/ high[route'] >= high[route]
    /\ UNCHANGED <<secret, cache, high, restarts, hostVars>>

Cluster == Change \/ Route \/ \E g \in Replicas : Observe(g) \/ ReplicaRestart(g)
-----------------------------------------------------------------------------
HostSync    == UNCHANGED clusterVars /\ Host!Sync
HostRestart == UNCHANGED clusterVars /\ Host!Restart
HostStep    == UNCHANGED clusterVars /\ Host!HostNext

Next == Cluster \/ HostStep

Spec == Init /\ [][Next]_vars

\* The agent's fairness is that of AgentSync.
FairSpec == Spec /\ WF_vars(HostSync) /\ WF_vars(HostRestart)
-----------------------------------------------------------------------------
(* Properties.                                                             *)

\* Unless the agent is routed to a replica that lags behind, the replicas, restarted
\* or not, are the gateway that the agent's own properties assume: the contents
\* served only move forward, because a manager never replaces its snapshot by an
\* older version (observe, reconcile).
ImplementsForwardHost == Host!Spec

\* From the API server to the host: as long as the host does not lose power, no
\* rename replaces a target by an older version of the Secret than it holds.
FilesNeverGoBack ==
    [][pc' # "down" => \A t \in Host!Targets : file'[t] >= file[t]]_vars

\* A host whose last Sync ended well has a complete set of targets, also after a
\* crash between two renames (agent/README.md: "The next run fetches the complete
\* exposure and repairs every target").
HostCoherent == Host!HealthyIsCoherent

\* When the Secret stays as it is and the replica the agent talks to has caught up
\* with it, which its manager eventually does, the newest version is installed.
CaughtUp ==
    /\ secret[Len(secret)]
    /\ cache[route] = Manager!View(route, Manager!Latest(route))
EventuallyNewest ==
    <>[]CaughtUp =>
        <>[](renames = "lost" \/ \A t \in Host!Targets : file[t] = Len(secret))
=============================================================================
