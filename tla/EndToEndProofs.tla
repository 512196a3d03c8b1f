---------------------------- MODULE EndToEndProofs ----------------------------
(***************************************************************************)
(* Proofs about EndToEnd for any number of replicas, versions, targets,    *)
(* restarts, failures and crashes, while the agent is not routed to a      *)
(* replica that lags behind: the replicas are together the gateway that    *)
(* AgentSync supposes, so that what AgentSyncProofs proves holds from the  *)
(* API server to the files.                                                *)
(***************************************************************************)
EXTENDS EndToEnd, TLAPS

\* The theorems about the host.
HostProofs == INSTANCE AgentSyncProofs WITH
    served <- Served, available <- Available, MaxContent <- MaxVersion,
    Incomplete <- {}, Rollback <- FALSE, HasCommand <- FALSE, MaxTampering <- 0

(***************************************************************************)
(* Host and HostProofs are two instances of one specification: their       *)
(* definitions, expanded, are the same formulas.                           *)
(***************************************************************************)
LEMMA SameNext == Host!Next <=> HostProofs!Next
BY DEF
    Host!Next, Host!Rotate, Host!HostNext, Host!Sync, Host!SyncFails, Host!Begin,
    Host!NotModified, Host!Fetched, Host!MissingKeys, Host!Unavailable,
    Host!Stage, Host!Rename, Host!Flush, Host!Stamp, Host!Command, Host!Commit,
    Host!BeginFails, Host!FetchFails, Host!InstallFails, Host!FlushFails,
    Host!StampFails, Host!CommandFails, Host!CommitFails, Host!Crash,
    Host!PowerLoss, Host!Restart, Host!Writeback, Host!Tamper, Host!Finish,
    Host!Fail, Host!Die, Host!NextTarget, Host!currentETag, Host!Complete,
    Host!AfterStamp, Host!Flushed, Host!WrittenBack, Host!gatewayVars,
    Host!diskVars, Host!syncVars, Host!limitVars, Host!historyVars, Host!Targets,
    Host!Contents, Host!None, Host!Foreign, Host!Tags, Host!Files, Host!Empty,
    HostProofs!Next, HostProofs!Rotate, HostProofs!HostNext, HostProofs!Sync,
    HostProofs!SyncFails, HostProofs!Begin, HostProofs!NotModified,
    HostProofs!Fetched, HostProofs!MissingKeys, HostProofs!Unavailable,
    HostProofs!Stage, HostProofs!Rename, HostProofs!Flush, HostProofs!Stamp,
    HostProofs!Command, HostProofs!Commit, HostProofs!BeginFails,
    HostProofs!FetchFails, HostProofs!InstallFails, HostProofs!FlushFails,
    HostProofs!StampFails, HostProofs!CommandFails, HostProofs!CommitFails,
    HostProofs!Crash, HostProofs!PowerLoss, HostProofs!Restart,
    HostProofs!Writeback, HostProofs!Tamper, HostProofs!Finish, HostProofs!Fail,
    HostProofs!Die, HostProofs!NextTarget, HostProofs!currentETag,
    HostProofs!Complete, HostProofs!AfterStamp, HostProofs!Flushed,
    HostProofs!WrittenBack, HostProofs!gatewayVars, HostProofs!diskVars,
    HostProofs!syncVars, HostProofs!limitVars, HostProofs!historyVars,
    HostProofs!Targets, HostProofs!Contents, HostProofs!None, HostProofs!Foreign,
    HostProofs!Tags, HostProofs!Files, HostProofs!Empty

\* The host of EndToEnd starts as the one the proofs of AgentSync are about...
LEMMA SameInit == Host!Init <=> HostProofs!Init
BY DEF Host!Init, HostProofs!Init, Host!InitHost, HostProofs!InitHost,
       Host!Contents, HostProofs!Contents, Host!Targets, HostProofs!Targets,
       Host!None, HostProofs!None, Host!Empty, HostProofs!Empty

\* ...and has the same state.
LEMMA SameVars == Host!vars = HostProofs!vars
BY DEF Host!vars, HostProofs!vars, Host!gatewayVars, HostProofs!gatewayVars,
       Host!diskVars, HostProofs!diskVars, Host!syncVars, HostProofs!syncVars,
       Host!limitVars, HostProofs!limitVars, Host!historyVars, HostProofs!historyVars

\* The assumption of AgentSync holds of the host.
LEMMA HostAssumption == HostProofs!AgentAssumption
BY EndToEndAssumption DEF HostProofs!AgentAssumption

-----------------------------------------------------------------------------
(* The cluster.                                                            *)

Snapshots == [present : BOOLEAN, synced : BOOLEAN, rv : Nat]

\* No replica has seen a version that the API server does not have.
ClusterInv ==
    /\ secret \in Seq(BOOLEAN)
    /\ Len(secret) \in 1..MaxVersion
    /\ cache \in [Replicas -> Snapshots]
    /\ high \in [Replicas -> 0..Len(secret)]
    /\ route \in Replicas

\* A replica that observes the Secret keeps its range and its high never sinks.
LEMMA ObserveStep ==
    ASSUME ClusterInv, NEW g \in Replicas, Observe(g)
    PROVE  /\ cache' \in [Replicas -> Snapshots]
           /\ high' \in [Replicas -> 0..Len(secret)]
           /\ \A h \in Replicas : high'[h] >= high[h]
<1>1. PICK v \in 1..Len(secret) :
        /\ v >= high[g]
        /\ cache' = [cache EXCEPT ![g] = Manager!View(g, v)]
        /\ high' = [high EXCEPT ![g] = IF secret[v] THEN v ELSE @]
  BY DEF Observe, Manager!AObserve, Manager!Latest
<1>2. Manager!View(g, v) \in Snapshots
  <2>1. secret[v] \in BOOLEAN
    BY DEF ClusterInv
  <2>2. v \in Nat
    BY DEF ClusterInv
  <2> QED
    BY <2>1, <2>2 DEF Manager!View, Snapshots
<1>3. cache' \in [Replicas -> Snapshots]
  BY <1>1, <1>2 DEF ClusterInv
<1>4. (IF secret[v] THEN v ELSE high[g]) \in high[g]..Len(secret)
  BY <1>1 DEF ClusterInv
<1>5. high' \in [Replicas -> 0..Len(secret)] /\ \A h \in Replicas : high'[h] >= high[h]
  BY <1>1, <1>4 DEF ClusterInv
<1> QED
  BY <1>3, <1>5

\* A replica that restarts forgets its snapshot, not what the Secret has been.
LEMMA RestartStep ==
    ASSUME ClusterInv, NEW g \in Replicas, ReplicaRestart(g)
    PROVE  /\ cache' \in [Replicas -> Snapshots]
           /\ high' \in [Replicas -> 0..Len(secret)]
           /\ \A h \in Replicas : high'[h] >= high[h]
<1>1. Manager!Unsynced \in Snapshots
  BY DEF Manager!Unsynced, Snapshots
<1>2. cache' \in [Replicas -> Snapshots]
  BY <1>1 DEF ClusterInv, ReplicaRestart
<1>3. high' \in [Replicas -> 0..Len(secret)] /\ \A h \in Replicas : high'[h] >= high[h]
  BY DEF ClusterInv, ReplicaRestart
<1> QED
  BY <1>2, <1>3

\* A change of the Secret preserves the invariant of the replicas.
LEMMA ChangeStep ==
    ASSUME ClusterInv, Change
    PROVE  ClusterInv'
<1>1. PICK e \in BOOLEAN : secret' = Append(secret, e)
  BY DEF Change
<1>2. secret' \in Seq(BOOLEAN) /\ Len(secret') = Len(secret) + 1
  BY <1>1 DEF ClusterInv
<1>3. Len(secret') \in 1..MaxVersion
  BY <1>2, EndToEndAssumption DEF ClusterInv, Change
<1>4. high' \in [Replicas -> 0..Len(secret')]
  BY <1>2 DEF ClusterInv, Change
<1> QED
  BY <1>2, <1>3, <1>4 DEF ClusterInv, Change

\* The invariant of the replicas.
LEMMA ClusterInvariance == Spec => []ClusterInv
<1>1. Init => ClusterInv
  <2> SUFFICES ASSUME Init PROVE ClusterInv
    OBVIOUS
  <2>1. secret \in Seq(BOOLEAN) /\ Len(secret) = 1
    <3>1. PICK e \in BOOLEAN : secret = <<e>>
      BY DEF Init
    <3> QED
      BY <3>1
  <2>2. Manager!Unsynced \in Snapshots
    BY DEF Manager!Unsynced, Snapshots
  <2>3. cache \in [Replicas -> Snapshots]
    BY <2>2 DEF Init
  <2>4. high \in [Replicas -> 0..Len(secret)]
    BY <2>1 DEF Init
  <2> QED
    BY <2>1, <2>3, <2>4, EndToEndAssumption DEF Init, ClusterInv
<1>2. ClusterInv /\ [Next]_vars => ClusterInv'
  <2> SUFFICES ASSUME ClusterInv, [Next]_vars PROVE ClusterInv'
    OBVIOUS
  <2>1. CASE Change
    BY <2>1, ChangeStep
  <2>2. CASE Route
    BY <2>2 DEF ClusterInv, Route
  <2>3. ASSUME NEW g \in Replicas, Observe(g) PROVE ClusterInv'
    BY <2>3, ObserveStep DEF ClusterInv, Observe
  <2>4. ASSUME NEW g \in Replicas, ReplicaRestart(g) PROVE ClusterInv'
    BY <2>4, RestartStep DEF ClusterInv, ReplicaRestart
  <2>5. CASE HostStep
    BY <2>5 DEF ClusterInv, HostStep, clusterVars
  <2>6. CASE UNCHANGED vars
    BY <2>6 DEF ClusterInv, vars, clusterVars
  <2> QED
    BY <2>1, <2>2, <2>3, <2>4, <2>5, <2>6 DEF Next, Cluster
<1> QED
  BY <1>1, <1>2, PTL DEF Spec

-----------------------------------------------------------------------------
(* The gateway that the host sees.                                         *)

\* The content served is one of the versions, the availability a Boolean.
LEMMA GatewayRange ==
    ASSUME ClusterInv
    PROVE  Served \in Host!Contents /\ Available \in BOOLEAN
<1>1. Served \in 1..MaxVersion
  BY EndToEndAssumption DEF ClusterInv, Served
<1>2. cache[route] \in Snapshots
  BY DEF ClusterInv
<1>3. Available \in BOOLEAN
  BY <1>2 DEF Available, Snapshots
<1> QED
  BY <1>1, <1>3 DEF Host!Contents

\* A step of the cluster that does not lower what is served is a step of the gateway
\* that AgentSync supposes, or the host does not see it.
LEMMA GatewayStep ==
    ASSUME ClusterInv, ClusterInv', UNCHANGED hostVars, Served' >= Served
    PROVE  Host!Rotate \/ UNCHANGED Host!vars
<1>1. Served' \in Host!Contents /\ Available' \in BOOLEAN
  <2>1. (Served \in Host!Contents /\ Available \in BOOLEAN)'
    BY GatewayRange, PTL
  <2> QED
    BY <2>1 DEF Host!Contents
<1>2. CASE UNCHANGED <<Served, Available>>
  BY <1>2 DEF Host!vars, Host!gatewayVars, Host!diskVars, Host!syncVars, Host!limitVars,
              Host!historyVars, hostVars
<1>3. CASE ~UNCHANGED <<Served, Available>>
  BY <1>1, <1>3 DEF Host!Rotate, Host!gatewayVars, Host!diskVars, Host!syncVars,
                    Host!limitVars, Host!historyVars, hostVars
<1> QED
  BY <1>2, <1>3

\* While nobody is routed to a replica that lags behind, what is served never sinks.
LEMMA ServedForward ==
    ASSUME ClusterInv, ~Lagging, Cluster
    PROVE  Served' >= Served
<1>1. CASE Change
  BY <1>1 DEF Change, Served, ClusterInv
<1>2. CASE Route
  BY <1>2 DEF Route, Served, ClusterInv
<1>3. ASSUME NEW g \in Replicas, Observe(g) PROVE Served' >= Served
  BY <1>3, ObserveStep DEF Observe, Served, ClusterInv
<1>4. ASSUME NEW g \in Replicas, ReplicaRestart(g) PROVE Served' >= Served
  BY <1>4, RestartStep DEF ReplicaRestart, Served, ClusterInv
<1> QED
  BY <1>1, <1>2, <1>3, <1>4 DEF Cluster

\* Every step of the system is a step of a host behind one gateway, or none.
LEMMA StepMaps ==
    ASSUME ClusterInv, ClusterInv', ~Lagging, [Next]_vars
    PROVE  [Host!Next]_(Host!vars)
<1>1. CASE Cluster
  <2>1. UNCHANGED hostVars
    BY <1>1 DEF Cluster, Change, Route, Observe, ReplicaRestart
  <2>2. Host!Rotate \/ UNCHANGED Host!vars
    BY <1>1, <2>1, ServedForward, GatewayStep
  <2> QED
    BY <2>2 DEF Host!Next
<1>2. CASE HostStep
  BY <1>2 DEF HostStep, Host!Next
<1>3. CASE UNCHANGED vars
  BY <1>3 DEF vars, clusterVars, hostVars, Host!vars, Host!gatewayVars, Host!diskVars,
              Host!syncVars, Host!limitVars, Host!historyVars, Served, Available
<1> QED
  BY <1>1, <1>2, <1>3 DEF Next

\* The initial states are those of a host behind one gateway.
LEMMA InitMaps == Init => Host!Init
<1> SUFFICES ASSUME Init PROVE Host!Init
  OBVIOUS
<1>1. Served = 1
  BY DEF Init, Served
<1>2. Available = FALSE
  BY DEF Init, Available, Manager!Unsynced
<1>3. Served \in Host!Contents
  BY <1>1, EndToEndAssumption DEF Host!Contents
<1>4. Host!InitHost
  BY DEF Init
<1> QED
  BY <1>1, <1>2, <1>3, <1>4, Zenon DEF Host!Init

(***************************************************************************)
(* Unless the agent is routed to a replica that lags behind, any number of *)
(* replicas, each with a manager that never replaces its snapshot by an    *)
(* older version (observe, reconcile) and that may be restarted, are the   *)
(* gateway that the agent's properties suppose.                            *)
(***************************************************************************)
THEOREM ReplicasAreOneGateway ==
    ASSUME ~Lagging
    PROVE  Spec => ImplementsForwardHost
<1>1. ClusterInv /\ ClusterInv' /\ [Next]_vars => [Host!Next]_(Host!vars)
  BY StepMaps
<1> QED
  BY <1>1, InitMaps, ClusterInvariance, PTL DEF Spec, ImplementsForwardHost, Host!Spec

\* The specification of the host is that of AgentSyncProofs.
LEMMA HostIsProved == Host!Spec => HostProofs!Spec
<1>1. [Host!Next]_(Host!vars) => [HostProofs!Next]_(HostProofs!vars)
  <2>1. (Host!vars = HostProofs!vars) /\ (Host!vars = HostProofs!vars)'
    BY SameVars, PTL
  <2> QED
    BY <2>1, SameNext
<1> QED
  BY <1>1, SameInit, PTL DEF Host!Spec, HostProofs!Spec

(***************************************************************************)
(* A host whose last Sync ended well has a complete set of targets, also   *)
(* after a crash between two renames and whatever happened to the replicas *)
(* meanwhile (agent/README.md: "The next run fetches the complete exposure *)
(* and repairs every target").                                             *)
(***************************************************************************)
THEOREM HostIsCoherent ==
    ASSUME ~Lagging
    PROVE  Spec => []HostCoherent
<1>1. HostProofs!Spec => []HostProofs!HealthyIsCoherent
  BY HostAssumption, HostProofs!HealthyCoherent
<1>2. HostProofs!HealthyIsCoherent => HostCoherent
  BY DEF HostCoherent, Host!HealthyIsCoherent, HostProofs!HealthyIsCoherent,
         Host!Targets, HostProofs!Targets, Host!Foreign, HostProofs!Foreign
<1> QED
  BY <1>1, <1>2, ReplicasAreOneGateway, HostIsProved, PTL DEF ImplementsForwardHost

(***************************************************************************)
(* From the API server to the host: as long as the host does not lose      *)
(* power, no rename of the agent replaces a target by an older version of  *)
(* the Secret than it holds, through however many restarts of the replicas *)
(* and crashes of the agent.                                               *)
(***************************************************************************)
THEOREM FilesMoveForward ==
    ASSUME ~Lagging
    PROVE  Spec => FilesNeverGoBack
<1>1. HostProofs!Spec => HostProofs!TargetsForward
  BY HostAssumption, HostProofs!TargetsMoveForward
<1>2. HostProofs!Spec => []HostProofs!TypeOK
  BY HostAssumption, HostProofs!TypeCorrect
<1>3. HostProofs!TypeOK => /\ tampering = 0
                           /\ \A t \in Host!Targets : file[t] >= file[t]
  <2> SUFFICES ASSUME HostProofs!TypeOK
               PROVE  tampering = 0 /\ \A t \in Host!Targets : file[t] >= file[t]
    OBVIOUS
  <2>1. tampering = 0
    BY DEF HostProofs!TypeOK
  <2>2. \A t \in Host!Targets : file[t] \in Nat
    <3>1. file \in HostProofs!Files
      BY DEF HostProofs!TypeOK
    <3> QED
      BY <3>1, EndToEndAssumption
      DEF HostProofs!Files, HostProofs!Tags, HostProofs!Contents, HostProofs!None,
          HostProofs!Foreign, HostProofs!Targets, Host!Targets
  <2> QED
    BY <2>1, <2>2
<1>4. /\ HostProofs!TypeOK
      /\ HostProofs!TypeOK'
      /\ [pc' # "down" /\ tampering' = 0 =>
              \A t \in HostProofs!Targets : file'[t] >= file[t]]_(HostProofs!vars)
      => [pc' # "down" => \A t \in Host!Targets : file'[t] >= file[t]]_vars
  <2> SUFFICES ASSUME HostProofs!TypeOK, HostProofs!TypeOK', pc' # "down",
                      [pc' # "down" /\ tampering' = 0 =>
                        \A t \in HostProofs!Targets : file'[t] >= file[t]]_(HostProofs!vars),
                      NEW t \in Host!Targets
               PROVE  file'[t] >= file[t]
    OBVIOUS
  <2>1. tampering' = 0
    BY DEF HostProofs!TypeOK
  <2>2. CASE UNCHANGED HostProofs!vars
    BY <2>2, <1>3 DEF HostProofs!vars, HostProofs!diskVars
  <2>3. CASE ~UNCHANGED HostProofs!vars
    BY <2>1, <2>3 DEF HostProofs!Targets, Host!Targets
  <2> QED
    BY <2>2, <2>3
<1> QED
  BY <1>1, <1>2, <1>4, ReplicasAreOneGateway, HostIsProved, PTL
  DEF ImplementsForwardHost, FilesNeverGoBack, HostProofs!TargetsForward
=============================================================================
