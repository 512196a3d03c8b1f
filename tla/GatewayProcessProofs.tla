------------------------- MODULE GatewayProcessProofs -------------------------
(***************************************************************************)
(* Proofs about GatewayLifecycle and GatewayProcess, for any number of     *)
(* requests in flight: what the shutdown promises, first for run alone,    *)
(* then for the process with its certificate reloader, of which run is     *)
(* shown to be the projection; and the pair that the reloader serves.      *)
(***************************************************************************)
EXTENDS GatewayProcess, TLAPS

-----------------------------------------------------------------------------
(* run.                                                                    *)

\* The ranges of what the proofs look at.
LifeTypeOK ==
    /\ phase \in Phases
    /\ exitCode \in {0, 1, 2}
    /\ server \in [Servers -> {"new", "bound", "serving", "closed"}]
    /\ requests \in [Servers -> Nat]
    /\ probe \in {"none", "asked", "up"}

Stopping == manager \in {"stopping", "stopped"}

\* Outside of these phases no server accepts: the delivery server stops first.
AcceptInv ==
    /\ server["secrets"] = "serving" => phase = "serving"
    /\ server["metrics"] = "serving" => phase \in {"serving", "drain1"}

\* Before the servers accept there is nothing to drain, and nothing is dropped.
QuietInv ==
    /\ phase \in {"load", "check", "abort"} => \A s \in Servers : ~Busy(s)
    /\ dropped => phase = "exited"

\* A server that was passed while requests were in flight on it was passed because
\* the deadline was over, which left an exit code.
DrainInv ==
    /\ phase \in {"drain2", "wait"} /\ (exitCode = 0 \/ ~expired) => ~Busy("secrets")
    /\ phase = "wait" /\ (exitCode = 0 \/ ~expired) => ~Busy("metrics")

\* The watchers are stopped last.
StopInv ==
    /\ Stopping => phase \in {"wait", "abort", "exited"}
    /\ Stopping /\ ~expired => \A s \in Servers : ~Busy(s)

\* A probe asked during the shutdown finds that it has begun.
ProbeInv ==
    /\ phase \in {"drain1", "drain2", "wait"} => shuttingDown
    /\ probe # "none" /\ late => shuttingDown /\ probe = "asked"

LifeInv ==
    /\ LifeTypeOK
    /\ AcceptInv
    /\ QuietInv
    /\ DrainInv
    /\ StopInv
    /\ ProbeInv
    /\ CleanExit

\* The invariant of the process holds when it is started.
LEMMA LifeInit == Init => LifeInv
BY DEF Init, LifeInv, LifeTypeOK, Phases, Servers, AcceptInv, QuietInv, Busy, DrainInv,
       StopInv, Stopping, ProbeInv, CleanExit

\* Every step of the process preserves its invariant.
LEMMA LifeStep ==
    ASSUME LifeInv, [Next]_vars
    PROVE  LifeInv'
<1> USE DEF LifeInv, LifeTypeOK, AcceptInv, QuietInv, DrainInv, StopInv, Stopping,
            ProbeInv, CleanExit, Busy, Phases, Servers, processVars, managerVars, probeVars
<1>1. CASE StartFails
  BY <1>1 DEF StartFails
<1>2. CASE Start
  BY <1>2 DEF Start
<1>3. CASE Serve
  BY <1>3 DEF Serve
<1>4. CASE CheckFails
  BY <1>4 DEF CheckFails
<1>5. CASE Shutdown
  BY <1>5 DEF Shutdown
<1>6. CASE Drained1
  BY <1>6 DEF Drained1, Returns
<1>7. CASE Drained2
  BY <1>7 DEF Drained2, Returns
<1>8. CASE Exit
  BY <1>8 DEF Exit
<1>9. CASE Signal
  BY <1>9 DEF Signal
<1>10. CASE Kill
  BY <1>10 DEF Kill
<1>11. CASE Sync
  BY <1>11 DEF Sync
<1>12. CASE Initialize
  BY <1>12 DEF Initialize
<1>13. CASE ManagerStops
  BY <1>13 DEF ManagerStops
<1>14. CASE Expire
  BY <1>14 DEF Expire
<1>15. CASE Probe
  BY <1>15 DEF Probe
<1>16. CASE ProbeUp
  BY <1>16 DEF ProbeUp
<1>17. CASE ProbeReady
  BY <1>17 DEF ProbeReady
<1>18. ASSUME NEW s \in Servers, Request(s) PROVE LifeInv'
  BY <1>18 DEF Request
<1>19. ASSUME NEW s \in Servers, Answer(s) PROVE LifeInv'
  BY <1>19 DEF Answer
<1>20. ASSUME NEW s \in Servers, ServeFails(s) PROVE LifeInv'
  BY <1>20 DEF ServeFails
<1>21. CASE UNCHANGED vars
  BY <1>21 DEF vars
<1> QED
  BY <1>1, <1>2, <1>3, <1>4, <1>5, <1>6, <1>7, <1>8, <1>9, <1>10, <1>11, <1>12, <1>13,
     <1>14, <1>15, <1>16, <1>17, <1>18, <1>19, <1>20, <1>21
  DEF Next, Run

\* The invariant of the process, without certificates.
LEMMA LifeInvariance == Spec => []LifeInv
BY LifeInit, LifeStep, PTL DEF Spec

-----------------------------------------------------------------------------
(* The process.                                                            *)

\* With or without the reloader, run takes the same steps: a pair that cannot be
\* loaded is one of the reasons for which the start fails.
LEMMA ProcessStep ==
    ASSUME [ProcessNext]_processState
    PROVE  [Next]_vars
<1>1. CASE Life
  BY <1>1 DEF Life
<1>2. CASE LoadTLS
  BY <1>2 DEF LoadTLS, Next, Run, StartFails
<1>3. CASE UNCHANGED vars
  BY <1>3
<1> QED
  BY <1>1, <1>2, <1>3 DEF ProcessNext, Tick, processState

\* With certificates the process still is the one of GatewayLifecycle.
LEMMA ProcessIsRun == ProcessSpec => Spec
<1>1. ProcessInit => Init
  BY DEF ProcessInit
<1>2. ProcessSpec => ProcessInit /\ [][ProcessNext]_processState
  BY PTL DEF ProcessSpec
<1> QED
  BY <1>1, <1>2, ProcessStep, PTL DEF Spec

(***************************************************************************)
(* "Watchers and certificate reloaders get their own context so they keep  *)
(* running until in-flight HTTP requests have drained" (main.go): once run *)
(* has stopped the watchers, no request and no probe is in flight on       *)
(* either server, unless the deadline of the shutdown is over.             *)
(***************************************************************************)
THEOREM WatchersStopLast == ProcessSpec => []WatchersOutliveRequests
<1>1. LifeInv => WatchersOutliveRequests
  BY DEF LifeInv, StopInv, Stopping, WatchersOutliveRequests
<1> QED
  BY <1>1, ProcessIsRun, LifeInvariance, PTL

\* Exit code 0 means that run returned with no request in flight, whichever server
\* failed, however the signals came and whatever the deadline interrupted.
THEOREM ZeroIsClean == ProcessSpec => []CleanExit
<1>1. LifeInv => CleanExit
  BY DEF LifeInv
<1> QED
  BY <1>1, ProcessIsRun, LifeInvariance, PTL

\* A probe that is asked after the shutdown began is never told that the gateway is
\* ready, although ready() reads shuttingDown and the manager's state one after the
\* other and stopping the manager completes its initialization.
THEOREM NotReadyOnceStopping == ProcessSpec => NeverReadyAgain
<1>1. LifeInv => [probe = "up" /\ probe' = "none" /\ initialized => ~late]_vars
  BY DEF LifeInv, ProbeInv
<1> QED
  BY <1>1, ProcessIsRun, LifeInvariance, PTL DEF NeverReadyAgain

-----------------------------------------------------------------------------
(* The certificate.                                                        *)

\* Nobody has a certificate that was not issued; a reload has read what it loads; a
\* pair that was loaded still matches, whatever was issued since.
CertInv ==
    /\ issued \in Seq(Nat) /\ Len(issued) > 0
    /\ certFile \in 0..Len(issued) /\ certPEM \in 0..Len(issued)
    /\ step \in {"key", "load"} => certPEM # 0
    /\ pair # Certs!NoPair => pair.cert \in 1..Len(issued) /\ pair.key = issued[pair.cert]

\* The listeners are bound once a pair is loaded.
BoundInv ==
    /\ phase = "load" => server = [s \in Servers |-> "new"]
    /\ phase \notin {"load", "exited"} => pair # Certs!NoPair

\* The invariant of the reloader holds before the first reload.
LEMMA CertInit == ProcessInit => CertInv /\ BoundInv
<1> SUFFICES ASSUME ProcessInit PROVE CertInv /\ BoundInv
  OBVIOUS
<1>1. issued = <<1>> /\ issued \in Seq(Nat) /\ Len(issued) = 1
  BY DEF ProcessInit, Certs!InitCerts
<1> QED
  BY <1>1 DEF ProcessInit, Init, Certs!InitCerts, CertInv, BoundInv, Servers, Certs!NoPair,
              Certs!Unreadable

\* A certificate that is issued is a new one, and the others keep their keys.
LEMMA IssueStep ==
    ASSUME CertInv, NEW keys \in SUBSET Nat, Certs!Issue(keys)
    PROVE  /\ issued' \in Seq(Nat) /\ Len(issued') = Len(issued) + 1
           /\ \A c \in 1..Len(issued) : issued'[c] = issued[c]
  BY DEF CertInv, Certs!Issue

\* The files are replaced, together or one after the other, or damaged.
LEMMA FilesStep ==
    ASSUME CertInv, Certs!Files
    PROVE  CertInv' /\ pair' = pair
<1> USE DEF Certs!reloadVars
<1>1. Len(issued) \in Nat \ {0}
  BY DEF CertInv
<1>2. {Certs!NewKey, Certs!Newest.key} \in SUBSET Nat /\ {Certs!NewKey} \in SUBSET Nat
  BY <1>1 DEF CertInv, Certs!NewKey, Certs!Newest
<1>3. CASE Certs!Renew \/ Certs!RenewCert \/ Certs!RenewKey
  <2>1. /\ issued' \in Seq(Nat) /\ Len(issued') = Len(issued) + 1
        /\ \A c \in 1..Len(issued) : issued'[c] = issued[c]
    BY <1>2, <1>3, IssueStep DEF Certs!Renew, Certs!RenewCert, Certs!RenewKey
  <2>2. certFile' \in {certFile, Len(issued')}
    BY <1>3 DEF Certs!Renew, Certs!RenewCert, Certs!RenewKey, Certs!Newest
  <2>3. step' = step /\ certPEM' = certPEM /\ pair' = pair
    BY <1>3 DEF Certs!Renew, Certs!RenewCert, Certs!RenewKey
  <2> QED
    BY <1>1, <2>1, <2>2, <2>3 DEF CertInv, Certs!NoPair
<1>4. CASE Certs!Complete \/ Certs!Damage
  <2>1. issued' = issued /\ certFile' \in {certFile, Len(issued), 0}
    BY <1>4 DEF Certs!Complete, Certs!Damage, Certs!Newest, Certs!Unreadable
  <2>2. step' = step /\ certPEM' = certPEM /\ pair' = pair
    BY <1>4 DEF Certs!Complete, Certs!Damage
  <2> QED
    BY <1>1, <2>1, <2>2 DEF CertInv, Certs!NoPair
<1> QED
  BY <1>3, <1>4 DEF Certs!Files

\* A step of reload keeps the pair or replaces it by one that matches.
LEMMA ReloadStep ==
    ASSUME CertInv, Certs!Reload
    PROVE  CertInv' /\ (pair # Certs!NoPair => pair' # Certs!NoPair)
<1> USE DEF CertInv, Certs!NoPair, Certs!Unreadable, Certs!diskVars, Certs!Return
<1>1. CASE Certs!ReadCert
  BY <1>1 DEF Certs!ReadCert
<1>2. CASE Certs!ReadKey
  BY <1>2 DEF Certs!ReadKey
<1>3. CASE Certs!Load
  <2>1. certPEM \in 1..Len(issued)
    BY <1>3 DEF Certs!Load
  <2> QED
    BY <1>3, <2>1 DEF Certs!Load, Certs!X509KeyPair, Certs!KeyOf
<1> QED
  BY <1>1, <1>2, <1>3 DEF Certs!Reload

\* A step of run leaves the pair alone, and binds a listener only once there is one.
LEMMA LifeBound ==
    ASSUME BoundInv, Next, Loaded, UNCHANGED certState
    PROVE  BoundInv'
BY DEF BoundInv, Loaded, certState, Servers, Certs!NoPair, vars, processVars, managerVars,
       probeVars, Next, Run, StartFails, Start, Serve, CheckFails, Shutdown, Drained1,
       Drained2, Exit, Signal, Kill, Sync, Initialize, ManagerStops, Expire, Probe, ProbeUp,
       ProbeReady, Request, Answer, ServeFails

\* Every step of the reloader, and of the files, preserves its invariant.
LEMMA CertStep ==
    ASSUME CertInv, BoundInv, [ProcessNext]_processState
    PROVE  CertInv' /\ BoundInv'
<1>1. CASE Life
  <2>1. CertInv'
    BY <1>1 DEF Life, certState, CertInv, Certs!NoPair
  <2> QED
    BY <1>1, <2>1, LifeBound DEF Life
<1>2. CASE LoadTLS
  BY <1>2, ReloadStep DEF LoadTLS, BoundInv, vars, processVars
<1>3. CASE Tick
  BY <1>3, ReloadStep DEF Tick, BoundInv, vars, processVars
<1>4. CASE phase # "exited" /\ Certs!Files /\ UNCHANGED vars
  BY <1>4, FilesStep DEF BoundInv, vars, processVars
<1>5. CASE UNCHANGED processState
  BY <1>5 DEF processState, vars, processVars, certState, CertInv, BoundInv, Certs!NoPair
<1> QED
  BY <1>1, <1>2, <1>3, <1>4, <1>5 DEF ProcessNext

(***************************************************************************)
(* Whenever the delivery server may be handshaking, the certificate that   *)
(* GetCertificate returns is there and has its own key, although reload    *)
(* reads the two files one after the other while they are replaced,        *)
(* renewed in either order or damaged.                                     *)
(***************************************************************************)
THEOREM ServedPairMatches == ProcessSpec => []PairMatches
<1>1. CertInv /\ BoundInv => PairMatches
  BY DEF CertInv, BoundInv, PairMatches, Servers, Certs!KeyOf
<1>2. ProcessSpec => ProcessInit /\ [][ProcessNext]_processState
  BY PTL DEF ProcessSpec
<1> QED
  BY <1>1, <1>2, CertInit, CertStep, PTL
=============================================================================
