# A verification project for kube-secret-gateway

kube-secret-gateway delivers selected keys of Kubernetes Secrets to machines outside
the cluster. The *gateway* runs in the cluster, keeps the configured Secrets in memory
and serves them over HTTP; the *agent* runs on a machine, polls the gateway and
installs the values as files. This directory holds TLA+ models of both, TLC
configurations that check them on small instances, and TLAPS proofs of the properties
that matter most for every instance.

## 1. Inventory

| Component (source) | State | Operations | Module |
|---|---|---|---|
| Secret manager (`gateway/internal/resources`) with its client (`gateway/internal/kubernetes`) | per Secret: snapshot, `connected`, error counters, backoff; shared: `pending`, `initialized` | `Start`, list, watch, events, reconcile, backoff, panic recovery, cancellation, `Secret`, `Initialized`, `Wait` | `SecretCache`, `SecretManager` |
| Delivery handler (`gateway/internal/server/server.go`) with `auth` and `exposure` | none of its own; a request in flight | the pipeline of `handleRequest`, ETag and conditions, panic recovery, outcome | `Delivery` |
| Client address (`gateway/internal/clientip`) and the networks (`exposure`) | immutable | `ParsePrefix`, `prefixes`, `Resolve`, `AllowsClient` | `ClientIP` |
| Gateway configuration (`gateway/internal/config`) and what is built from it (`ReferencedSecrets`, `NewManager`, `New`) | immutable | `resolve` | `ClientIP`, `GatewayConfig` |
| Gateway process (`gateway/cmd`) and operations listener (`server/metrics.go`) | `shuttingDown`, exit code, the two servers | start-up, check of the metrics credentials, probes, drain, signals | `GatewayLifecycle` |
| Certificate reloader (`server/tls.go`) | current certificate and digests | `reload`, `Run` | `CertReloader`, in `GatewayProcess` |
| Agent synchronization (`agent/internal/fetch`) with the results of `agent/internal/gateway` and the healthy gauge of `agent/internal/metrics` | files on disk: targets, temporary files, stamp, ETag | `Sync`: check, fetch, stage, rename, flush, stamp, command, commit | `AgentSync` |
| Agent process (`agent/cmd`), `Once` and `Serve` of the runner, configuration (`agent/internal/config`) | per-exposure loops, metrics listener | `-check`, `-once`, daemon, selection of exposures, shutdown | `AgentProcess` |
| All of it, from the API server to the files | several gateway replicas and a host | | `EndToEnd` |
| Metrics of both | counters | | see section 7 |

**Interactions.** One goroutine per Secret is the only writer of that Secret's snapshot;
HTTP handlers, any number at a time, read snapshots without taking part in the
synchronization. A request reads two snapshots one after the other (authentication,
then source). The agent knows the gateway only through its ETag: it sends the tag it
stored after its last complete installation and takes a 304 for "everything is in
place". The gateway usually runs as several replicas, which share the ETags (keyed with
the Secret's UID) but not the progress of their watches. Consumers of the files learn of
changes by the stamp file and by `onChangeCommand`. The loops of an agent's exposures run
at once without a lock: the configuration has to keep them apart.

**What is hard.** Changes of a Secret between the answer to a list and the opening of
the watch; events that arrive after a reconciliation has already seen newer state; lost
events; panics and shutdown at any point of the cycle; rotations between the two reads of
a request; overlapping requests; crashes, power loss and failing calls between any two
steps of an installation; files changed by somebody else; values that return to what they
were, or a replica that lags behind, which make an old ETag valid again; certificate and
key files replaced between the two reads of a reload; commands that leave a process behind
and so outlive their timeout. The complete list, line by line, is under
`hazards` in `PROJECT.json`.

## 2. Modules

* **`SecretCache`** is the abstract specification: what readers of the manager rely on.
  `hist[r]` is the sequence of states of Secret `r` at the API server (a version is a
  position in it), `cache[r]` the snapshot. A snapshot is replaced as a whole by the state
  at some version, and a present one is never older than one served before.
* **`SecretManager`** is `manager.go`. `pc[r]` is the position of the goroutine of `r`
  (`top`, `list`, `listed`, `stored`, `failed`, `open`, `watch`, `get`, `got`, `abandon`,
  `panicked`, `backoff`, `done`). Each API call is two steps, the server's answer (`Answer`)
  and its handling (`List`, `Reconcile`), so that anything may happen in between; every way a
  call can end is an action: errors (`ListFail`, `WatchFail`, `GetFail`), answers that make
  no sense (`ListUnexpected`, `GetUnexpected`, `BadEvent`), panics (`Panic`) and the end of
  the watch (`WatchEnd`). Writes that readers see one after the other are steps of their own:
  a list stores its result or its error, then `AfterList` counts the attempt; a
  reconciliation that found drift, or a bad event, leaves the watch reported as connected
  until `WatchEnd`; the recovery of a panic counts the attempt (`Panic`), then records the
  error (`RecordPanic`). `endCycle` is what `run` does with the result of a cycle, with the
  backoff.
  Whether a cycle lasted long enough to count as healthy depends on a clock and is a
  parameter that may be either. `store`, `initOnceDo`, `recordSyncError`,
  `recordWatchError`, `setConnected` and `next` keep the names of the source.
* **`Delivery`** is `handleRequest` over `SecretCache`: `Receive`, `Screen` (method, path,
  name, network), `Authenticate` (first snapshot), `Serve` (second snapshot, `writeBody`)
  and `Panic`, for any number of clients at once, while `Change` and `Observe` replace
  Secrets and snapshots. Secret data are functions from keys to values, so that missing
  keys and empty values are what they are in the code. HMAC and SHA-256 are taken to be
  injective: an ETag is the pair of UID and body.
* **`ClientIP`** is the way of a request from its address to the network check: `Load`
  (the configured networks, which are accepted or refused as a whole), `Peer`, `Line`,
  `Entry` and `Exhausted` (the two loops of `Resolve`), `Check` (`AllowsClient`). Addresses
  have `Width` bits and may be written plain, IPv4-mapped or with a zone; prefixes only
  contain plain addresses, so `normalize` matters. The definition the result is held
  against (`Originator`, `ListedIn`) does not use the loops or the parsed prefixes: it says
  of the places in a request (`Hops`, the peer being the last one) which one counts.
* **`GatewayConfig`** adds the rest of `document.resolve` (default namespace, references,
  names, the two listeners with their defaults) and what `run` builds from an accepted
  document: the Secrets with a watcher (`ReferencedSecrets`, `AllRefs`, `NewManager`) and
  the handler's exposures (`New`). `Configure` is the one step in which a document is
  accepted or refused; the requests of `ClientIP` follow it. What the code checks in a
  single field is the flag `valid`. A listen address is a text: hosts and ports that mean the
  same may be written differently (`spelling`, `zeros`), and `listenersConflict` compares
  what is written. The resources of `NewManager` are kept by the place at
  which their reference is first used; how they are sorted is left out.
* **`AgentSync`** is `Sync` for one exposure and the machine around it. The disk is kept
  twice: as processes see it and as it would be found after a power loss (`durable`);
  `Writeback` may move any part of the one to the other at any time, `Flush` does it for the
  targets, and `FlushFails` is a flush that fails, which `install` ignores. A content stands
  for its ETag. `Fail` is any failing call; `Crash`, `PowerLoss` and `Restart` the life of the
  process; `Tamper` deletes, chmods or overwrites a target, the last also standing for a
  changed configuration whose path exists already. `available` says whether the gateway
  answers with a content at all. `loaded` is what the consumer has read; `owed`, `tampered`
  and `renames` are history.
* **`AgentProcess`** is `run` of the agent's `main.go` with the parts of `config.resolve`
  that relate exposures to each other (names, and target paths after `filepath.Clean`),
  `selectExposures`, `Once` (`OnceNext`, `OnceEnds`) and `Serve` (one loop per exposure:
  `Wake`, `SyncEnds`, `LoopEnds`). What `AgentSync` details is here a step with a result, or
  two with the command between them: `RunCommand`, and `CommandExits` when it exits or is
  killed by its timeout or the context. `CombinedOutput`, and so `SyncEnds`, waits until
  nobody has the command's output open (`holders`), a process that the command started
  (`StartChild`, `ChildEnds`) included. A path is a clean path, not a file: like the code, the
  model does not resolve symbolic links. Exposures are kept by their position in the
  document, or in `-exposure`.
  Everything else `resolve` and the flags may find wrong is `valid` of the
  document or `LoadFails`.
* **`EndToEnd`** composes `SecretCache` (one snapshot per replica) and `AgentSync` (the host),
  both by `INSTANCE`: the content the host is served is the snapshot of the replica its next
  request is routed to. `ReplicaRestart` empties a snapshot; the list that follows names no
  resourceVersion (`ListSecret`) and so is answered from the API server's newest state.
  `Lagging` says whether the agent may be routed to a replica that is behind.
* **`GatewayLifecycle`** is `run` of the gateway's `main.go`: `StartFails`, `Start`, `Serve`,
  `CheckFails` (`checkMetricsAuth`), `Shutdown` (the select and what follows it), `Drained1`
  and `Drained2` (the two calls of `Shutdown`, which return as `Returns` says), `Exit`; and
  `ready`, whose two operands are read one after the other (`ProbeUp`, `ProbeReady`).
  Requests are only counted, the manager is reduced to its three visible changes,
  `http.Server` is modelled from its use. `Kill` is a signal nobody catches: before
  `NotifyContext` and after `stopSignals`. `late` and `dropped` are history.
* **`CertReloader`** is `reload`: `ReadCert`, `ReadKey` and `Load`, while the files are
  swapped together as the kubelet does, replaced one after the other, or damaged. A renewal
  may keep its key, and any number may follow one another. **`GatewayProcess`** composes it
  with `GatewayLifecycle`: the first reload decides whether the process starts (`LoadTLS`),
  the later ones (`Tick`) go on until it ends.
* The modules named `MC...` give the constants their values for TLC. The theorems are in
  **`SecretManagerProofs`**, **`DeliveryProofs`**, **`AgentSyncProofs`**,
  **`EndToEndProofs`**, **`GatewayProcessProofs`** (which has those of `GatewayLifecycle` and
  `CertReloader` too), **`GatewayConfigProofs`** (with those of `ClientIP`) and
  **`AgentProcessProofs`**.

Definitions named "Mutant of ..." are plausible bugs of the definition that follows them.
They are no part of any specification; each shows that a property notices such a bug.

## 3. Runs

| Run | Instance | Distinct states | Shows |
|---|---|---|---|
| `manager_single` | 1 Secret, 4 versions, 2 faults, 1 lost event | 192,057 | `CacheFaithful`, `FollowsWatch`, `BackoffBounded`, `FailureKeepsState`, `Converges`, and that the manager implements `SecretCache` (`ImplementsCache`) |
| `manager_pair` | 2 Secrets, 1 version, 1 fault each | 82,492 | `ReadyMeansTried`, `EventuallyInitialized`, `ShutdownCompletes` |
| `manager_order` | 1 Secret, 3 versions | | *violation* of `AppliedInOrder`, finding 1 |
| `delivery_order` | 2 clients, source of 3 versions | 386,542 | `NeverOlder`, `ConditionalExact` |
| `delivery_access` | 2 clients, one allowed; all methods, paths, addresses; credentials of 2 versions | 284,455 | `Indistinguishable`, `CredentialsWereValid`, `Answered` |
| `gateway_config` | 159 documents, headers of up to 2 entries, with blank lines | 1,076,466 | `ResolvesOriginator`, `AdmitsListed`, `Wired` |
| `gateway_process` | 1 request at each server, metrics credentials and a certificate configured, 1 renewal | 316,962 | `WatchersOutliveRequests`, `NeverReadyAgain`, `CleanExit`, `Terminates`, `PairMatches`, `RenewalServed` |
| `agent_sync` | 2 targets, 3 contents (one incomplete), 1 failure, 2 crashes, 1 manipulation, a command | 683,600 | `HealthyIsCoherent`, `TagNeverAhead`, `CompleteOnly`, `ReloadRetried`, `ReloadsCoherent`, `TagCommitsReload`, `EventuallyInstalled` |
| `agent_reload` | one manipulation and one failure, with a command | | *violation* of `ReloadNotForgotten`, finding 3 |
| `agent_process` | 13 documents, 7 selections, 3 modes, 2 processes left behind by commands | 18,882 | `NothingShared`, `ExitStatus`, `Independent`, `Terminates` |
| `end_to_end` | 2 replicas, 1 restart, 2 versions, 2 targets, 1 failure, 1 crash | 185,284 | `ImplementsForwardHost`, `FilesNeverGoBack`, `EventuallyNewest` |
| `end_to_end_lag` | as `end_to_end`, routing to lagging replicas | | *violation* of `HostCoherent`, finding 2 |

**The abstract specifications.** `SecretManager` implements `SecretCache` (run
`manager_single`, and proved); `Delivery` and `EndToEnd` are built on `SecretCache` and so
hold for the real manager. `EndToEnd` implements `AgentSync` with `Rollback = FALSE`, the
gateway that only moves forward, under the refinement mapping `served <- Served`,
`available <- Available` (`ImplementsForwardHost`): what `agent_sync` shows of one host
therefore holds behind any number of replicas that do not lag, and `end_to_end_lag` shows
that the condition is needed. (`HostCoherent` is `HealthyIsCoherent` of that host.)

**Why the bounds are enough to be interesting.** Four versions allow a deletion and a
recreation with a version before and after; a lost event needs one more version to be
noticed late; two faults let a retry fail again and the backoff reach its cap
(`InitialBackoff = 2`, maximum 3, which is not a power of two times the initial delay;
`manager_pair` has a maximum below the initial delay). The goroutines of different Secrets
share only `pending` and `initialized`, so one Secret is enough for everything but those and
two are enough for them. Two targets are a certificate and its key: one rename can be done
and one not. Three contents let the agent be interrupted in one rotation and find the next
one; two crashes let a repair be interrupted too. Two clients let one be answered while the
other is in flight. In the header two entries, on one line or on two, with blank lines
before, between and after them, have every neighbourhood that matters: the first and the
last entry of a line, the first and the last line; addresses of two bits have networks of
every length and a text with host bits. Documents vary one part at a time, since `resolve`
accumulates problems and accepts only without any. One request at a server is enough because
the process only asks whether any is left. Two exposures let one be held up while the other goes
on. Two versions and two replicas let one replica be ahead of the other; the longer
histories of one replica are those of `manager_single`.

**Deadlock** is checked in every run. The manager ends in a state it may stay in
(`Stopped`), as a request does in `ClientIP` (`Done`) and a process that has exited; the
others run for ever.

## 4. Fairness

* *Manager.* A list and a GET are bounded by `RequestTimeout`, the opening of a watch by the
  watch's deadline, a sleep by its timer: outside the select loop a goroutine always takes
  its next step (weak fairness). In the loop a waiting event is received and the reconcile
  timer fires (weak fairness each). A cancelled context ends the watch: strong fairness,
  because `select` picks at random among the cases that are ready and the cancelled context
  is ready whenever the loop is entered. That the server ever closes a watch is not assumed,
  nor that a lost event is repeated. `Converges` holds because faults and changes are
  bounded, i.e. once the API server behaves.
* *Delivery.* Only the handler's own steps are fair. Nothing is assumed of Kubernetes or the
  manager, and a panic never has to help.
* *Gateway process.* `run` goes on, its deadline fires, the goroutines of a cancelled
  manager return (`ShutdownCompletes`), and the reloader's ticker fires. No request ever has
  to end, and nobody has to repair a certificate file: `RenewalServed` supposes that a
  matching pair is in place for good.
* *Agent.* The interval starts a `Sync` again, its calls are bounded by the client's timeout
  and the command's, and the service manager restarts an agent that died (the shipped units
  do). In `AgentProcess` a command exits, since its timeout kills it, but nothing ever has to
  end a process that it left behind: `Independent` and `Terminates` except the exposures
  with such a process (section 6, 5).
* *End to end.* Only the agent is fair. `EventuallyNewest` supposes what `Converges` gives:
  that the replica the agent talks to catches up.

## 5. Proofs

TLAPS proves, for all values of the constants:

* `SecretManagerProofs`: `TypeCorrect`, `CacheIsFaithful`, `WatchIsFollowed`,
  `BackoffIsBounded`, `ReadinessMeansTried`, `FailuresKeepState`, and `ManagerImplementsCache`
  (`Spec => ASpec`). They rest on one inductive invariant, `IInv`:
  - `Types`;
  - `WatcherInv`, per Secret: what is in hand is a version the server had and not older
    than anything served (`HeldInv`); while a watch is open its position is at or after the
    newest version served, and the cache is the state at that position unless an event was
    lost (`StreamInv`); the newest version served exists and the cache is not behind it
    (`ServedInv`); plus the backoff's range, what an attempt leaves behind, and that nothing
    runs before `Start`. `CacheFaithful` alone is not inductive: that an event never brings
    back an older *present* state needs `high <= cursor`, and that in turn needs every
    reconciliation that moves the cache ahead of the watch to give the watch up. The one
    case in which it does not, absent confirmed by absent, leaves `high` where it was, which
    is why readers can rely on `high` but not on the order of all states (finding 1).
  - `PendingInv`: `pending` is the number of Secrets without an attempt, and the channel is
    closed exactly when that is none. `ReadyMeansTried` is stated in what readers see, not
    in `attempted`: the invariant relates the two per goroutine (an attempt that was counted
    has left a state or an error, or is about to record its panic; one that has left
    something is counted, or about to be).

  Assumptions: `Refs` is finite (it comes from a configuration file), the backoff options
  are positive (`withDefaults`), the bounds are natural numbers.
* `DeliveryProofs`: `ReadsNeverGoBack` (`NeverOlder`) and `OnlyValidCredentials`
  (`CredentialsWereValid`: neither a body nor any answer that depends on the source goes to
  credentials the cache did not hold), for any number of clients, exposures and Secrets and
  any requests. The invariant says that a present snapshot is the newest version ever in the
  cache, that what was delivered has been in the cache, that `floor` is behind `delivered`,
  that a conditional request has a copy of the exposure it is about, and that `valid` has
  kept up with the cache since the request arrived. `OutsideAllIsAlike` (`Indistinguishable`)
  adds `ToldInv`: whoever is past the screen is not outside, so that every answer given to
  an outsider was given by `Screen`. `BodyOnlyIfChanged` (`ConditionalExact`) and
  `TypeCorrect` add `CopyInv`, what tags consist of. With `ManagerImplementsCache` all of
  them hold for the handler over the real manager.
* `AgentSyncProofs`, for any number of targets, contents, failures, crashes, power losses and
  manipulations. Behind any gateway (`SyncInv`): `TypeCorrect`, `OnlyComplete`
  (`CompleteOnly`), `ReloadsAreCoherent`, `TagCommits` (`TagCommitsReload`). `SyncInv` relates
  the position in `Sync` to the disk: temporary files up to `n` are staged, targets up to `n`
  are renamed, from the flush on all are (`InstallInv`); stamp and command come before the
  commit (`ReloadInv`); a tag is sent only while it is the stored one and every target is
  there (`FetchInv`). Assuming `~Rollback`, a gateway whose contents only move forward
  (`ForwardInv`): `HealthyCoherent` (`HealthyIsCoherent`), `TagBehindTargets`
  (`TagNeverAhead`), `ReloadIsRetried` (`ReloadRetried`), and `TargetsMoveForward`.
  `HealthyIsCoherent` is not inductive: a 304 says that the stored tag is the one served, and
  that this makes the targets coherent needs everything on the disk to be from the past of
  what is served (`PastInv`) and no target to be behind the tag (`TagInv`), on the disk as a
  power loss would leave it too. A tag equal to the newest content then leaves the targets
  nowhere else to be. This is the argument that breaks when old contents come back
  (finding 2).
* `EndToEndProofs`, for any number of replicas, restarts and versions, assuming `~Lagging`:
  `ReplicasAreOneGateway` (`ImplementsForwardHost`, the refinement of `AgentSync` with
  `Rollback = FALSE`), and from it, through the theorems of `AgentSyncProofs`,
  `HostIsCoherent` (`HostCoherent`) and `FilesMoveForward` (`FilesNeverGoBack`). A step of a
  replica or of the routing is a rotation or nothing, because a replica's `high` never sinks
  and routing does not decrease it. Both assumptions are needed: `end_to_end_lag` violates
  `HostCoherent` without them.
* `GatewayProcessProofs`, for any number of requests and renewals: `WatchersStopLast`
  (`WatchersOutliveRequests`), `ZeroIsClean` (`CleanExit`), `NotReadyOnceStopping`
  (`NeverReadyAgain`) and `ServedPairMatches` (`PairMatches`). `LifeInv` says in which phase a
  server accepts, that a server with requests in flight was passed only because the deadline
  was over, which left an exit code (`DrainInv`), that the watchers are stopped last, and
  that a probe asked late finds `shuttingDown` set before it looks at the manager. `CertInv`
  says that a pair that was loaded keeps matching, whatever is issued later.
* `GatewayConfigProofs`, for addresses of any width, any networks, headers of any number of
  lines and entries, and documents with any number of exposures: `ResolveIsRight`
  (`ResolvesOriginator`), `AdmissionIsRight` (`AdmitsListed`) and `WiringIsRight` (`Wired`). The
  invariant of the walk: every hop that was seen is a trusted proxy and `client` is the
  leftmost of them (`WalkInv`), what is left of the line is a prefix of it (`PlaceInv`). For
  `Wired`, the references are listed without repetition up to the metrics credentials, so
  that the first use of each makes exactly one resource. That the listeners share no socket
  is proved for addresses written in the usual way (`Usual`), which is what
  `listenersConflict` can tell apart.
* `AgentProcessProofs`, for any documents, selections and number of exposures:
  `LoopsHaveOwnPaths` (`NothingShared`: no clean path and no name belongs to two loops, which
  is what the configuration promises; whether two clean paths lead to one file depends on
  the machine), because the name and the normal form of a path tell accepted exposures
  apart and a selection takes none of them twice, and `ExitCodeIsRight`
  (`ExitStatus`), because an exposure that `Once` is through with has a result (`ResultInv`).

The constants are assumed to be what their names say (natural numbers, sequences of texts,
names that are not blank); the assumptions are stated in the modules that declare them and
TLC evaluates them. `~Rollback` and `~Lagging` are hypotheses of the theorems that need them.
Every inductive invariant was checked with TLC, on the instances above or somewhat larger
ones, before it was proved.

Only model-checked are the liveness properties: `Converges`, `EventuallyInitialized`,
`ShutdownCompletes`, `Answered`, `Terminates` (both), `RenewalServed`, `EventuallyInstalled`,
`Independent` and `EventuallyNewest`. They need fairness and `ENABLED`, which the prover does
not have. The violations are TLC's as well.

## 6. Findings

1. **A confirmed absence does not order the watch** (`manager_order`). `reconcile` compares
   presence and resourceVersion; absent Secrets have none. A GET that finds the Secret gone
   while the cache also says absent keeps a watch that may still hold its creation and
   deletion. They are then applied after the newer GET, so a deleted Secret is served for a
   moment, although "list results, watch events and reconciliation results are applied
   strictly in order" (`manager.go:12-13`). No value older than one already served can come
   back that way: that is `CacheFaithful`.
2. **A crash between renames is not repaired when the old content is served again**
   (`end_to_end_lag`). The stored ETag is that of the previous content. If the next poll is
   answered with that content, by a replica that has not seen the change yet
   (`gateway/examples/kubernetes.yaml` deploys two) or because the Secret got its former
   values back, the answer is 304 and the mixed targets stay, reported healthy, against
   `agent/README.md:220-221`. They stay until the next content is served. While contents
   only move forward the documented repair works (`agent_sync`, `end_to_end`).
3. **A failed reload after a repair is not retried** (`agent_reload`). When targets are
   reinstalled because one was deleted or has the wrong mode, the stored ETag is already
   that of the content. If the command then fails, the next poll finds all targets in
   place, gets 304 and reports success; the comment at `fetch.go:206-208` promises a retry.

Three more are the exceptions that properties of passing runs make. Each is a step of the
model, and TLC finds the behaviour described when the exception is taken out of the property:

4. **A panic is counted before it is visible** (`pc[r] = "panicked"` in `ReadyMeansTried`).
   `cycle`'s recovery calls `initOnce.Do` (`manager.go:278`) before `recordWatchError` (279).
   A reader between the two finds the manager initialized and the Secret with neither a state
   nor a failure, although a failed attempt "is visible per Secret through Status"
   (`manager.go:183-185`). `Start`, `Enter`, `Panic` is enough; `ReadyMeansTried` shows that
   this is the only gap.
5. **`-command-timeout` does not bound the command** (`Held` in `Terminates`).
   `CombinedOutput` (`fetch.go:362`) also waits for processes that the command started and
   that inherited its output; `WaitDelay` is not set. The timeout or a signal kills the
   command, and the `Sync` goes on waiting, as do `-once` and a shutdown, against "Maximum
   runtime for `onChangeCommand`" (`agent/README.md:255`). The other exposures are not
   affected (`Independent`).
6. **A flush that fails goes unnoticed** (`renames` in `TagNeverAhead` and
   `HealthyIsCoherent`). `install` ignores the errors of flushing the directories
   (`fetch.go:300-303`). If the power then fails after the ETag was stored, the old targets
   may come back under the new tag; the next poll gets 304 and reports them healthy, although
   the flush is there "so the set survives a power loss" (`fetch.go:298`).

Two smaller ones: `gateway/REFERENCE.md:129` says that the operations listener "must use a
different port" and `config.go:349-350` that `listenersConflict` finds addresses that
"would compete for the same port"; it compares texts, so `:8080` and `:08080`, or a host
name and its address, pass the check, and it is `net.Listen` that refuses them. And
`gateway/REFERENCE.md:93-94` says that operational 503 answers are visible only after the
network and authentication checks pass, while an unusable authentication Secret is
answered with 503 before credentials can be checked at all. It reveals nothing about the
source, which is what `CredentialsWereValid` states.

## 7. Left out, and what comes next

Not modelled:

* the text of logs and errors, `lastSync` timestamps, the random part of the delays, HTTP
  and TLS themselves, a panic after a response has started;
* the checks of single fields of the two configuration files (string syntax, ranges of
  durations, file modes), and `net.Listen`, which alone notices listeners that are one
  socket written in two ways;
* files that two clean paths reach through symbolic links, which the agent's configuration
  does not look for (`agent/README.md:155`), and a mapping of keys to targets that is changed
  under a stored tag (both are listed as hazards);
* metrics series, which copy state that is modelled and that nothing reads back; the
  authentication of `/metrics`, one read of one snapshot with the operators of `Delivery`;
* temporary files left by agents that were killed, and two agents on one state directory
  (both are listed as hazards); no document promises anything about them;
* the fakes that the repository's own tests use.

Every safety property of a passing run is proved. What could still be added:

1. the composition of the three theorems from the API server to a client (`SecretManager`
   implements `SecretCache`, over which `Delivery` is stated) as one specification;
2. a proved characterization of the histories in which `HostCoherent` fails (finding 2),
   i.e. the weakest condition on what replicas serve that the agent's repair needs;
3. two agents on one state directory, once a document says what should hold.
