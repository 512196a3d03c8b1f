---------------------------- MODULE SecretManager ----------------------------
(***************************************************************************)
(* resources.Manager of the gateway (gateway/internal/resources): one      *)
(* goroutine per Secret lists it, watches it from the listed version,      *)
(* reconciles it with a direct GET now and then, and starts over with      *)
(* capped exponential backoff after any failure.                           *)
(*                                                                         *)
(* The Kubernetes API server is the environment.  Each request is split    *)
(* into the server's answer (the version it reads) and the goroutine's     *)
(* handling of it, so the Secret may change in between.  Lists and GETs    *)
(* are sent without a resourceVersion and so read the newest version; a    *)
(* watch delivers the versions after the one it was opened at, in order,   *)
(* arbitrarily late, and may lose some (what reconciliation is there for). *)
(***************************************************************************)
EXTENDS SecretCache, FiniteSets

CONSTANTS
    InitialBackoff,     \* Options.InitialBackoff after withDefaults
    MaxBackoffOption,   \* Options.MaxBackoff as configured
    MaxVersion,         \* bound: versions of a Secret at the API server
    MaxFaults,          \* bound: failed API answers per Secret
    MaxLost             \* bound: watch events lost per Secret

ASSUME RefsFinite == IsFiniteSet(Refs)
ASSUME BackoffOptions ==
    InitialBackoff \in Nat \ {0} /\ MaxBackoffOption \in Nat \ {0}
ASSUME Bounds == MaxVersion \in Nat /\ MaxFaults \in Nat /\ MaxLost \in Nat

VARIABLES
    started,        \* Manager.started
    stopping,       \* the context given to Start is cancelled
    pending,        \* Manager.pending
    initialized,    \* the channel Manager.initialized is closed
    pc,             \* where the goroutine of r is, see Steps
    attempted,      \* resource.initOnce has fired
    connected,      \* resource.connected
    syncErrors,     \* resource.syncErrors
    watchErrors,    \* resource.watchErrors
    current,        \* backoff.current
    held,           \* the version of the answer, or of the list, in hand
    cursor,         \* API server: version up to which the watch has delivered
    gap,            \* API server: this watch has lost an event
    faults,         \* API server: failed answers so far
    lost,           \* API server: lost events so far
    ver             \* history: the version the cached state was read at

managerVars == <<started, stopping, pending, initialized>>
watcherVars == <<pc, attempted, connected, syncErrors, watchErrors, current, held>>
streamVars  == <<cursor, gap, faults, lost>>
vars == <<abstractVars, managerVars, watcherVars, streamVars, ver>>

(***************************************************************************)
(* "new": not started; "top": head of run's loop; "list": ListSecret is    *)
(* under way; "listed": its answer is in hand; "stored": list returned     *)
(* after storing it; "failed": list returned an error; "open": WatchSecret *)
(* is under way; "watch": in the select loop; "get": GetSecret is under    *)
(* way; "got": its answer is in hand; "abandon": the select loop is left   *)
(* after a bad event or drift; "panicked": in the recovery, the attempt is *)
(* counted and the error is not; "backoff": sleeping; "done": returned.    *)
(* Two writes that readers see separately (Secret and Status take the      *)
(* resource's lock, Initialized reads the channel) are two steps.          *)
(***************************************************************************)
Steps == {"new", "top", "list", "listed", "stored", "failed", "open", "watch",
          "get", "got", "abandon", "panicked", "backoff", "done"}

MaxBackoff ==
    IF MaxBackoffOption >= InitialBackoff THEN MaxBackoffOption ELSE InitialBackoff

\* Mutant of next: the cap is forgotten.
nextUncapped(b) == IF b = 0 THEN InitialBackoff ELSE 2 * b

\* backoff.next: the cap on the next delay.  The delay is drawn from its upper half.
next(b) ==
    IF b = 0 THEN InitialBackoff
    ELSE IF 2 * b <= MaxBackoff THEN 2 * b ELSE MaxBackoff

Init ==
    /\ AInit
    /\ started = FALSE
    /\ stopping = FALSE
    /\ pending = Cardinality(Refs)
    /\ initialized = (Cardinality(Refs) = 0)
    /\ pc = [r \in Refs |-> "new"]
    /\ attempted = [r \in Refs |-> FALSE]
    /\ connected = [r \in Refs |-> FALSE]
    /\ syncErrors = [r \in Refs |-> 0]
    /\ watchErrors = [r \in Refs |-> 0]
    /\ current = [r \in Refs |-> 0]
    /\ held = [r \in Refs |-> 0]
    /\ cursor = [r \in Refs |-> 0]
    /\ gap = [r \in Refs |-> FALSE]
    /\ faults = [r \in Refs |-> 0]
    /\ lost = [r \in Refs |-> 0]
    /\ ver = [r \in Refs |-> 0]

-----------------------------------------------------------------------------
(* Parts the steps are made of.                                            *)

Goto(r, s) == pc' = [pc EXCEPT ![r] = s]

\* Mutant of store: the state is updated in place, and a deletion keeps the old
\* resourceVersion.
storeInPlace(r, v) ==
    /\ cache' = [cache EXCEPT ![r] = [present |-> hist[r][v], synced |-> TRUE,
                                      rv |-> IF hist[r][v] THEN v ELSE @.rv]]
    /\ high' = [high EXCEPT ![r] = IF hist[r][v] /\ v > @ THEN v ELSE @]
    /\ ver' = [ver EXCEPT ![r] = v]

\* resource.store of the state read at version v; the last two are history.
store(r, v) ==
    /\ cache' = [cache EXCEPT ![r] = View(r, v)]
    /\ high' = [high EXCEPT ![r] = IF hist[r][v] /\ v > @ THEN v ELSE @]
    /\ ver' = [ver EXCEPT ![r] = v]

\* Mutant of initOnceDo: initDone without the Once counts a Secret repeatedly.
initDoneAgain(r) ==
    /\ attempted' = [attempted EXCEPT ![r] = TRUE]
    /\ pending' = pending - 1
    /\ initialized' = (initialized \/ pending - 1 = 0)

\* Mutant of initOnceDo: the count is compared before it is decremented.
initDoneLate(r) ==
    /\ attempted' = [attempted EXCEPT ![r] = TRUE]
    /\ pending' = IF attempted[r] THEN pending ELSE pending - 1
    /\ initialized' = (initialized \/ (~attempted[r] /\ pending = 0))

\* initOnce.Do(initDone): the first time only, one Secret less is pending, and
\* the last one closes the channel.
initOnceDo(r) ==
    /\ attempted' = [attempted EXCEPT ![r] = TRUE]
    /\ pending' = IF attempted[r] THEN pending ELSE pending - 1
    /\ initialized' = (initialized \/ (~attempted[r] /\ pending - 1 = 0))

\* What run does with the result of a cycle.
endCycle(r, healthy) ==
    IF stopping \/ healthy
    THEN /\ Goto(r, "top")
         /\ current' = [current EXCEPT ![r] = IF stopping THEN @ ELSE 0]
    ELSE /\ Goto(r, "backoff")
         /\ current' = [current EXCEPT ![r] = next(@)]

recordSyncError(r)  == syncErrors' = [syncErrors EXCEPT ![r] = @ + 1]
recordWatchError(r) == watchErrors' = [watchErrors EXCEPT ![r] = @ + 1]
setConnected(r, b)  == connected' = [connected EXCEPT ![r] = b]

\* A failed answer of the API server, of which there are only so many.
Fault(r) ==
    /\ faults[r] < MaxFaults
    /\ faults' = [faults EXCEPT ![r] = @ + 1]

\* A call returned an error.  Once the context is cancelled that needs no fault
\* of the server, and is not recorded.
CallFails(r, record) ==
    IF stopping
    THEN UNCHANGED <<syncErrors, watchErrors, faults>>
    ELSE Fault(r) /\ record

-----------------------------------------------------------------------------
(* The API server.                                                         *)

\* Another client creates, updates or deletes the Secret.
Change(r) ==
    /\ Latest(r) < MaxVersion
    /\ AChange(r)
    /\ UNCHANGED <<managerVars, watcherVars, streamVars, ver>>

\* The watch silently loses its next event.
LoseEvent(r) ==
    /\ connected[r]
    /\ cursor[r] < Latest(r)
    /\ lost[r] < MaxLost
    /\ cursor' = [cursor EXCEPT ![r] = @ + 1]
    /\ gap' = [gap EXCEPT ![r] = TRUE]
    /\ lost' = [lost EXCEPT ![r] = @ + 1]
    /\ UNCHANGED <<abstractVars, managerVars, watcherVars, faults, ver>>

\* The server reads the newest version to answer a list or a GET.
Answer(r) ==
    /\ \/ pc[r] = "list" /\ Goto(r, "listed")
       \/ pc[r] = "get"  /\ Goto(r, "got")
    /\ held' = [held EXCEPT ![r] = Latest(r)]
    /\ UNCHANGED <<abstractVars, managerVars, attempted, connected, syncErrors,
                   watchErrors, current, streamVars, ver>>
-----------------------------------------------------------------------------
(* The manager and its goroutines.                                         *)

\* Start: one goroutine per Secret; a second call does nothing.
Start ==
    /\ ~started
    /\ started' = TRUE
    /\ pc' = [r \in Refs |-> "top"]
    /\ UNCHANGED <<abstractVars, stopping, pending, initialized, attempted, connected,
                   syncErrors, watchErrors, current, held, streamVars, ver>>

\* The owner of the context cancels it.
Cancel ==
    /\ ~stopping
    /\ stopping' = TRUE
    /\ UNCHANGED <<abstractVars, started, pending, initialized, watcherVars,
                   streamVars, ver>>

\* The head of run's loop, entering the next cycle.
Enter(r) ==
    /\ pc[r] = "top"
    /\ ~stopping
    /\ Goto(r, "list")
    /\ UNCHANGED <<abstractVars, managerVars, attempted, connected, syncErrors,
                   watchErrors, current, held, streamVars, ver>>

\* Mutant of Return: without the deferred initOnce.Do.
ReturnSilently(r) ==
    /\ pc[r] \in {"top", "backoff"}
    /\ stopping
    /\ Goto(r, "done")
    /\ UNCHANGED <<abstractVars, managerVars, attempted, connected, syncErrors,
                   watchErrors, current, held, streamVars, ver>>

\* run returns: at the head of the loop or out of its sleep, with the deferred
\* initOnce.Do for a goroutine that never attempted anything.
Return(r) ==
    /\ pc[r] \in {"top", "backoff"}
    /\ stopping
    /\ initOnceDo(r)
    /\ Goto(r, "done")
    /\ UNCHANGED <<abstractVars, started, stopping, connected, syncErrors, watchErrors,
                   current, held, streamVars, ver>>

\* The backoff delay is over.
Wake(r) ==
    /\ pc[r] = "backoff"
    /\ Goto(r, "top")
    /\ UNCHANGED <<abstractVars, managerVars, attempted, connected, syncErrors,
                   watchErrors, current, held, streamVars, ver>>

\* list succeeds: the first matching item, or none of no items, is stored.
List(r) ==
    /\ pc[r] = "listed"
    /\ store(r, held[r])
    /\ Goto(r, "stored")
    /\ UNCHANGED <<hist, managerVars, attempted, connected, syncErrors, watchErrors,
                   current, held, streamVars>>

\* list fails: an error, no list at all, or the request timeout.
ListFail(r) ==
    /\ pc[r] = "list"
    /\ CallFails(r, recordSyncError(r) /\ UNCHANGED watchErrors)
    /\ Goto(r, "failed")
    /\ UNCHANGED <<abstractVars, managerVars, attempted, connected, current, held,
                   cursor, gap, lost, ver>>

\* Mutant of ListUnexpected: no matching item is taken for an absent Secret.
ListUnexpectedAsAbsent(r) ==
    /\ pc[r] = "list"
    /\ Fault(r)
    /\ recordSyncError(r)
    /\ cache' = [cache EXCEPT ![r] = [Unsynced EXCEPT !.synced = TRUE]]
    /\ Goto(r, "failed")
    /\ UNCHANGED <<hist, high, managerVars, attempted, connected, watchErrors, current,
                   held, cursor, gap, lost, ver>>

\* list returns only objects that are not the Secret: the state is kept.
ListUnexpected(r) ==
    /\ pc[r] = "list"
    /\ Fault(r)
    /\ recordSyncError(r)
    /\ Goto(r, "failed")
    /\ UNCHANGED <<abstractVars, managerVars, attempted, connected, watchErrors, current,
                   held, cursor, gap, lost, ver>>

\* cycle goes on after list returned: the attempt is counted, and a watch follows
\* unless list failed.
AfterList(r) ==
    /\ \/ pc[r] = "stored" /\ Goto(r, "open") /\ UNCHANGED current
       \/ pc[r] = "failed" /\ endCycle(r, FALSE)
    /\ initOnceDo(r)
    /\ UNCHANGED <<abstractVars, started, stopping, connected, syncErrors, watchErrors,
                   held, streamVars, ver>>

\* Mutant of WatchOpen: the watch starts at the newest version, not the listed one.
WatchOpenAtNewest(r) ==
    /\ pc[r] = "open"
    /\ setConnected(r, TRUE)
    /\ cursor' = [cursor EXCEPT ![r] = Latest(r)]
    /\ gap' = [gap EXCEPT ![r] = FALSE]
    /\ Goto(r, "watch")
    /\ UNCHANGED <<abstractVars, managerVars, attempted, syncErrors, watchErrors,
                   current, held, faults, lost, ver>>

\* WatchSecret succeeds at the listed version.
WatchOpen(r) ==
    /\ pc[r] = "open"
    /\ setConnected(r, TRUE)
    /\ cursor' = [cursor EXCEPT ![r] = held[r]]
    /\ gap' = [gap EXCEPT ![r] = FALSE]
    /\ Goto(r, "watch")
    /\ UNCHANGED <<abstractVars, managerVars, attempted, syncErrors, watchErrors,
                   current, held, faults, lost, ver>>

\* WatchSecret fails or returns no watch.
WatchFail(r, healthy) ==
    /\ pc[r] = "open"
    /\ CallFails(r, recordWatchError(r) /\ UNCHANGED syncErrors)
    /\ endCycle(r, healthy)
    /\ UNCHANGED <<abstractVars, managerVars, attempted, connected, held, cursor, gap,
                   lost, ver>>

\* The watch ends, closed by the server, by its deadline or by the context, or
\* given up after a bad event or drift: the deferred setConnected(false).
WatchEnd(r, healthy) ==
    /\ pc[r] \in {"watch", "abandon"}
    /\ setConnected(r, FALSE)
    /\ endCycle(r, healthy)
    /\ UNCHANGED <<abstractVars, managerVars, attempted, syncErrors, watchErrors, held,
                   streamVars, ver>>

\* handleEvent of the next Added, Modified or Deleted.
Event(r) ==
    /\ pc[r] = "watch"
    /\ cursor[r] < Latest(r)
    /\ cursor' = [cursor EXCEPT ![r] = @ + 1]
    /\ store(r, cursor[r] + 1)
    /\ UNCHANGED <<hist, managerVars, watcherVars, gap, faults, lost>>

\* handleEvent of an error, an unknown type, no Secret or another Secret.
BadEvent(r) ==
    /\ pc[r] = "watch"
    /\ Fault(r)
    /\ recordWatchError(r)
    /\ Goto(r, "abandon")
    /\ UNCHANGED <<abstractVars, managerVars, attempted, connected, syncErrors, current,
                   held, cursor, gap, lost, ver>>

\* The reconcile timer fires.
Tick(r) ==
    /\ pc[r] = "watch"
    /\ Goto(r, "get")
    /\ UNCHANGED <<abstractVars, managerVars, attempted, connected, syncErrors,
                   watchErrors, current, held, streamVars, ver>>

\* Mutant of Reconcile: drift is corrected but the watch, behind by now, is kept.
ReconcileKeepingWatch(r) ==
    /\ pc[r] = "got"
    /\ store(r, held[r])
    /\ Goto(r, "watch")
    /\ UNCHANGED <<hist, managerVars, attempted, connected, syncErrors, watchErrors,
                   current, held, streamVars>>

\* Mutant of Reconcile: drift is looked at and not corrected.
ReconcileWithoutStore(r) ==
    /\ pc[r] = "got"
    /\ Goto(r, "watch")
    /\ UNCHANGED <<abstractVars, managerVars, attempted, connected, syncErrors,
                   watchErrors, current, held, streamVars, ver>>

\* reconcile with the object, or the NotFound, that GetSecret returned: what was
\* cached is replaced in any case, and the watch is given up if that changed it.
Reconcile(r) ==
    /\ pc[r] = "got"
    /\ store(r, held[r])
    /\ LET drift == \/ cache[r].present # View(r, held[r]).present
                    \/ cache[r].rv # View(r, held[r]).rv
       IN  Goto(r, IF drift THEN "abandon" ELSE "watch")
    /\ UNCHANGED <<hist, managerVars, attempted, connected, syncErrors, watchErrors,
                   current, held, streamVars>>

\* GetSecret fails: the watch goes on.
GetFail(r) ==
    /\ pc[r] = "get"
    /\ CallFails(r, recordSyncError(r) /\ UNCHANGED watchErrors)
    /\ Goto(r, "watch")
    /\ UNCHANGED <<abstractVars, managerVars, attempted, connected, current, held,
                   cursor, gap, lost, ver>>

\* GetSecret returns no object or another Secret: the watch goes on.
GetUnexpected(r) ==
    /\ pc[r] = "get"
    /\ Fault(r)
    /\ recordSyncError(r)
    /\ Goto(r, "watch")
    /\ UNCHANGED <<abstractVars, managerVars, attempted, connected, watchErrors, current,
                   held, cursor, gap, lost, ver>>

\* Mutant of Panic: the recovery does not count the attempt.
PanicUncounted(r) ==
    /\ pc[r] \in {"list", "open", "watch", "get"}
    /\ Fault(r)
    /\ setConnected(r, FALSE)
    /\ Goto(r, "panicked")
    /\ UNCHANGED <<abstractVars, managerVars, attempted, syncErrors, watchErrors, current,
                   held, cursor, gap, lost, ver>>

\* A client call or the handling of an event panics: watch's deferred
\* setConnected(false), then cycle's recovery, which counts the attempt first.
\* Before the first list returned nothing was connected, and after it the attempt
\* was counted, so that only one of the two writes has an effect.
Panic(r) ==
    /\ pc[r] \in {"list", "open", "watch", "get"}
    /\ Fault(r)
    /\ setConnected(r, FALSE)
    /\ initOnceDo(r)
    /\ Goto(r, "panicked")
    /\ UNCHANGED <<abstractVars, started, stopping, syncErrors, watchErrors, current, held,
                   cursor, gap, lost, ver>>

\* The recovery goes on: the panic is recorded as an error of the watch.
RecordPanic(r) ==
    /\ pc[r] = "panicked"
    /\ recordWatchError(r)
    /\ endCycle(r, FALSE)
    /\ UNCHANGED <<abstractVars, managerVars, attempted, connected, syncErrors, held,
                   streamVars, ver>>

\* Every goroutine has returned, which is what Wait waits for.
Stopped == started /\ \A r \in Refs : pc[r] = "done"
-----------------------------------------------------------------------------
Watcher(r) ==
    \/ Enter(r) \/ Return(r) \/ Wake(r)
    \/ List(r) \/ ListFail(r) \/ ListUnexpected(r) \/ AfterList(r)
    \/ WatchOpen(r) \/ Event(r) \/ BadEvent(r) \/ Tick(r)
    \/ Reconcile(r) \/ GetFail(r) \/ GetUnexpected(r)
    \/ Panic(r) \/ RecordPanic(r)
    \/ \E healthy \in BOOLEAN : WatchFail(r, healthy) \/ WatchEnd(r, healthy)

Next ==
    \/ Start
    \/ Cancel
    \/ \E r \in Refs : Change(r) \/ LoseEvent(r) \/ Answer(r) \/ Watcher(r)
    \/ Stopped /\ UNCHANGED vars

Spec == Init /\ [][Next]_vars
-----------------------------------------------------------------------------
(***************************************************************************)
(* Fairness.  No call waits forever: a list and a GET are bounded by       *)
(* RequestTimeout, opening a watch by the watch's deadline, a sleep by its *)
(* timer.  In the select loop an event that is there is received, the      *)
(* reconcile timer fires, and a cancelled context ends the watch: strongly *)
(* fair, because select picks at random among the cases that are ready and *)
(* the cancelled context stays ready across reconciliations.  That the     *)
(* server ever closes the watch is not assumed.                            *)
(***************************************************************************)
FairWatcher(r) ==
    /\ WF_vars(pc[r] # "watch" /\ (Answer(r) \/ Watcher(r)))
    /\ WF_vars(Event(r))
    /\ WF_vars(Tick(r))
    /\ SF_vars(stopping /\ WatchEnd(r, FALSE))

FairSpec == Spec /\ WF_vars(Start) /\ \A r \in Refs : FairWatcher(r)
-----------------------------------------------------------------------------
(* Properties.                                                             *)

Version == 1..MaxVersion

\* The ranges of the variables other than pending.
Types ==
    /\ hist \in [Refs -> Seq(BOOLEAN)]
    /\ \A r \in Refs : Latest(r) \in Version \cup {1}
    /\ cache \in [Refs -> [present : BOOLEAN, synced : BOOLEAN, rv : Nat]]
    /\ high \in [Refs -> Nat]
    /\ started \in BOOLEAN /\ stopping \in BOOLEAN /\ initialized \in BOOLEAN
    /\ pc \in [Refs -> Steps]
    /\ attempted \in [Refs -> BOOLEAN]
    /\ connected \in [Refs -> BOOLEAN]
    /\ syncErrors \in [Refs -> Nat]
    /\ watchErrors \in [Refs -> Nat]
    /\ current \in [Refs -> Nat]
    /\ held \in [Refs -> Nat]
    /\ cursor \in [Refs -> Nat]
    /\ gap \in [Refs -> BOOLEAN]
    /\ faults \in [Refs -> 0..MaxFaults]
    /\ lost \in [Refs -> 0..MaxLost]
    /\ ver \in [Refs -> Nat]

\* Every variable stays in its range; in particular pending counts Secrets, so
\* that initDone can bring it to zero, and close the channel, only once.
TypeOK == Types /\ pending \in 0..Cardinality(Refs)

\* A present snapshot is an existing version of the Secret and the newest one
\* ever served (store never puts back an older one, whatever mix of lists,
\* delayed events and GETs led there); an absent one means that the Secret was
\* gone at some version after everything served.
CacheFaithful ==
    \A r \in Refs : cache[r].synced =>
        IF cache[r].present
        THEN /\ cache[r].rv \in 1..Latest(r)
             /\ hist[r][cache[r].rv]
             /\ cache[r].rv = high[r]
        ELSE \E v \in (high[r] + 1)..Latest(r) : ~hist[r][v]

\* Nothing falls between list and watch: while a watch is reported as
\* connected, is not being given up, and the server has lost no event of it, the
\* cache is exactly the state up to which the watch has delivered.
FollowsWatch ==
    \A r \in Refs : connected[r] /\ pc[r] # "abandon" /\ ~gap[r]
                        => cache[r] = View(r, cursor[r])

\* The outcome of the first attempt is visible in Status: a state or a failure.
OutcomeVisible(r) == cache[r].synced \/ syncErrors[r] + watchErrors[r] > 0

\* What Initialized() tells, until the process is stopping.  If it is true, every
\* Secret has a state or a failure in Status ("Individual attempts may have failed;
\* that is visible per Secret through Status", manager.go), but for one whose goroutine
\* has still to record the panic it recovered from; and once every Secret has one, it
\* is true as soon as no goroutine is between list and initOnce.Do.
ReadyMeansTried ==
    ~stopping =>
        /\ initialized =>
             \A r \in Refs : OutcomeVisible(r) \/ pc[r] = "panicked"
        /\ (\A r \in Refs : OutcomeVisible(r) /\ pc[r] \notin {"stored", "failed"})
             => initialized

\* The backoff stays between InitialBackoff and MaxBackoff, also when the
\* configured maximum is below the initial delay.
BackoffBounded ==
    \A r \in Refs : pc[r] = "backoff" =>
        /\ InitialBackoff <= current[r]
        /\ current[r] <= MaxBackoffOption \/ current[r] = InitialBackoff

\* A step that records an error never touches what is served: a failed list, a
\* failed reconciliation, a bad event or a panic keep the current state.
FailureKeepsState ==
    [][\A r \in Refs :
        syncErrors'[r] # syncErrors[r] \/ watchErrors'[r] # watchErrors[r]
            => cache'[r] = cache[r]]_vars

\* Once the API server is quiet and its faults are over, the cache agrees with
\* it for good, lost events included.
Converges ==
    <>[](stopping \/ \A r \in Refs : cache[r] = View(r, Latest(r)))

\* After Start the initial synchronization is over in the end, however it went.
EventuallyInitialized == started ~> initialized

\* After the context is cancelled every goroutine returns and everyone waiting
\* for the initialization is released.
ShutdownCompletes == stopping ~> (Stopped /\ initialized)

\* "list results, watch events and reconciliation results are applied strictly
\* in order" (manager.go): the state read at a version is never replaced by one
\* read at an earlier version.
AppliedInOrder == [][\A r \in Refs : ver'[r] >= ver[r]]_vars

\* The manager implements the promise its readers rely on.
ImplementsCache == ASpec
=============================================================================
