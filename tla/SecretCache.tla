----------------------------- MODULE SecretCache -----------------------------
(***************************************************************************)
(* What the Secret manager (gateway/internal/resources) promises to its    *)
(* readers, the HTTP handlers and the metrics collector: for every         *)
(* configured Secret a snapshot that is unsynced at first and afterwards   *)
(* always the complete state of the Secret at one version of the           *)
(* Kubernetes API server, never older than a version already served.       *)
(*                                                                         *)
(* A version of a Secret is its position in hist[r], the sequence of       *)
(* states the API server gives it: TRUE when the Secret exists at that     *)
(* version.  A resourceVersion is that position; an object is identified   *)
(* by it because the API server never changes an object without a new one. *)
(***************************************************************************)
EXTENDS Naturals, Sequences

CONSTANT
    Refs            \* the distinct SecretRefs of the configuration

VARIABLES
    hist,           \* hist[r][v]: does the Secret exist at version v
    cache,          \* resource.secret, what Manager.Secret(r) returns
    high            \* history: the newest resourceVersion ever served for r

abstractVars == <<hist, cache, high>>

\* The snapshot of a version: an absent Secret has no resourceVersion (0).
View(r, v) ==
    [present |-> hist[r][v],
     synced  |-> TRUE,
     rv      |-> IF hist[r][v] THEN v ELSE 0]

Unsynced == [present |-> FALSE, synced |-> FALSE, rv |-> 0]

\* The newest version the API server has for r.
Latest(r) == Len(hist[r])

AInit ==
    /\ hist \in [Refs -> {<<e>> : e \in BOOLEAN}]
    /\ cache = [r \in Refs |-> Unsynced]
    /\ high = [r \in Refs |-> 0]

\* A writer creates, updates or deletes the Secret; deleting needs it to exist.
AChange(r) ==
    /\ \E e \in BOOLEAN :
        /\ e \/ hist[r][Latest(r)]
        /\ hist' = [hist EXCEPT ![r] = Append(@, e)]
    /\ UNCHANGED <<cache, high>>

\* Mutant of AObserve: an older state may come back.
AObserveUnordered(r) ==
    /\ \E v \in 1..Latest(r) :
        /\ cache' = [cache EXCEPT ![r] = View(r, v)]
        /\ high' = [high EXCEPT ![r] = IF hist[r][v] THEN v ELSE @]
    /\ UNCHANGED hist

\* The snapshot is replaced as a whole by the state at some version; a present
\* one is at least as new as everything served before.
AObserve(r) ==
    /\ \E v \in 1..Latest(r) :
        /\ v >= high[r]
        /\ cache' = [cache EXCEPT ![r] = View(r, v)]
        /\ high' = [high EXCEPT ![r] = IF hist[r][v] THEN v ELSE @]
    /\ UNCHANGED hist

ANext == \E r \in Refs : AChange(r) \/ AObserve(r)

ASpec == AInit /\ [][ANext]_abstractVars
=============================================================================
