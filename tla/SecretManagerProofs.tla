------------------------- MODULE SecretManagerProofs -------------------------
(***************************************************************************)
(* Proofs about SecretManager for any finite set of Secrets, any bounds    *)
(* and any backoff options.  The inductive invariant relates, per Secret,  *)
(* the four places a version can be: the answer in hand, the cursor of the *)
(* watch, the cache, and the newest version served.                        *)
(***************************************************************************)
EXTENDS SecretManager, FiniteSetTheorems, TLAPS

\* The goroutine is inside the select loop or a reconciliation of it.
Watching(r) == pc[r] \in {"watch", "get", "got"}

\* An answer in hand is a version, and not older than what was served.
HeldInv(r) ==
    pc[r] \in {"listed", "stored", "open", "got"} =>
        held[r] \in 1..Latest(r) /\ high[r] <= held[r]

\* Between list and watch, and during the watch, the cache is what was read.
StreamInv(r) ==
    /\ connected[r] <=> Watching(r) \/ pc[r] = "abandon"
    /\ pc[r] \in {"stored", "open"} => cache[r] = View(r, held[r])
    /\ Watching(r) =>
        cursor[r] \in 1..Latest(r) /\ high[r] <= cursor[r] /\ cache[r].synced
    /\ Watching(r) /\ ~gap[r] => cache[r] = View(r, cursor[r])

\* The newest version served exists, and the cache is not behind it.
ServedInv(r) ==
    /\ Latest(r) >= 1
    /\ high[r] <= Latest(r)
    /\ high[r] > 0 => hist[r][high[r]]
    /\ cache[r].synced =>
        IF cache[r].present
        THEN cache[r].rv = high[r] /\ high[r] > 0
        ELSE cache[r].rv = 0 /\ \E v \in (high[r] + 1)..Latest(r) : ~hist[r][v]

BackoffInv(r) ==
    /\ current[r] = 0 \/ current[r] \in InitialBackoff..MaxBackoff
    /\ pc[r] = "backoff" => current[r] # 0

\* What an attempt leaves behind: list makes its outcome visible before the
\* attempt is counted, the recovery of a panic after.
AttemptInv(r) ==
    /\ ~stopping =>
         /\ attempted[r] => OutcomeVisible(r) \/ pc[r] = "panicked"
         /\ OutcomeVisible(r) => attempted[r] \/ pc[r] \in {"stored", "failed"}
         /\ pc[r] \in {"stored", "failed"} => OutcomeVisible(r)
    /\ pc[r] \in {"open", "watch", "get", "got", "abandon", "panicked"} => attempted[r]

\* Before Start no goroutine runs.
StartInv(r) == started \/ pc[r] = "new"

WInv(r) ==
    /\ HeldInv(r) /\ StreamInv(r) /\ ServedInv(r)
    /\ BackoffInv(r) /\ AttemptInv(r) /\ StartInv(r)

WatcherInv == \A r \in Refs : WInv(r)

Unattempted == {r \in Refs : ~attempted[r]}

PendingInv ==
    /\ pending = Cardinality(Unattempted)
    /\ initialized <=> pending = 0

IInv == Types /\ WatcherInv /\ PendingInv
-----------------------------------------------------------------------------
(* What the parts of the steps establish.                                  *)

USE DEF abstractVars, managerVars, watcherVars, streamVars, OutcomeVisible

\* Nothing about s changes.
Same(s) ==
    /\ hist'[s] = hist[s] /\ cache'[s] = cache[s] /\ high'[s] = high[s]
    /\ pc'[s] = pc[s] /\ attempted'[s] = attempted[s] /\ connected'[s] = connected[s]
    /\ syncErrors'[s] = syncErrors[s] /\ watchErrors'[s] = watchErrors[s]
    /\ current'[s] = current[s] /\ held'[s] = held[s]
    /\ cursor'[s] = cursor[s] /\ gap'[s] = gap[s]

\* What store(r, v) does, for a version v no older than the newest served.
Stores(r, v) ==
    /\ cache' \in [Refs -> [present : BOOLEAN, synced : BOOLEAN, rv : Nat]]
    /\ high' \in [Refs -> Nat]
    /\ ver' \in [Refs -> Nat]
    /\ cache'[r] = View(r, v)
    /\ high'[r] = IF hist[r][v] THEN v ELSE high[r]
    /\ \A s \in Refs \ {r} : cache'[s] = cache[s] /\ high'[s] = high[s]
    /\ ServedInv(r)'

\* What initOnceDo(r) does.
Attempts(r) ==
    /\ attempted' \in [Refs -> BOOLEAN]
    /\ attempted'[r] = TRUE
    /\ \A s \in Refs \ {r} : attempted'[s] = attempted[s]
    /\ initialized' \in BOOLEAN
    /\ PendingInv'

\* What the end of a cycle does.
Ends(r) ==
    /\ pc' \in [Refs -> Steps]
    /\ current' \in [Refs -> Nat]
    /\ pc'[r] \in {"top", "backoff"}
    /\ \A s \in Refs \ {r} : pc'[s] = pc[s] /\ current'[s] = current[s]
    /\ BackoffInv(r)'

\* A Secret a step does not touch keeps its invariant, also when the step
\* cancels the context.
LEMMA Frame ==
    ASSUME NEW s \in Refs, WInv(s), Same(s), started' = started,
           stopping' = stopping \/ stopping' = TRUE
    PROVE  WInv(s)'
  BY DEF WInv, HeldInv, StreamInv, ServedInv, BackoffInv, AttemptInv, StartInv,
         Same, Watching, View, Latest

\* A snapshot of an existing version has the type of the cache.
LEMMA ViewType ==
    ASSUME Types, NEW r \in Refs, NEW v \in 1..Latest(r)
    PROVE  /\ View(r, v) \in [present : BOOLEAN, synced : BOOLEAN, rv : Nat]
           /\ hist[r][v] \in BOOLEAN
  BY DEF Types, View, Latest

\* store puts the snapshot of a version, no older than the newest served, into
\* the cache and keeps ServedInv.
LEMMA StoreLemma ==
    ASSUME Types, NEW r \in Refs, NEW v \in 1..Latest(r), ServedInv(r),
           high[r] <= v, store(r, v), hist' = hist
    PROVE  Stores(r, v)
  <1>1. v \in Nat /\ high[r] \in Nat /\ Latest(r) \in Nat
    BY DEF Types, Latest
  <1>2. cache'[r] = View(r, v) /\ high'[r] = IF hist[r][v] THEN v ELSE high[r]
    BY <1>1 DEF store, Types
  <1>3. ServedInv(r)'
    <2>1. CASE hist[r][v]
      BY <1>1, <1>2, <2>1 DEF ServedInv, View, Latest
    <2>2. CASE ~hist[r][v]
      <3>1. v # high[r]
        BY <1>1, <2>2 DEF ServedInv
      <3>2. v \in (high[r] + 1)..Latest(r)
        BY <1>1, <3>1
      <3> QED
        BY <1>1, <1>2, <2>2, <3>2 DEF ServedInv, View, Latest
    <2> QED
      BY <2>1, <2>2
  <1>4. cache' \in [Refs -> [present : BOOLEAN, synced : BOOLEAN, rv : Nat]]
    BY ViewType DEF store, Types
  <1> QED
    BY <1>1, <1>2, <1>3, <1>4 DEF store, Stores, Types

\* initOnce.Do(initDone) keeps pending equal to the number of Secrets not yet
\* attempted, and closes the channel exactly when there is none left.
LEMMA InitOnceLemma ==
    ASSUME Types, PendingInv, NEW r \in Refs, initOnceDo(r)
    PROVE  Attempts(r)
  <1>1. attempted' = [attempted EXCEPT ![r] = TRUE]
    BY DEF initOnceDo
  <1>2. Unattempted' = Unattempted \ {r}
    BY <1>1 DEF Unattempted, Types
  <1>3. IsFiniteSet(Unattempted)
    BY RefsFinite, FS_Subset DEF Unattempted
  <1>4. CASE attempted[r]
    <2>1. Unattempted' = Unattempted
      BY <1>2, <1>4 DEF Unattempted
    <2> QED
      BY <1>1, <1>4, <2>1 DEF initOnceDo, Attempts, PendingInv, Types
  <1>5. CASE ~attempted[r]
    <2>1. r \in Unattempted
      BY <1>5 DEF Unattempted
    <2>2. /\ Cardinality(Unattempted') = Cardinality(Unattempted) - 1
          /\ Cardinality(Unattempted) \in Nat
      BY <1>2, <1>3, <2>1, FS_RemoveElement, FS_CardinalityType
    <2>3. Cardinality(Unattempted) # 0
      BY <1>3, <2>1, FS_EmptySet
    <2> QED
      BY <1>1, <1>5, <2>2, <2>3 DEF initOnceDo, Attempts, PendingInv, Types
  <1> QED
    BY <1>4, <1>5

\* A step that leaves the attempts alone keeps PendingInv.
LEMMA PendingFrame ==
    ASSUME PendingInv, UNCHANGED <<pending, initialized, attempted>>
    PROVE  PendingInv'
  BY DEF PendingInv, Unattempted

\* The end of a cycle leads to the head of the loop or to a bounded sleep.
LEMMA EndCycleLemma ==
    ASSUME Types, NEW r \in Refs, NEW h \in BOOLEAN, BackoffInv(r), endCycle(r, h)
    PROVE  Ends(r)
  <1>1. InitialBackoff \in Nat /\ InitialBackoff > 0 /\ MaxBackoff \in Nat
        /\ MaxBackoff >= InitialBackoff
    BY BackoffOptions DEF MaxBackoff
  <1>2. next(current[r]) \in InitialBackoff..MaxBackoff
    BY <1>1 DEF next, BackoffInv, Types
  <1>3. CASE stopping \/ h
    <2>1. /\ pc' = [pc EXCEPT ![r] = "top"]
          /\ current' = [current EXCEPT ![r] = IF stopping THEN @ ELSE 0]
      BY <1>3 DEF endCycle, Goto
    <2> QED
      BY <2>1, <1>1 DEF BackoffInv, Ends, Types, Steps
  <1>4. CASE ~(stopping \/ h)
    <2>1. /\ pc' = [pc EXCEPT ![r] = "backoff"]
          /\ current' = [current EXCEPT ![r] = next(@)]
      BY <1>4 DEF endCycle, Goto
    <2> QED
      BY <2>1, <1>1, <1>2 DEF BackoffInv, Ends, Types, Steps
  <1> QED
    BY <1>3, <1>4

\* A step of the goroutine of r keeps the invariant when it keeps the types, the
\* count of pending Secrets and the part of the invariant about r, and leaves the
\* other Secrets alone.
LEMMA Assemble ==
    ASSUME IInv, NEW r \in Refs, UNCHANGED <<started, stopping>>, Types', PendingInv',
           WInv(r)', \A s \in Refs \ {r} : Same(s)
    PROVE  IInv'
  <1>1. ASSUME NEW s \in Refs PROVE WInv(s)'
    <2>1. CASE s = r
      BY <2>1
    <2>2. CASE s # r
      BY <2>2, Frame DEF IInv, WatcherInv
    <2> QED
      BY <2>1, <2>2
  <1> QED
    BY <1>1 DEF IInv, WatcherInv

\* A counter that a step increments stays in its range.
LEMMA CounterRange ==
    ASSUME Types, NEW r \in Refs
    PROVE  /\ faults[r] < MaxFaults => faults[r] + 1 \in 0..MaxFaults
           /\ lost[r] < MaxLost => lost[r] + 1 \in 0..MaxLost
           /\ syncErrors[r] + 1 \in Nat /\ watchErrors[r] + 1 \in Nat
           /\ cursor[r] + 1 \in Nat /\ Latest(r) \in Nat
  <1>1. faults[r] \in 0..MaxFaults /\ lost[r] \in 0..MaxLost
    BY DEF Types
  <1>2. /\ syncErrors[r] \in Nat /\ watchErrors[r] \in Nat /\ cursor[r] \in Nat
        /\ hist[r] \in Seq(BOOLEAN)
    BY DEF Types
  <1>3. MaxFaults \in Nat /\ MaxLost \in Nat
    BY Bounds
  <1>4. faults[r] < MaxFaults => faults[r] + 1 \in 0..MaxFaults
    BY <1>1, <1>3
  <1>5. lost[r] < MaxLost => lost[r] + 1 \in 0..MaxLost
    BY <1>1, <1>3
  <1>6. Latest(r) \in Nat
    BY <1>2 DEF Latest
  <1> QED
    BY <1>2, <1>4, <1>5, <1>6

\* A step that leaves the goroutine outside of any watch, with nothing in hand
\* and what is served untouched, needs only its backoff and its attempt checked.
LEMMA OutsideWatch ==
    ASSUME IInv, NEW r \in Refs, UNCHANGED <<hist, cache, high, started, stopping>>,
           pc[r] # "new", ~connected'[r],
           pc'[r] \in {"top", "list", "failed", "panicked", "backoff", "done"},
           BackoffInv(r)', AttemptInv(r)'
    PROVE  WInv(r)'
  <1>1. HeldInv(r)' /\ StreamInv(r)'
    BY DEF HeldInv, StreamInv, Watching
  <1>2. ServedInv(r)'
    BY DEF IInv, WatcherInv, WInv, ServedInv, Latest
  <1>3. StartInv(r)'
    BY DEF IInv, WatcherInv, WInv, StartInv
  <1> QED
    BY <1>1, <1>2, <1>3 DEF WInv

\* A step between the select loop and a GET that only counts an error at most.
LEMMA InsideWatch ==
    ASSUME IInv, NEW r \in Refs,
           UNCHANGED <<hist, cache, high, started, stopping, connected, attempted, current,
                       cursor, gap>>,
           pc[r] \in {"watch", "get"}, pc'[r] \in {"watch", "get", "abandon"},
           AttemptInv(r)'
    PROVE  WInv(r)'
  <1>1. HeldInv(r)'
    BY DEF HeldInv
  <1>2. StreamInv(r)'
    BY DEF IInv, WatcherInv, WInv, StreamInv, Watching, View, Latest
  <1>3. ServedInv(r)'
    BY DEF IInv, WatcherInv, WInv, ServedInv, Latest
  <1>4. BackoffInv(r)' /\ StartInv(r)'
    BY DEF IInv, WatcherInv, WInv, BackoffInv, StartInv
  <1> QED
    BY <1>1, <1>2, <1>3, <1>4 DEF WInv

\* Outside of a watch nothing is connected, inside the Secret was attempted.
LEMMA Whereabouts ==
    ASSUME IInv, NEW r \in Refs
    PROVE  /\ connected[r] <=> Watching(r) \/ pc[r] = "abandon"
           /\ pc[r] \in {"open", "watch", "get", "got", "abandon", "panicked"}
                => attempted[r]
           /\ ServedInv(r) /\ BackoffInv(r) /\ AttemptInv(r)
  BY DEF IInv, WatcherInv, WInv, StreamInv, AttemptInv
-----------------------------------------------------------------------------
(* One lemma per action.                                                   *)

\* The invariant holds initially.
LEMMA InitIInv == Init => IInv
  <1> SUFFICES ASSUME Init PROVE IInv
    OBVIOUS
  <1>1. \A r \in Refs : hist[r] \in Seq(BOOLEAN) /\ Len(hist[r]) = 1
    <2> SUFFICES ASSUME NEW r \in Refs
                 PROVE  hist[r] \in Seq(BOOLEAN) /\ Len(hist[r]) = 1
      OBVIOUS
    <2>1. PICK e \in BOOLEAN : hist[r] = <<e>>
      BY DEF Init, AInit
    <2> QED
      BY <2>1
  <1>2. hist \in [Refs -> Seq(BOOLEAN)]
    <2>1. hist = [r \in Refs |-> hist[r]]
      BY DEF Init, AInit
    <2> QED
      BY <1>1, <2>1
  <1>3. Types
    <2>1. \A r \in Refs : Latest(r) = 1
      BY <1>1 DEF Latest
    <2>2. Unsynced \in [present : BOOLEAN, synced : BOOLEAN, rv : Nat]
      BY DEF Unsynced
    <2>3. /\ cache \in [Refs -> [present : BOOLEAN, synced : BOOLEAN, rv : Nat]]
          /\ high \in [Refs -> Nat]
      BY <2>2 DEF Init, AInit
    <2>4. initialized \in BOOLEAN
      BY DEF Init
    <2>5. faults \in [Refs -> 0..MaxFaults] /\ lost \in [Refs -> 0..MaxLost]
      BY Bounds DEF Init
    <2>6. /\ syncErrors \in [Refs -> Nat] /\ watchErrors \in [Refs -> Nat]
          /\ current \in [Refs -> Nat] /\ held \in [Refs -> Nat]
          /\ cursor \in [Refs -> Nat] /\ ver \in [Refs -> Nat]
      BY DEF Init
    <2>7. /\ pc \in [Refs -> Steps] /\ attempted \in [Refs -> BOOLEAN]
          /\ connected \in [Refs -> BOOLEAN] /\ gap \in [Refs -> BOOLEAN]
          /\ started \in BOOLEAN /\ stopping \in BOOLEAN
      BY DEF Init, Steps
    <2> QED
      BY <1>2, <2>1, <2>3, <2>4, <2>5, <2>6, <2>7 DEF Types
  <1>4. WatcherInv
    <2> SUFFICES ASSUME NEW r \in Refs PROVE WInv(r)
      BY DEF WatcherInv
    <2>1. Latest(r) = 1
      BY <1>1 DEF Latest
    <2>2. cache[r].synced = FALSE /\ high[r] = 0 /\ pc[r] = "new"
      BY DEF Init, AInit, Unsynced
    <2>3. HeldInv(r) /\ ServedInv(r)
      BY <2>1, <2>2 DEF HeldInv, ServedInv
    <2>4. StreamInv(r) /\ BackoffInv(r) /\ AttemptInv(r) /\ StartInv(r)
      BY <2>2 DEF Init, StreamInv, BackoffInv, AttemptInv, StartInv, Watching
    <2> QED
      BY <2>3, <2>4 DEF WInv
  <1>5. Unattempted = Refs
    BY DEF Init, Unattempted
  <1>6. PendingInv
    BY <1>5 DEF Init, PendingInv
  <1> QED
    BY <1>3, <1>4, <1>6 DEF IInv

\* A change at the API server only appends a version.
LEMMA ChangeStep ==
    ASSUME IInv, NEW r \in Refs, Change(r)
    PROVE  IInv'
  <1> USE DEF IInv, WatcherInv
  <1>1. PICK e \in BOOLEAN : hist' = [hist EXCEPT ![r] = Append(@, e)]
    BY DEF Change, AChange
  <1>2. /\ hist'[r] = Append(hist[r], e)
        /\ Len(hist'[r]) = Len(hist[r]) + 1
        /\ \A v \in 1..Len(hist[r]) : hist'[r][v] = hist[r][v]
        /\ hist[r] \in Seq(BOOLEAN) /\ Len(hist[r]) \in Nat
    BY <1>1 DEF Types
  <1>3. Types'
    <2>1. Len(hist'[r]) \in Version
      BY <1>2, Bounds DEF Change, Latest, Version
    <2>2. hist' \in [Refs -> Seq(BOOLEAN)]
      BY <1>1, <1>2 DEF Types
    <2>3. \A s \in Refs : Latest(s)' \in Version \cup {1}
      BY <1>1, <2>1 DEF Types, Latest
    <2> QED
      BY <2>2, <2>3 DEF Types, Change, AChange, managerVars, watcherVars, streamVars
  <1>4. UNCHANGED <<cache, high, started, stopping, pending, initialized, pc, attempted,
                    connected, syncErrors, watchErrors, current, held, cursor, gap>>
    BY DEF Change, AChange, managerVars, watcherVars, streamVars
  <1>5. WInv(r)'
    <2>1. \A v \in 1..Latest(r) : View(r, v)' = View(r, v)
      BY <1>2 DEF View, Latest
    <2>2. HeldInv(r)'
      BY <1>2, <1>4 DEF WInv, HeldInv, Latest
    <2>3. StreamInv(r)'
      <3>1. held[r] \in Nat /\ cursor[r] \in Nat
        BY DEF Types
      <3>2. pc[r] \in {"stored", "open"} => held[r] \in 1..Latest(r)
        BY DEF WInv, HeldInv
      <3>3. Latest(r)' = Latest(r) + 1 /\ Latest(r) \in Nat
        BY <1>2 DEF Latest
      <3> QED
        BY <1>4, <2>1, <3>1, <3>2, <3>3 DEF WInv, StreamInv, Watching
    <2>4. ServedInv(r)'
      <3>1. high[r] \in Nat /\ ServedInv(r)
        BY DEF Types, WInv
      <3>2. Latest(r)' = Latest(r) + 1 /\ Latest(r) \in Nat
        BY <1>2 DEF Latest
      <3>3. high[r] > 0 => hist'[r][high[r]]
        BY <1>2, <3>1 DEF ServedInv, Latest
      <3>4. \A v \in (high[r] + 1)..Latest(r) : ~hist[r][v] =>
                v \in (high[r] + 1)..Latest(r)' /\ ~hist'[r][v]
        BY <1>2, <3>1, <3>2 DEF Latest
      <3> QED
        BY <1>4, <3>1, <3>2, <3>3, <3>4 DEF ServedInv
    <2>5. BackoffInv(r)' /\ AttemptInv(r)' /\ StartInv(r)'
      BY <1>4 DEF WInv, BackoffInv, AttemptInv, StartInv
    <2> QED
      BY <2>2, <2>3, <2>4, <2>5 DEF WInv
  <1>6. \A s \in Refs \ {r} : Same(s)
    BY <1>1, <1>4 DEF Same, Types
  <1>7. PendingInv'
    BY <1>4, PendingFrame
  <1> QED
    BY <1>3, <1>4, <1>5, <1>6, <1>7, Assemble

\* A lost event moves the cursor and marks the gap.
LEMMA LoseEventStep ==
    ASSUME IInv, NEW r \in Refs, LoseEvent(r)
    PROVE  IInv'
  <1>1. Types /\ PendingInv
    BY DEF IInv
  <1>2. Types'
    BY <1>1, CounterRange DEF LoseEvent, Types, Steps, Latest
  <1>3. WInv(r)'
    <2>1. HeldInv(r)' /\ BackoffInv(r)' /\ AttemptInv(r)' /\ StartInv(r)'
      BY DEF IInv, WatcherInv, WInv, LoseEvent, HeldInv, BackoffInv, AttemptInv,
             StartInv, Latest
    <2>2. ServedInv(r)'
      BY Whereabouts DEF LoseEvent, ServedInv, Latest
    <2>3. StreamInv(r)'
      BY <1>1
      DEF IInv, WatcherInv, WInv, LoseEvent, StreamInv, Watching, Latest, Types
    <2> QED
      BY <2>1, <2>2, <2>3 DEF WInv
  <1>4. \A s \in Refs \ {r} : Same(s)
    BY <1>1 DEF LoseEvent, Same, Types
  <1>5. PendingInv'
    BY <1>1, PendingFrame DEF LoseEvent
  <1> QED
    BY <1>2, <1>3, <1>4, <1>5, Assemble DEF LoseEvent

\* An answer reads the newest version.
LEMMA AnswerStep ==
    ASSUME IInv, NEW r \in Refs, Answer(r)
    PROVE  IInv'
  <1>1. Types /\ PendingInv
    BY DEF IInv
  <1>2. Types'
    BY <1>1, CounterRange DEF Answer, Goto, Types, Steps, Latest
  <1>3. WInv(r)'
    <2>1. Latest(r) \in Nat /\ Latest(r) >= 1 /\ high[r] <= Latest(r)
      BY <1>1, Whereabouts, CounterRange DEF ServedInv
    <2>2. HeldInv(r)'
      BY <1>1, <2>1 DEF Answer, Goto, HeldInv, Latest, Types
    <2>3. StreamInv(r)'
      BY <1>1
      DEF IInv, WatcherInv, WInv, Answer, Goto, StreamInv, Watching, View, Latest,
                Types
    <2>4. ServedInv(r)' /\ BackoffInv(r)' /\ AttemptInv(r)' /\ StartInv(r)'
      BY <1>1
      DEF IInv, WatcherInv, WInv, Answer, Goto, ServedInv, BackoffInv, AttemptInv,
                StartInv, Latest, Types
    <2> QED
      BY <2>2, <2>3, <2>4 DEF WInv
  <1>4. \A s \in Refs \ {r} : Same(s)
    BY <1>1 DEF Answer, Goto, Same, Types
  <1>5. PendingInv'
    BY <1>1, PendingFrame DEF Answer
  <1> QED
    BY <1>2, <1>3, <1>4, <1>5, Assemble DEF Answer

\* The goroutine enters a cycle.
LEMMA EnterStep ==
    ASSUME IInv, NEW r \in Refs, Enter(r)
    PROVE  IInv'
  <1>1. Types /\ PendingInv
    BY DEF IInv
  <1>2. Types'
    BY <1>1, CounterRange DEF Enter, Goto, Types, Steps, Latest
  <1>3. AttemptInv(r)'
    BY <1>1, Whereabouts DEF Enter, Goto, AttemptInv, Types
  <1>4. WInv(r)'
    BY <1>1, <1>3, Whereabouts, OutsideWatch
    DEF Enter, Goto, BackoffInv, Watching, Types
  <1>5. \A s \in Refs \ {r} : Same(s)
    BY <1>1 DEF Enter, Goto, Same, Types
  <1>6. PendingInv'
    BY <1>1, PendingFrame DEF Enter
  <1> QED
    BY <1>2, <1>4, <1>5, <1>6, Assemble DEF Enter

\* The sleep is over.
LEMMA WakeStep ==
    ASSUME IInv, NEW r \in Refs, Wake(r)
    PROVE  IInv'
  <1>1. Types /\ PendingInv
    BY DEF IInv
  <1>2. Types'
    BY <1>1, CounterRange DEF Wake, Goto, Types, Steps, Latest
  <1>3. AttemptInv(r)'
    BY <1>1, Whereabouts DEF Wake, Goto, AttemptInv, Types
  <1>4. WInv(r)'
    BY <1>1, <1>3, Whereabouts, OutsideWatch
    DEF Wake, Goto, BackoffInv, Watching, Types
  <1>5. \A s \in Refs \ {r} : Same(s)
    BY <1>1 DEF Wake, Goto, Same, Types
  <1>6. PendingInv'
    BY <1>1, PendingFrame DEF Wake
  <1> QED
    BY <1>2, <1>4, <1>5, <1>6, Assemble DEF Wake

\* The goroutine returns.
LEMMA ReturnStep ==
    ASSUME IInv, NEW r \in Refs, Return(r)
    PROVE  IInv'
  <1>1. Types /\ PendingInv
    BY DEF IInv
  <1>2. Attempts(r)
    BY <1>1, InitOnceLemma DEF Return
  <1>3. Types'
    BY <1>2, <1>1, CounterRange DEF Return, Goto, Attempts, Types, Steps, Latest
  <1>4. AttemptInv(r)'
    BY <1>2, <1>1, Whereabouts DEF Return, Goto, Attempts, AttemptInv, Types
  <1>5. WInv(r)'
    BY <1>2, <1>1, <1>4, Whereabouts, OutsideWatch
    DEF Return, Goto, Attempts, BackoffInv, Watching, Types
  <1>6. \A s \in Refs \ {r} : Same(s)
    BY <1>2, <1>1 DEF Return, Goto, Attempts, Same, Types
  <1> QED
    BY <1>3, <1>5, <1>6, <1>2, Assemble DEF Return, Attempts

\* A successful list stores the version in hand.
LEMMA ListStep ==
    ASSUME IInv, NEW r \in Refs, List(r)
    PROVE  IInv'
  <1>1. Types /\ PendingInv
    BY DEF IInv
  <1>2. held[r] \in 1..Latest(r) /\ high[r] <= held[r]
    BY DEF IInv, WatcherInv, WInv, HeldInv, StreamInv, Watching, Types, Latest, List
  <1>3. Stores(r, held[r])
    BY <1>1, <1>2, Whereabouts, StoreLemma DEF List
  <1>4. PendingInv'
    BY <1>1, PendingFrame DEF List
  <1>5. Types'
    BY <1>3, <1>1, CounterRange DEF List, Goto, Stores, Types, Steps, Latest
  <1>6. WInv(r)'
    <2>1. pc'[r] = "stored" /\ ~connected'[r] /\ UNCHANGED <<hist, held, started>>
      BY <1>1, Whereabouts DEF List, Goto, Watching, Types
    <2>2. HeldInv(r)'
      BY <1>1, <1>2, <1>3, <2>1 DEF Stores, HeldInv, Latest, Types
    <2>3. StreamInv(r)'
      <3>1. cache'[r] = View(r, held[r])'
        BY <1>3, <2>1 DEF Stores, View
      <3> QED
        BY <2>1, <3>1 DEF StreamInv, Watching
    <2>4. ServedInv(r)' /\ BackoffInv(r)' /\ AttemptInv(r)' /\ StartInv(r)'
      BY <1>1, <1>3, <2>1, Whereabouts
      DEF IInv, WatcherInv, WInv, List, Stores, View, BackoffInv, AttemptInv, StartInv
    <2> QED
      BY <2>2, <2>3, <2>4 DEF WInv
  <1>7. \A s \in Refs \ {r} : Same(s)
    BY <1>3, <1>1 DEF List, Goto, Stores, Same, Types
  <1> QED
    BY <1>4, <1>5, <1>6, <1>7, Assemble DEF List

\* A failed list makes its failure visible.
LEMMA ListFailStep ==
    ASSUME IInv, NEW r \in Refs, ListFail(r)
    PROVE  IInv'
  <1>1. Types /\ PendingInv
    BY DEF IInv
  <1>2. Types'
    BY <1>1, CounterRange
    DEF ListFail, Goto, CallFails, Fault, recordSyncError, Types, Steps, Latest
  <1>3. AttemptInv(r)'
    BY <1>1, Whereabouts
    DEF ListFail, Goto, CallFails, Fault, recordSyncError, AttemptInv, Types
  <1>4. WInv(r)'
    BY <1>1, <1>3, Whereabouts, OutsideWatch
    DEF ListFail, Goto, CallFails, Fault, recordSyncError, BackoffInv, Watching, Types
  <1>5. \A s \in Refs \ {r} : Same(s)
    BY <1>1 DEF ListFail, Goto, CallFails, Fault, recordSyncError, Same, Types
  <1>6. PendingInv'
    BY <1>1, PendingFrame DEF ListFail
  <1> QED
    BY <1>2, <1>4, <1>5, <1>6, Assemble DEF ListFail

\* So does a list of unexpected objects.
LEMMA ListUnexpectedStep ==
    ASSUME IInv, NEW r \in Refs, ListUnexpected(r)
    PROVE  IInv'
  <1>1. Types /\ PendingInv
    BY DEF IInv
  <1>2. Types'
    BY <1>1, CounterRange
    DEF ListUnexpected, Goto, Fault, recordSyncError, Types, Steps, Latest
  <1>3. AttemptInv(r)'
    BY <1>1, Whereabouts
    DEF ListUnexpected, Goto, Fault, recordSyncError, AttemptInv, Types
  <1>4. WInv(r)'
    BY <1>1, <1>3, Whereabouts, OutsideWatch
    DEF ListUnexpected, Goto, Fault, recordSyncError, BackoffInv, Watching, Types
  <1>5. \A s \in Refs \ {r} : Same(s)
    BY <1>1 DEF ListUnexpected, Goto, Fault, recordSyncError, Same, Types
  <1>6. PendingInv'
    BY <1>1, PendingFrame DEF ListUnexpected
  <1> QED
    BY <1>2, <1>4, <1>5, <1>6, Assemble DEF ListUnexpected

\* The attempt is counted once its outcome is visible.
LEMMA AfterListStep ==
    ASSUME IInv, NEW r \in Refs, AfterList(r)
    PROVE  IInv'
  <1>1. Types /\ PendingInv
    BY DEF IInv
  <1>2. Attempts(r)
    BY <1>1, InitOnceLemma DEF AfterList
  <1>3. UNCHANGED <<hist, cache, high, started, stopping, connected, syncErrors,
                    watchErrors, held, cursor, gap, faults, lost, ver>>
    BY DEF AfterList
  <1>4. ~connected[r]
    BY Whereabouts DEF AfterList, Watching
  <1>5. CASE pc[r] = "stored" /\ Goto(r, "open") /\ UNCHANGED current
    <2>1. /\ pc' \in [Refs -> Steps] /\ pc'[r] = "open"
          /\ \A s \in Refs \ {r} : pc'[s] = pc[s]
      BY <1>1, <1>5 DEF Goto, Types, Steps
    <2>2. Types'
      BY <1>1, <1>2, <1>3, <1>5, <2>1 DEF Attempts, Types, Latest
    <2>3. HeldInv(r)' /\ StreamInv(r)' /\ ServedInv(r)'
      BY <1>3, <1>4, <1>5, <2>1
      DEF IInv, WatcherInv, WInv, HeldInv, StreamInv, ServedInv, Watching, View, Latest
    <2>4. BackoffInv(r)' /\ StartInv(r)'
      BY <1>3, <1>5, <2>1 DEF IInv, WatcherInv, WInv, BackoffInv, StartInv
    <2>5. AttemptInv(r)'
      BY <1>2, <1>3, <1>5, <2>1, Whereabouts DEF Attempts, AttemptInv
    <2>6. \A s \in Refs \ {r} : Same(s)
      BY <1>2, <1>3, <1>5, <2>1 DEF Attempts, Same
    <2> QED
      BY <1>2, <1>3, <2>2, <2>3, <2>4, <2>5, <2>6, Assemble DEF Attempts, WInv
  <1>6. CASE pc[r] = "failed" /\ endCycle(r, FALSE)
    <2>1. Ends(r)
      BY <1>1, <1>6, Whereabouts, EndCycleLemma
    <2>2. Types'
      BY <1>1, <1>2, <1>3, <2>1 DEF Attempts, Ends, Types, Latest
    <2>3. AttemptInv(r)'
      BY <1>2, <1>3, <1>6, <2>1, Whereabouts DEF Attempts, Ends, AttemptInv
    <2>4. WInv(r)'
      BY <1>3, <1>4, <1>6, <2>1, <2>3, OutsideWatch DEF Ends
    <2>5. \A s \in Refs \ {r} : Same(s)
      BY <1>2, <1>3, <2>1 DEF Attempts, Ends, Same
    <2> QED
      BY <1>2, <1>3, <2>2, <2>4, <2>5, Assemble DEF Attempts
  <1> QED
    BY <1>5, <1>6 DEF AfterList

\* The watch opens at the listed version, which is the cached one.
LEMMA WatchOpenStep ==
    ASSUME IInv, NEW r \in Refs, WatchOpen(r)
    PROVE  IInv'
  <1>1. Types /\ PendingInv
    BY DEF IInv
  <1>2. Types'
    BY <1>1, CounterRange DEF WatchOpen, Goto, setConnected, Types, Steps, Latest
  <1>3. WInv(r)'
    <2>1. /\ pc'[r] = "watch" /\ connected'[r] /\ cursor'[r] = held[r]
          /\ UNCHANGED <<hist, cache, high, started, stopping, attempted, current>>
      BY <1>1 DEF WatchOpen, Goto, setConnected, Types
    <2>2. /\ cache[r] = View(r, held[r])
          /\ held[r] \in 1..Latest(r) /\ high[r] <= held[r]
      BY DEF IInv, WatcherInv, WInv, WatchOpen, HeldInv, StreamInv
    <2>3. StreamInv(r)'
      BY <2>1, <2>2 DEF StreamInv, Watching, View, Latest
    <2>4. HeldInv(r)' /\ ServedInv(r)' /\ BackoffInv(r)' /\ AttemptInv(r)' /\ StartInv(r)'
      BY <2>1, Whereabouts DEF IInv, WatcherInv, WInv, WatchOpen, HeldInv, ServedInv,
         BackoffInv, AttemptInv, StartInv, Latest
    <2> QED
      BY <2>3, <2>4 DEF WInv
  <1>4. \A s \in Refs \ {r} : Same(s)
    BY <1>1 DEF WatchOpen, Goto, setConnected, Same, Types
  <1>5. PendingInv'
    BY <1>1, PendingFrame DEF WatchOpen
  <1> QED
    BY <1>2, <1>3, <1>4, <1>5, Assemble DEF WatchOpen

\* The watch does not open.
LEMMA WatchFailStep ==
    ASSUME IInv, NEW r \in Refs, NEW h \in BOOLEAN, WatchFail(r, h)
    PROVE  IInv'
  <1>1. Types /\ PendingInv
    BY DEF IInv
  <1>2. Ends(r)
    BY <1>1, Whereabouts, EndCycleLemma DEF WatchFail
  <1>3. Types'
    BY <1>2, <1>1, CounterRange
    DEF WatchFail, CallFails, Fault, recordWatchError, Ends, Types, Steps, Latest
  <1>4. AttemptInv(r)'
    BY <1>2, <1>1, Whereabouts
    DEF WatchFail, CallFails, Fault, recordWatchError, Ends, AttemptInv, Types
  <1>5. WInv(r)'
    BY <1>2, <1>1, <1>4, Whereabouts, OutsideWatch
    DEF WatchFail, CallFails, Fault, recordWatchError, Ends, Watching, Types
  <1>6. \A s \in Refs \ {r} : Same(s)
    BY <1>2, <1>1 DEF WatchFail, CallFails, Fault, recordWatchError, Ends, Same, Types
  <1>7. PendingInv'
    BY <1>1, PendingFrame DEF WatchFail
  <1> QED
    BY <1>3, <1>5, <1>6, <1>7, Assemble DEF WatchFail

\* The watch ends.
LEMMA WatchEndStep ==
    ASSUME IInv, NEW r \in Refs, NEW h \in BOOLEAN, WatchEnd(r, h)
    PROVE  IInv'
  <1>1. Types /\ PendingInv
    BY DEF IInv
  <1>2. Ends(r)
    BY <1>1, Whereabouts, EndCycleLemma DEF WatchEnd
  <1>3. Types'
    BY <1>2, <1>1, CounterRange DEF WatchEnd, setConnected, Ends, Types, Steps, Latest
  <1>4. AttemptInv(r)'
    BY <1>2, <1>1, Whereabouts DEF WatchEnd, setConnected, Ends, AttemptInv, Types
  <1>5. WInv(r)'
    BY <1>2, <1>1, <1>4, Whereabouts, OutsideWatch
    DEF WatchEnd, setConnected, Ends, Watching, Types
  <1>6. \A s \in Refs \ {r} : Same(s)
    BY <1>2, <1>1 DEF WatchEnd, setConnected, Ends, Same, Types
  <1>7. PendingInv'
    BY <1>1, PendingFrame DEF WatchEnd
  <1> QED
    BY <1>3, <1>5, <1>6, <1>7, Assemble DEF WatchEnd

\* An event is the version after the cursor.
LEMMA EventStep ==
    ASSUME IInv, NEW r \in Refs, Event(r)
    PROVE  IInv'
  <1>1. Types /\ PendingInv
    BY DEF IInv
  <1>2. (cursor[r] + 1) \in 1..Latest(r) /\ high[r] <= (cursor[r] + 1)
    BY DEF IInv, WatcherInv, WInv, HeldInv, StreamInv, Watching, Types, Latest, Event
  <1>3. Stores(r, (cursor[r] + 1))
    BY <1>1, <1>2, Whereabouts, StoreLemma DEF Event
  <1>4. Types'
    BY <1>3, <1>1, CounterRange DEF Event, Stores, Types, Steps, Latest
  <1>5. WInv(r)'
    <2>1. /\ cursor'[r] = cursor[r] + 1 /\ pc[r] = "watch"
          /\ UNCHANGED <<hist, started, stopping, pc, connected, attempted, current, held,
                         syncErrors, watchErrors, gap>>
      BY <1>1 DEF Event, Types
    <2>2. StreamInv(r)'
      <3>1. cache'[r] = View(r, cursor[r])'
        BY <1>3, <2>1 DEF Stores, View
      <3>2. high'[r] <= cursor'[r] /\ cache'[r].synced
        BY <1>1, <1>2, <1>3, <2>1 DEF Stores, View, Types
      <3> QED
        BY <1>2, <2>1, <3>1, <3>2, Whereabouts DEF StreamInv, Watching, Latest
    <2>3. HeldInv(r)' /\ ServedInv(r)' /\ BackoffInv(r)' /\ AttemptInv(r)' /\ StartInv(r)'
      BY <1>3, <2>1, Whereabouts DEF IInv, WatcherInv, WInv, Stores, View, HeldInv,
         BackoffInv, AttemptInv, StartInv
    <2> QED
      BY <2>2, <2>3 DEF WInv
  <1>6. \A s \in Refs \ {r} : Same(s)
    BY <1>3, <1>1 DEF Event, Stores, Same, Types
  <1>7. PendingInv'
    BY <1>1, PendingFrame DEF Event
  <1> QED
    BY <1>4, <1>5, <1>6, <1>7, Assemble DEF Event

\* A bad event leaves the select loop.
LEMMA BadEventStep ==
    ASSUME IInv, NEW r \in Refs, BadEvent(r)
    PROVE  IInv'
  <1>1. Types /\ PendingInv
    BY DEF IInv
  <1>2. Types'
    BY <1>1, CounterRange
    DEF BadEvent, Goto, Fault, recordWatchError, Types, Steps, Latest
  <1>3. AttemptInv(r)'
    BY <1>1, Whereabouts
    DEF BadEvent, Goto, Fault, recordWatchError, AttemptInv, Types
  <1>4. WInv(r)'
    BY <1>1, <1>3, InsideWatch DEF BadEvent, Goto, Fault, recordWatchError, Types
  <1>5. \A s \in Refs \ {r} : Same(s)
    BY <1>1 DEF BadEvent, Goto, Fault, recordWatchError, Same, Types
  <1>6. PendingInv'
    BY <1>1, PendingFrame DEF BadEvent
  <1> QED
    BY <1>2, <1>4, <1>5, <1>6, Assemble DEF BadEvent

\* The reconcile timer fires.
LEMMA TickStep ==
    ASSUME IInv, NEW r \in Refs, Tick(r)
    PROVE  IInv'
  <1>1. Types /\ PendingInv
    BY DEF IInv
  <1>2. Types'
    BY <1>1, CounterRange DEF Tick, Goto, Types, Steps, Latest
  <1>3. AttemptInv(r)'
    BY <1>1, Whereabouts DEF Tick, Goto, AttemptInv, Types
  <1>4. WInv(r)'
    BY <1>1, <1>3, InsideWatch DEF Tick, Goto, Types
  <1>5. \A s \in Refs \ {r} : Same(s)
    BY <1>1 DEF Tick, Goto, Same, Types
  <1>6. PendingInv'
    BY <1>1, PendingFrame DEF Tick
  <1> QED
    BY <1>2, <1>4, <1>5, <1>6, Assemble DEF Tick

\* A failed GET keeps the watch.
LEMMA GetFailStep ==
    ASSUME IInv, NEW r \in Refs, GetFail(r)
    PROVE  IInv'
  <1>1. Types /\ PendingInv
    BY DEF IInv
  <1>2. Types'
    BY <1>1, CounterRange
    DEF GetFail, Goto, CallFails, Fault, recordSyncError, Types, Steps, Latest
  <1>3. AttemptInv(r)'
    BY <1>1, Whereabouts
    DEF GetFail, Goto, CallFails, Fault, recordSyncError, AttemptInv, Types
  <1>4. WInv(r)'
    BY <1>1, <1>3, InsideWatch
    DEF GetFail, Goto, CallFails, Fault, recordSyncError, Types
  <1>5. \A s \in Refs \ {r} : Same(s)
    BY <1>1 DEF GetFail, Goto, CallFails, Fault, recordSyncError, Same, Types
  <1>6. PendingInv'
    BY <1>1, PendingFrame DEF GetFail
  <1> QED
    BY <1>2, <1>4, <1>5, <1>6, Assemble DEF GetFail

\* So does a GET of another object.
LEMMA GetUnexpectedStep ==
    ASSUME IInv, NEW r \in Refs, GetUnexpected(r)
    PROVE  IInv'
  <1>1. Types /\ PendingInv
    BY DEF IInv
  <1>2. Types'
    BY <1>1, CounterRange
    DEF GetUnexpected, Goto, Fault, recordSyncError, Types, Steps, Latest
  <1>3. AttemptInv(r)'
    BY <1>1, Whereabouts
    DEF GetUnexpected, Goto, Fault, recordSyncError, AttemptInv, Types
  <1>4. WInv(r)'
    BY <1>1, <1>3, InsideWatch DEF GetUnexpected, Goto, Fault, recordSyncError, Types
  <1>5. \A s \in Refs \ {r} : Same(s)
    BY <1>1 DEF GetUnexpected, Goto, Fault, recordSyncError, Same, Types
  <1>6. PendingInv'
    BY <1>1, PendingFrame DEF GetUnexpected
  <1> QED
    BY <1>2, <1>4, <1>5, <1>6, Assemble DEF GetUnexpected

\* The recovery of a panic counts the attempt before anything of it is visible.
LEMMA PanicStep ==
    ASSUME IInv, NEW r \in Refs, Panic(r)
    PROVE  IInv'
  <1>1. Types /\ PendingInv
    BY DEF IInv
  <1>2. Attempts(r)
    BY <1>1, InitOnceLemma DEF Panic
  <1>3. Types'
    BY <1>2, <1>1, CounterRange
    DEF Panic, Goto, Fault, setConnected, Attempts, Types, Steps, Latest
  <1>4. AttemptInv(r)'
    BY <1>2, <1>1, Whereabouts
    DEF Panic, Goto, Fault, setConnected, Attempts, AttemptInv, Types
  <1>5. WInv(r)'
    BY <1>2, <1>1, <1>4, Whereabouts, OutsideWatch
    DEF Panic, Goto, Fault, setConnected, BackoffInv, Types
  <1>6. \A s \in Refs \ {r} : Same(s)
    BY <1>2, <1>1 DEF Panic, Goto, Fault, setConnected, Attempts, Same, Types
  <1> QED
    BY <1>2, <1>3, <1>5, <1>6, Assemble DEF Panic, Attempts

\* The rest of the recovery makes the panic visible.
LEMMA RecordPanicStep ==
    ASSUME IInv, NEW r \in Refs, RecordPanic(r)
    PROVE  IInv'
  <1>1. Types /\ PendingInv
    BY DEF IInv
  <1>2. Ends(r)
    BY <1>1, Whereabouts, EndCycleLemma DEF RecordPanic
  <1>3. Types'
    BY <1>2, <1>1, CounterRange
    DEF RecordPanic, recordWatchError, Ends, Types, Steps, Latest
  <1>4. AttemptInv(r)'
    BY <1>2, <1>1, Whereabouts
    DEF RecordPanic, recordWatchError, Ends, AttemptInv, Types
  <1>5. WInv(r)'
    BY <1>2, <1>1, <1>4, Whereabouts, OutsideWatch
    DEF RecordPanic, recordWatchError, Ends, Watching, Types
  <1>6. \A s \in Refs \ {r} : Same(s)
    BY <1>2, <1>1 DEF RecordPanic, recordWatchError, Ends, Same, Types
  <1>7. PendingInv'
    BY <1>1, PendingFrame DEF RecordPanic
  <1> QED
    BY <1>3, <1>5, <1>6, <1>7, Assemble DEF RecordPanic

\* A reconciliation: without drift the cache is what it was, with drift the watch
\* is given up.
LEMMA ReconcileStep ==
    ASSUME IInv, NEW r \in Refs, Reconcile(r)
    PROVE  IInv'
  <1>1. Types /\ PendingInv
    BY DEF IInv
  <1>2. held[r] \in 1..Latest(r) /\ high[r] <= held[r]
    BY DEF IInv, WatcherInv, WInv, HeldInv, Reconcile
  <1>3. Stores(r, held[r])
    BY <1>1, <1>2, Whereabouts, StoreLemma DEF Reconcile
  <1>4. UNCHANGED <<hist, started, stopping, pending, initialized, attempted, syncErrors,
                    watchErrors, held, cursor, gap, faults, lost, connected, current>>
    BY DEF Reconcile
  <1>5. PendingInv'
    BY <1>1, <1>4, PendingFrame
  <1>6. pc[r] = "got" /\ attempted[r] /\ connected[r] /\ started
    BY Whereabouts DEF Watching, IInv, WatcherInv, WInv, StartInv, Reconcile
  <1>7. cache'[r].synced
    BY <1>3 DEF Stores, View
  <1>8. CASE \/ cache[r].present # View(r, held[r]).present
             \/ cache[r].rv # View(r, held[r]).rv
    <2>1. pc' = [pc EXCEPT ![r] = "abandon"]
      BY <1>8 DEF Reconcile, Goto
    <2>2. /\ pc' \in [Refs -> Steps]
          /\ pc'[r] = "abandon"
          /\ \A s \in Refs \ {r} : pc'[s] = pc[s]
      BY <1>1, <2>1 DEF Types, Steps
    <2>3. Types'
      BY <1>1, <1>3, <1>4, <2>2 DEF Types, Stores, Latest
    <2>4. HeldInv(r)' /\ StreamInv(r)' /\ StartInv(r)'
      BY <1>4, <1>6, <2>2 DEF HeldInv, StreamInv, StartInv, Watching
    <2>5. BackoffInv(r)' /\ AttemptInv(r)'
      BY <1>4, <1>6, <1>7, <2>2, Whereabouts DEF BackoffInv, AttemptInv
    <2>6. WInv(r)'
      BY <1>3, <2>4, <2>5 DEF Stores, WInv
    <2>7. \A s \in Refs \ {r} : Same(s)
      BY <1>3, <1>4, <2>2 DEF Stores, Same
    <2> QED
      BY <1>4, <1>5, <2>3, <2>6, <2>7, Assemble
  <1>9. CASE /\ cache[r].present = View(r, held[r]).present
             /\ cache[r].rv = View(r, held[r]).rv
    <2>1. pc' = [pc EXCEPT ![r] = "watch"]
      BY <1>9 DEF Reconcile, Goto
    <2>2. /\ pc' \in [Refs -> Steps]
          /\ pc'[r] = "watch"
          /\ \A s \in Refs \ {r} : pc'[s] = pc[s]
      BY <1>1, <2>1 DEF Types, Steps
    <2>3. Types'
      BY <1>1, <1>3, <1>4, <2>1, <2>2 DEF Types, Stores, Latest
    <2>4. /\ cursor[r] \in 1..Latest(r) /\ high[r] <= cursor[r] /\ cache[r].synced
          /\ ~gap[r] => cache[r] = View(r, cursor[r])
      BY <1>6 DEF IInv, WatcherInv, WInv, StreamInv, Watching
    <2>5. cache'[r] = cache[r]
      <3>1. cache[r] \in [present : BOOLEAN, synced : BOOLEAN, rv : Nat]
        BY <1>1 DEF Types
      <3>2. cache[r] = [present |-> cache[r].present, synced |-> TRUE,
                        rv |-> cache[r].rv]
        BY <2>4, <3>1
      <3>3. View(r, held[r]) = [present |-> View(r, held[r]).present, synced |-> TRUE,
                                rv |-> View(r, held[r]).rv]
        BY DEF View
      <3> QED
        BY <1>3, <1>9, <3>2, <3>3 DEF Stores
    <2>6. high'[r] = high[r]
      <3>1. CASE hist[r][held[r]]
        <4>1. cache[r].present /\ cache[r].rv = held[r]
          BY <1>9, <3>1 DEF View
        <4> QED
          BY <1>3, <2>4, <3>1, <4>1, Whereabouts DEF Stores, ServedInv
      <3>2. CASE ~hist[r][held[r]]
        BY <1>3, <3>2 DEF Stores
      <3> QED
        BY <3>1, <3>2
    <2>7. StreamInv(r)'
      <3>1. View(r, cursor[r])' = View(r, cursor[r])
        BY <1>4 DEF View
      <3>2. connected'[r] /\ Watching(r)'
        BY <1>4, <1>6, <2>2 DEF Watching
      <3>3. Latest(r)' = Latest(r) /\ pc'[r] \notin {"stored", "open"}
        BY <1>4, <2>2 DEF Latest
      <3> QED
        BY <1>4, <2>4, <2>5, <2>6, <3>1, <3>2, <3>3 DEF StreamInv
    <2>8. HeldInv(r)' /\ StartInv(r)' /\ BackoffInv(r)' /\ AttemptInv(r)'
      BY <1>4, <1>6, <1>7, <2>2, Whereabouts
      DEF HeldInv, StartInv, BackoffInv, AttemptInv
    <2>9. WInv(r)'
      BY <1>3, <2>7, <2>8 DEF Stores, WInv
    <2>10. \A s \in Refs \ {r} : Same(s)
      BY <1>3, <1>4, <2>1, <2>2 DEF Stores, Same
    <2> QED
      BY <1>4, <1>5, <2>3, <2>9, <2>10, Assemble
  <1> QED
    BY <1>8, <1>9

\* Start moves every goroutine from nowhere to the head of its loop.
LEMMA StartStep ==
    ASSUME IInv, Start
    PROVE  IInv'
  <1> USE DEF IInv, WatcherInv
  <1>1. UNCHANGED <<hist, cache, high, stopping, pending, initialized, attempted,
                    connected, syncErrors, watchErrors, current, held, cursor, gap,
                    faults, lost, ver>>
    BY DEF Start, abstractVars, streamVars
  <1>2. /\ started' = TRUE /\ pc' \in [Refs -> Steps]
        /\ \A r \in Refs : pc'[r] = "top" /\ pc[r] = "new"
    BY DEF Start, Steps, WInv, StartInv
  <1>3. Types'
    BY <1>1, <1>2 DEF Types, Latest
  <1>4. ASSUME NEW r \in Refs PROVE WInv(r)'
    <2>1. WInv(r) /\ pc'[r] = "top" /\ pc[r] = "new"
      BY <1>2
    <2>2. HeldInv(r)' /\ StreamInv(r)' /\ StartInv(r)'
      BY <1>1, <1>2, <2>1 DEF WInv, HeldInv, StreamInv, StartInv, Watching
    <2>3. ServedInv(r)'
      BY <1>1, <2>1 DEF WInv, ServedInv, Latest
    <2>4. BackoffInv(r)' /\ AttemptInv(r)'
      BY <1>1, <2>1 DEF WInv, BackoffInv, AttemptInv
    <2> QED
      BY <2>2, <2>3, <2>4 DEF WInv
  <1>5. PendingInv'
    BY <1>1, PendingFrame
  <1> QED
    BY <1>3, <1>4, <1>5

\* Cancelling the context changes nothing else.
LEMMA CancelStep ==
    ASSUME IInv, Cancel
    PROVE  IInv'
  <1> USE DEF IInv, WatcherInv
  <1>1. /\ UNCHANGED <<hist, cache, high, started, pending, initialized, pc, attempted,
                       connected, syncErrors, watchErrors, current, held, cursor, gap,
                       faults, lost, ver>>
        /\ stopping' = TRUE
    BY DEF Cancel, abstractVars, watcherVars, streamVars
  <1>2. Types'
    BY <1>1 DEF Types, Latest
  <1>3. ASSUME NEW r \in Refs PROVE WInv(r)'
    <2>1. Same(r)
      BY <1>1 DEF Same
    <2> QED
      BY <1>1, <2>1, Frame
  <1>4. PendingInv'
    BY <1>1, PendingFrame
  <1> QED
    BY <1>2, <1>3, <1>4

\* A step that changes nothing.
LEMMA StutterStep ==
    ASSUME IInv, UNCHANGED vars
    PROVE  IInv'
  <1> USE DEF IInv, WatcherInv
  <1>1. UNCHANGED <<hist, cache, high, started, stopping, pending, initialized, pc,
                    attempted, connected, syncErrors, watchErrors, current, held,
                    cursor, gap, faults, lost, ver>>
    BY DEF vars, abstractVars, managerVars, watcherVars, streamVars
  <1>2. Types'
    BY <1>1 DEF Types, Latest
  <1>3. ASSUME NEW r \in Refs PROVE WInv(r)'
    <2>1. Same(r)
      BY <1>1 DEF Same
    <2> QED
      BY <1>1, <2>1, Frame
  <1>4. PendingInv'
    BY <1>1, PendingFrame
  <1> QED
    BY <1>2, <1>3, <1>4

\* Every step keeps the invariant.
LEMMA NextIInv == IInv /\ [Next]_vars => IInv'
  <1> SUFFICES ASSUME IInv, [Next]_vars PROVE IInv'
    OBVIOUS
  <1>1. CASE Start
    BY <1>1, StartStep
  <1>2. CASE Cancel
    BY <1>2, CancelStep
  <1>3. ASSUME NEW r \in Refs, Change(r) \/ LoseEvent(r) \/ Answer(r)
        PROVE  IInv'
    BY <1>3, ChangeStep, LoseEventStep, AnswerStep
  <1>4. ASSUME NEW r \in Refs, Watcher(r)
        PROVE  IInv'
    <2>1. CASE \E h \in BOOLEAN : WatchFail(r, h) \/ WatchEnd(r, h)
      BY <2>1, WatchFailStep, WatchEndStep
    <2>2. CASE Enter(r) \/ Return(r) \/ Wake(r)
      BY <2>2, EnterStep, ReturnStep, WakeStep
    <2>3. CASE List(r) \/ ListFail(r) \/ ListUnexpected(r) \/ AfterList(r)
      BY <2>3, ListStep, ListFailStep, ListUnexpectedStep, AfterListStep
    <2>4. CASE WatchOpen(r) \/ Event(r) \/ BadEvent(r) \/ Tick(r)
      BY <2>4, WatchOpenStep, EventStep, BadEventStep, TickStep
    <2>5. CASE Reconcile(r) \/ GetFail(r) \/ GetUnexpected(r)
      BY <2>5, ReconcileStep, GetFailStep, GetUnexpectedStep
    <2>6. CASE Panic(r) \/ RecordPanic(r)
      BY <2>6, PanicStep, RecordPanicStep
    <2> QED
      BY <1>4, <2>1, <2>2, <2>3, <2>4, <2>5, <2>6 DEF Watcher
  <1>5. CASE UNCHANGED vars
    BY <1>5, StutterStep
  <1> QED
    BY <1>1, <1>2, <1>3, <1>4, <1>5 DEF Next

\* IInv holds in every reachable state.
LEMMA Invariance == Spec => []IInv
  BY InitIInv, NextIInv, PTL DEF Spec
-----------------------------------------------------------------------------
(* The theorems.                                                           *)

\* Type correctness, the count of pending Secrets included: initDone closes the
\* channel once.
THEOREM TypeCorrect == Spec => []TypeOK
  <1>1. IInv => TypeOK
    <2> SUFFICES ASSUME IInv PROVE pending \in 0..Cardinality(Refs)
      BY DEF IInv, TypeOK
    <2>1. Unattempted \subseteq Refs
      BY DEF Unattempted
    <2>2. /\ Cardinality(Unattempted) \in Nat /\ Cardinality(Refs) \in Nat
          /\ Cardinality(Unattempted) <= Cardinality(Refs)
      BY <2>1, RefsFinite, FS_Subset, FS_CardinalityType
    <2> QED
      BY <2>2 DEF IInv, PendingInv
  <1> QED
    BY <1>1, Invariance, PTL

\* The cache always serves a real version and never goes back to an older one.
THEOREM CacheIsFaithful == Spec => []CacheFaithful
  <1>1. IInv => CacheFaithful
    <2> SUFFICES ASSUME IInv, NEW r \in Refs, cache[r].synced
                 PROVE  IF cache[r].present
                        THEN /\ cache[r].rv \in 1..Latest(r)
                             /\ hist[r][cache[r].rv]
                             /\ cache[r].rv = high[r]
                        ELSE \E v \in (high[r] + 1)..Latest(r) : ~hist[r][v]
      BY DEF CacheFaithful
    <2>1. ServedInv(r) /\ high[r] \in Nat /\ Latest(r) \in Nat
      BY DEF IInv, WatcherInv, WInv, Types, Latest
    <2> QED
      BY <2>1 DEF ServedInv
  <1> QED
    BY <1>1, Invariance, PTL

\* No version falls between the list and the watch that follows it.
THEOREM WatchIsFollowed == Spec => []FollowsWatch
  <1>1. IInv => FollowsWatch
    BY DEF IInv, WatcherInv, WInv, StreamInv, FollowsWatch
  <1> QED
    BY <1>1, Invariance, PTL

\* The backoff stays within its options, whatever they are.
THEOREM BackoffIsBounded == Spec => []BackoffBounded
  <1>1. IInv => BackoffBounded
    BY BackoffOptions DEF IInv, WatcherInv, WInv, BackoffInv, BackoffBounded, Types,
       MaxBackoff
  <1> QED
    BY <1>1, Invariance, PTL

\* Initialized() follows the visible outcomes of all Secrets, but for the two
\* moments in which one of a goroutine's two writes is done.
THEOREM ReadinessMeansTried == Spec => []ReadyMeansTried
  <1>1. IInv => ReadyMeansTried
    <2> SUFFICES ASSUME IInv, ~stopping
                 PROVE  /\ initialized =>
                             \A r \in Refs : OutcomeVisible(r) \/ pc[r] = "panicked"
                        /\ (\A r \in Refs : /\ OutcomeVisible(r)
                                            /\ pc[r] \notin {"stored", "failed"})
                             => initialized
      BY DEF ReadyMeansTried
    <2>1. \A r \in Refs :
              /\ attempted[r] => OutcomeVisible(r) \/ pc[r] = "panicked"
              /\ OutcomeVisible(r) => attempted[r] \/ pc[r] \in {"stored", "failed"}
      BY DEF IInv, WatcherInv, WInv, AttemptInv
    <2>2. IsFiniteSet(Unattempted)
      BY RefsFinite, FS_Subset DEF Unattempted
    <2>3. initialized <=> Unattempted = {}
      BY <2>2, FS_EmptySet DEF IInv, PendingInv
    <2> QED
      BY <2>1, <2>3 DEF Unattempted
  <1> QED
    BY <1>1, Invariance, PTL

\* A step that stores something records no error.
LEMMA StoreOrCount ==
    ASSUME Next
    PROVE  UNCHANGED cache \/ UNCHANGED <<syncErrors, watchErrors>>
  <1>1. ASSUME NEW r \in Refs, Watcher(r)
        PROVE  UNCHANGED cache \/ UNCHANGED <<syncErrors, watchErrors>>
    <2>1. CASE \E h \in BOOLEAN : WatchFail(r, h) \/ WatchEnd(r, h)
      BY <2>1 DEF WatchFail, WatchEnd
    <2>2. CASE Enter(r) \/ Return(r) \/ Wake(r)
      BY <2>2 DEF Enter, Return, Wake
    <2>3. CASE List(r) \/ ListFail(r) \/ ListUnexpected(r) \/ AfterList(r)
      BY <2>3 DEF List, ListFail, ListUnexpected, AfterList
    <2>4. CASE WatchOpen(r) \/ Event(r) \/ BadEvent(r) \/ Tick(r)
      BY <2>4 DEF WatchOpen, Event, BadEvent, Tick
    <2>5. CASE Reconcile(r) \/ GetFail(r) \/ GetUnexpected(r)
      BY <2>5 DEF Reconcile, GetFail, GetUnexpected
    <2>6. CASE Panic(r) \/ RecordPanic(r)
      BY <2>6 DEF Panic, RecordPanic
    <2> QED
      BY <1>1, <2>1, <2>2, <2>3, <2>4, <2>5, <2>6 DEF Watcher
  <1> QED
    BY <1>1 DEF Next, Start, Cancel, Change, AChange, LoseEvent, Answer, vars

\* A failure of any kind leaves what is served alone.
THEOREM FailuresKeepState == Spec => FailureKeepsState
  <1>1. [Next]_vars =>
            [\A r \in Refs :
                syncErrors'[r] # syncErrors[r] \/ watchErrors'[r] # watchErrors[r]
                    => cache'[r] = cache[r]]_vars
    BY StoreOrCount
  <1> QED
    BY <1>1, PTL DEF Spec, FailureKeepsState

\* Storing a version no older than the newest served is an observation of the
\* abstract cache.
LEMMA StoreObserves ==
    ASSUME Types, NEW r \in Refs, NEW v \in 1..Latest(r), high[r] <= v, store(r, v),
           hist' = hist
    PROVE  AObserve(r)
  <1>1. v \in Nat /\ high[r] \in Nat /\ v >= high[r]
    BY DEF Types, Latest
  <1>2. (IF hist[r][v] /\ v > high[r] THEN v ELSE high[r])
            = (IF hist[r][v] THEN v ELSE high[r])
    BY <1>1
  <1>3. high' = [high EXCEPT ![r] = IF hist[r][v] THEN v ELSE @]
    BY <1>2 DEF store
  <1> QED
    BY <1>1, <1>3 DEF AObserve, store

\* Every step of the manager is a step of the abstract cache or leaves it alone.
LEMMA StepImplements == IInv /\ [Next]_vars => [ANext]_abstractVars
  <1> SUFFICES ASSUME IInv, [Next]_vars PROVE [ANext]_abstractVars
    OBVIOUS
  <1>1. ASSUME NEW r \in Refs, Change(r) PROVE ANext
    BY <1>1 DEF Change, ANext
  <1>2. ASSUME NEW r \in Refs, List(r) PROVE ANext
    BY <1>2, StoreObserves DEF List, ANext, IInv, WatcherInv, WInv, HeldInv
  <1>3. ASSUME NEW r \in Refs, Reconcile(r) PROVE ANext
    BY <1>3, StoreObserves DEF Reconcile, ANext, IInv, WatcherInv, WInv, HeldInv
  <1>4. ASSUME NEW r \in Refs, Event(r) PROVE ANext
    <2>1. cursor[r] + 1 \in 1..Latest(r) /\ high[r] <= cursor[r] + 1
      BY <1>4 DEF Event, IInv, WatcherInv, WInv, StreamInv, Watching, Types, Latest
    <2> QED
      BY <1>4, <2>1, StoreObserves DEF Event, ANext, IInv
  <1>5. ASSUME NEW r \in Refs, LoseEvent(r) \/ Answer(r) PROVE UNCHANGED abstractVars
    BY <1>5 DEF LoseEvent, Answer
  <1>6. ASSUME NEW r \in Refs, Watcher(r) PROVE ANext \/ UNCHANGED abstractVars
    <2>1. CASE \E h \in BOOLEAN : WatchFail(r, h) \/ WatchEnd(r, h)
      BY <2>1 DEF WatchFail, WatchEnd
    <2>2. CASE Enter(r) \/ Return(r) \/ Wake(r)
      BY <2>2 DEF Enter, Return, Wake
    <2>3. CASE List(r) \/ ListFail(r) \/ ListUnexpected(r) \/ AfterList(r)
      BY <2>3, <1>2 DEF ListFail, ListUnexpected, AfterList
    <2>4. CASE WatchOpen(r) \/ Event(r) \/ BadEvent(r) \/ Tick(r)
      BY <2>4, <1>4 DEF WatchOpen, BadEvent, Tick
    <2>5. CASE Reconcile(r) \/ GetFail(r) \/ GetUnexpected(r)
      BY <2>5, <1>3 DEF GetFail, GetUnexpected
    <2>6. CASE Panic(r) \/ RecordPanic(r)
      BY <2>6 DEF Panic, RecordPanic
    <2> QED
      BY <1>6, <2>1, <2>2, <2>3, <2>4, <2>5, <2>6 DEF Watcher
  <1>7. CASE Start \/ Cancel \/ UNCHANGED vars
    BY <1>7 DEF Start, Cancel, vars
  <1> QED
    BY <1>1, <1>5, <1>6, <1>7 DEF Next

\* The manager implements the abstract cache.
THEOREM ManagerImplementsCache == Spec => ImplementsCache
  <1>1. Init => AInit
    BY DEF Init
  <1> QED
    BY <1>1, Invariance, StepImplements, PTL DEF Spec, ImplementsCache, ASpec
=============================================================================
