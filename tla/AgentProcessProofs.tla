-------------------------- MODULE AgentProcessProofs --------------------------
(***************************************************************************)
(* What holds of the agent process for every configuration file, every     *)
(* value of -exposure and any number of exposures: no two loops have a     *)
(* path or a name in common, and the exit code of -once tells what was     *)
(* done.                                                                   *)
(***************************************************************************)
EXTENDS AgentProcess, SequenceTheorems, TLAPS

Modes == {"check", "once", "serve"}
Results == {"none", "ok", "failed"}

\* The configuration file and the flag are what Documents and Selections allow, and
\* every exposure has its loop and its result.
ProcessTypeOK ==
    /\ doc \in Document /\ only \in Seq(Names \cup {BadName, Blank}) /\ mode \in Modes
    /\ stage \in Stages
    /\ DOMAIN sync = Loops
    /\ last \in [Loops -> Results]

\* Before the configuration is accepted there is no exposure; -once has only its own
\* stage, in which it has exposures to work on.
StageInv ==
    /\ stage = "load" => Loops = {}
    /\ mode = "once" => stage \in {"load", "once", "exited"}
    /\ stage = "once" => mode = "once" /\ Loops # {}

\* An exposure that -once is through with has a result.
ResultInv ==
    stage = "once" => \A k \in Loops : sync[k] = "ended" => last[k] # "none"

ProcessInv == ProcessTypeOK /\ StageInv /\ ResultInv /\ NothingShared /\ ExitStatus
-----------------------------------------------------------------------------
(* The configuration.                                                      *)

\* What is chosen for a name is an exposure of the document that has it.
LEMMA ChosenIsNamed ==
    ASSUME NEW name, Named(name) # {}
    PROVE  \E k \in DOMAIN doc.exposures :
              doc.exposures[k].name = name /\ Chosen(name) = doc.exposures[k]
  BY DEF Named, Chosen

\* What is selected are exposures of the document, and different ones at different
\* positions.
LEMMA SelectedApart ==
    ASSUME ProcessTypeOK, resolve, Selectable
    PROVE  \A k, m \in DOMAIN selectExposures :
              k # m => \E i, j \in DOMAIN doc.exposures :
                          /\ i # j
                          /\ selectExposures[k] = doc.exposures[i]
                          /\ selectExposures[m] = doc.exposures[j]
<1>1. CASE only = <<>>
  BY <1>1 DEF selectExposures
<1>2. CASE only # <<>>
  <2>1. /\ DOMAIN selectExposures = Wanted
        /\ \A k \in Wanted : selectExposures[k] = Chosen(only[k])
    BY <1>2 DEF selectExposures
  <2>2. ASSUME NEW k \in Wanted, NEW m \in Wanted, k # m
        PROVE  only[k] # only[m]
    <3>1. k \in Nat /\ m \in Nat /\ k \in DOMAIN only /\ m \in DOMAIN only
      BY DEF Wanted, ProcessTypeOK
    <3>2. k < m \/ m < k
      BY <2>2, <3>1
    <3> QED  BY <3>1, <3>2 DEF Wanted
  <2>3. \A k \in Wanted : Named(only[k]) # {}
    BY <1>2 DEF Selectable
  <2>4. ASSUME NEW k \in Wanted, NEW m \in Wanted, k # m
        PROVE  \E i, j \in DOMAIN doc.exposures :
                  /\ i # j
                  /\ selectExposures[k] = doc.exposures[i]
                  /\ selectExposures[m] = doc.exposures[j]
    <3>1. PICK i \in DOMAIN doc.exposures :
             doc.exposures[i].name = only[k] /\ Chosen(only[k]) = doc.exposures[i]
      BY <2>3, ChosenIsNamed
    <3>2. PICK j \in DOMAIN doc.exposures :
             doc.exposures[j].name = only[m] /\ Chosen(only[m]) = doc.exposures[j]
      BY <2>3, ChosenIsNamed
    <3>3. i # j
      BY <2>2, <2>4, <3>1, <3>2
    <3> QED  BY <2>1, <3>1, <3>2, <3>3
  <2> QED  BY <2>1, <2>4
<1> QED  BY <1>1, <1>2

\* Exposures at different positions of an accepted document have different names and
\* different clean paths, however these are written.
LEMMA AcceptedApart ==
    ASSUME resolve, NEW i \in DOMAIN doc.exposures, NEW j \in DOMAIN doc.exposures, i # j
    PROVE  /\ doc.exposures[i].name # doc.exposures[j].name
           /\ {Targets(i)[s].path : s \in DOMAIN Targets(i)}
                \cap {Targets(j)[s].path : s \in DOMAIN Targets(j)} = {}
<1>1. \A s \in DOMAIN Targets(i), t \in DOMAIN Targets(j) :
         Targets(i)[s].path # Targets(j)[t].path
  BY DEF resolve, PathKey
<1>2. doc.exposures[i].name # doc.exposures[j].name
  BY DEF resolve
<1> QED  BY <1>1, <1>2

\* An accepted document and a selection that is not refused leave something to do.
LEMMA SelectedSome ==
    ASSUME ProcessTypeOK, resolve, Selectable
    PROVE  DOMAIN selectExposures # {}
<1>1. CASE only = <<>>
  <2>1. doc.exposures \in Seq(Exposure) /\ doc.exposures # <<>>
    BY DEF ProcessTypeOK, Document, resolve
  <2>2. Len(doc.exposures) \in Nat /\ Len(doc.exposures) # 0
    BY <2>1, EmptySeq
  <2>3. 1 \in DOMAIN doc.exposures
    BY <2>1, <2>2
  <2> QED  BY <1>1, <2>3 DEF selectExposures
<1>2. CASE only # <<>>
  BY <1>2 DEF selectExposures, Selectable
<1> QED  BY <1>1, <1>2
-----------------------------------------------------------------------------
(* The steps.                                                              *)

\* What -once or the loops start with shares nothing, and nothing is done yet.
LEMMA ReadyApart ==
    ASSUME ProcessInv, Ready
    PROVE  /\ NothingShared' /\ Loops' # {}
           /\ DOMAIN sync' = Loops' /\ last' \in [Loops' -> Results]
           /\ \A k \in Loops' : sync'[k] = "new" /\ last'[k] = "none"
<1> USE DEF Ready
<1>0. ProcessTypeOK /\ resolve /\ Selectable /\ exposures' = selectExposures
  BY DEF ProcessInv
<1>1. Loops' # {}
  BY <1>0, SelectedSome DEF Loops
<1>2. /\ DOMAIN sync' = Loops' /\ last' \in [Loops' -> Results]
      /\ \A k \in Loops' : sync'[k] = "new" /\ last'[k] = "none"
  BY DEF Loops, Results
<1>3. ASSUME NEW k \in Loops', NEW m \in Loops', k # m
      PROVE  exposures'[k].name # exposures'[m].name /\ PathsOf(k)' \cap PathsOf(m)' = {}
  <2>1. PICK i \in DOMAIN doc.exposures, j \in DOMAIN doc.exposures :
           i # j /\ exposures'[k] = doc.exposures[i] /\ exposures'[m] = doc.exposures[j]
    BY <1>0, <1>3, SelectedApart DEF Loops
  <2>2. /\ PathsOf(k)' = {Targets(i)[s].path : s \in DOMAIN Targets(i)}
        /\ PathsOf(m)' = {Targets(j)[s].path : s \in DOMAIN Targets(j)}
    BY <2>1 DEF PathsOf, Targets
  <2> QED  BY <1>0, <2>1, <2>2, AcceptedApart
<1> QED  BY <1>1, <1>2, <1>3 DEF NothingShared

\* An exit code of -once, when it is given, is the right one.
LEMMA ExitsRight ==
    ASSUME ProcessInv, Next, stage # "exited", stage' = "exited", mode = "once"
    PROVE  ExitStatus'
<1> USE DEF ProcessInv, StageInv
<1>1. CASE LoadFails
  BY <1>1 DEF LoadFails, ExitWith, ExitStatus, Loops, startVars, loopVars
<1>2. CASE OnceEnds
  <2>1. /\ exposures' = exposures /\ last' = last /\ ctxDone' = ctxDone /\ Loops' = Loops
        /\ exitCode' = OnceCode
    BY <1>2 DEF OnceEnds, ExitWith, loopVars, Loops
  <2>2. Loops # {} /\ \A k \in Loops : last[k] \in Results
    BY <1>2 DEF OnceEnds, ProcessTypeOK
  <2>3. ctxDone \/ \A k \in Loops : last[k] # "none"
    BY <1>2 DEF OnceEnds, ResultInv
  <2> QED  BY <2>1, <2>2, <2>3 DEF ExitStatus, OnceCode, Results
<1>3. CASE Kill
  BY <1>3 DEF Kill, ExitWith, Killed, ExitStatus
<1>4. CASE Shutdown
  BY <1>4 DEF Shutdown
<1>5. ~Checked /\ ~ListenFails
  BY DEF Checked, ListenFails
<1>6. ASSUME NEW k \in Loops, Loop(k) \/ StartChild(k) \/ ChildEnds(k)
      PROVE  FALSE
  BY <1>6 DEF Loop, OnceNext, Wake, RunCommand, CommandExits,
              SyncEnds, LoopEnds, StartChild, ChildEnds
<1>7. ~StartOnce /\ ~StartServe /\ ~RunnerDone /\ ~ListenerStopped
  BY DEF StartOnce, StartServe, RunnerDone, ListenerStopped
<1>8. ~Signal /\ ~ListenerFails
  BY DEF Signal, ListenerFails
<1> QED  BY <1>1, <1>2, <1>3, <1>4, <1>5, <1>6, <1>7, <1>8 DEF Next, Main

\* Exposures that stay the same stay apart.
LEMMA StaysApart ==
    ASSUME NothingShared, exposures' = exposures
    PROVE  NothingShared'
<1>1. Loops' = Loops /\ \A k \in Loops : PathsOf(k)' = PathsOf(k)
  BY DEF Loops, PathsOf
<1> QED  BY <1>1 DEF NothingShared

\* Every step preserves the invariant.
LEMMA ProcessStep ==
    ASSUME ProcessInv, [Next]_vars
    PROVE  ProcessInv'
<1> USE DEF ProcessInv
<1>1. CASE UNCHANGED vars
  <2>1. /\ doc' = doc /\ only' = only /\ mode' = mode /\ stage' = stage
        /\ exposures' = exposures /\ sync' = sync /\ last' = last /\ ctxDone' = ctxDone
        /\ exitCode' = exitCode /\ Loops' = Loops
    BY <1>1 DEF vars, startVars, loopVars, Loops
  <2>2. ProcessTypeOK' /\ StageInv' /\ ResultInv'
    BY <2>1 DEF ProcessTypeOK, StageInv, ResultInv
  <2>3. NothingShared'
    BY <2>1, StaysApart
  <2>4. ExitStatus'
    BY <2>1 DEF ExitStatus
  <2> QED  BY <2>2, <2>3, <2>4
<1>2. CASE Next
  <2>1. startVars' = startVars
    BY <1>2 DEF Next, Main, LoadFails, Checked, StartOnce, StartServe, ListenFails, OnceEnds,
                RunnerDone, ListenerStopped, Shutdown, Signal, Kill, ListenerFails, Loop,
                OnceNext, Wake, RunCommand, CommandExits,
                SyncEnds, LoopEnds, StartChild, ChildEnds, vars
  <2>2. CASE StartOnce \/ StartServe \/ ListenFails
    <3>1. Ready /\ mode' = mode /\ mode # "check"
      BY <2>1, <2>2 DEF StartOnce, StartServe, ListenFails, startVars, Ready
    <3>2. stage' \in Stages /\ stage' # "load"
      BY <2>2 DEF StartOnce, StartServe, ListenFails, ExitWith, Stages
    <3>3. ProcessTypeOK'
      BY <2>1, <3>1, <3>2, ReadyApart DEF ProcessTypeOK, startVars
    <3>4. StageInv'
      BY <2>1, <2>2, <3>1, <3>2, ReadyApart
      DEF StageInv, StartOnce, StartServe, ListenFails, ExitWith
    <3>5. ResultInv'
      BY <3>1, ReadyApart DEF ResultInv
    <3>6. ExitStatus'
      BY <2>2, <3>1 DEF StartOnce, StartServe, ListenFails, ExitStatus
    <3> QED  BY <3>1, <3>3, <3>4, <3>5, <3>6, ReadyApart
  <2>3. CASE ~(StartOnce \/ StartServe \/ ListenFails)
    <3>1. exposures' = exposures /\ Loops' = Loops
      BY <1>2, <2>3
      DEF Next, Main, LoadFails, Checked, OnceEnds, RunnerDone, ListenerStopped, Shutdown,
          Signal, Kill, ListenerFails, Loop, OnceNext, Wake, RunCommand, CommandExits,
          SyncEnds, LoopEnds, StartChild, ChildEnds,
          vars, Loops
    <3>2. NothingShared'
      BY <3>1, StaysApart
    <3>3. /\ stage' \in Stages /\ (stage' = "load" => stage = "load")
          /\ stage' = "once" => stage = "once"
          /\ mode = "once" => stage' \in {"load", "once", "exited"}
      <4>1. \/ stage' = stage
            \/ stage' = "exited"
            \/ stage' \in {"drain", "shutdown"} /\ stage \in {"serve", "drain"}
        BY <1>2, <2>3
        DEF Next, Main, LoadFails, Checked, OnceEnds, RunnerDone, ListenerStopped, Shutdown,
            Signal, Kill, ListenerFails, Loop, OnceNext, Wake, RunCommand, CommandExits,
            SyncEnds, LoopEnds, StartChild, ChildEnds,
            vars, ExitWith
      <4> QED  BY <4>1 DEF ProcessTypeOK, StageInv, Stages
    <3>4. StageInv'
      BY <2>1, <3>1, <3>3 DEF StageInv, startVars
    <3>5. DOMAIN sync' = Loops /\ last' \in [Loops -> Results] /\ ResultInv'
      <4>1. ASSUME NEW k \in Loops, SyncEnds(k)
            PROVE  DOMAIN sync' = Loops /\ last' \in [Loops -> Results] /\ ResultInv'
        BY <3>1, <4>1 DEF SyncEnds, ProcessTypeOK, Results, ResultInv
      <4>2. ASSUME NEW k \in Loops, OnceNext(k) \/ Wake(k) \/ RunCommand(k)
            PROVE  DOMAIN sync' = Loops /\ last' \in [Loops -> Results] /\ ResultInv'
        BY <3>1, <4>2 DEF OnceNext, Wake, RunCommand, ProcessTypeOK, ResultInv
      <4>3. ASSUME NEW k \in Loops, LoopEnds(k)
            PROVE  DOMAIN sync' = Loops /\ last' \in [Loops -> Results] /\ ResultInv'
        BY <3>1, <4>3 DEF LoopEnds, ProcessTypeOK, ResultInv
      <4>4. CASE sync' = sync /\ last' = last
        BY <3>1, <3>3, <4>4 DEF ProcessTypeOK, ResultInv
      <4>5. (sync' = sync /\ last' = last) \/ \E k \in Loops : Loop(k)
        BY <1>2, <2>3
        DEF Next, Main, LoadFails, Checked, OnceEnds, RunnerDone, ListenerStopped, Shutdown,
            Signal, Kill, ListenerFails, StartChild, ChildEnds, vars, loopVars
      <4>6. ASSUME NEW k \in Loops, CommandExits(k)
            PROVE  sync' = sync /\ last' = last
        BY <4>6 DEF CommandExits
      <4> QED  BY <4>1, <4>2, <4>3, <4>4, <4>5, <4>6 DEF Loop
    <3>6. ProcessTypeOK'
      BY <2>1, <3>1, <3>3, <3>5 DEF ProcessTypeOK, startVars
    <3>7. ExitStatus'
      <4>1. CASE stage # "exited"
        BY <1>2, <2>1, <4>1, ExitsRight DEF ExitStatus, startVars
      <4>2. CASE stage = "exited"
        <5>1. UNCHANGED vars
          BY <1>2, <2>3, <4>2
          DEF Next, Main, LoadFails, Checked, OnceEnds, RunnerDone, ListenerStopped, Shutdown,
              Signal, Kill, ListenerFails, Loop, OnceNext, Wake, RunCommand, CommandExits,
              SyncEnds, LoopEnds, StartChild, ChildEnds
        <5>2. /\ mode' = mode /\ stage' = stage /\ last' = last /\ ctxDone' = ctxDone
              /\ exitCode' = exitCode
          BY <5>1 DEF vars, startVars, loopVars
        <5> QED  BY <3>1, <5>2 DEF ExitStatus
      <4> QED  BY <4>1, <4>2
    <3> QED  BY <3>2, <3>4, <3>5, <3>6, <3>7
  <2> QED  BY <2>2, <2>3
<1> QED  BY <1>1, <1>2

\* The invariant holds before the configuration is read.
LEMMA ProcessInitially == Init => ProcessInv
<1> SUFFICES ASSUME Init PROVE ProcessInv
  OBVIOUS
<1> USE DEF Init
<1>1. Loops = {}
  BY DEF Loops
<1>2. DOMAIN sync = {} /\ DOMAIN last = {} /\ last = [k \in {} |-> "none"]
  OBVIOUS
<1>3. ProcessTypeOK
  BY <1>1, <1>2, AgentProcessAssumption DEF ProcessTypeOK, Modes, Stages
<1> QED  BY <1>1, <1>3 DEF ProcessInv, StageInv, ResultInv, NothingShared, ExitStatus

\* The invariant of the agent process.
LEMMA ProcessInvariance == Spec => []ProcessInv
  BY ProcessInitially, ProcessStep, PTL DEF Spec

\* For every configuration and selection, no two loops of an agent install at the same
\* clean path, however the configuration writes it, or keep their tag under the same
\* name.  (Clean paths that are one file through a symbolic link are not told apart.)
THEOREM LoopsHaveOwnPaths == Spec => []NothingShared
  BY ProcessInvariance, PTL DEF ProcessInv

\* For every configuration and selection, and whatever the commands and signals do, the
\* exit code of -once says what was synchronized.
THEOREM ExitCodeIsRight == Spec => []ExitStatus
  BY ProcessInvariance, PTL DEF ProcessInv
=============================================================================
