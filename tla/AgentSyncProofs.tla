--------------------------- MODULE AgentSyncProofs ---------------------------
(***************************************************************************)
(* Proofs about AgentSync for any number of targets, contents, failures,   *)
(* crashes and manipulations, with and without a command.  SyncInv holds   *)
(* whatever the gateway serves; ForwardInv needs contents that only move   *)
(* forward (Rollback = FALSE).                                             *)
(***************************************************************************)
EXTENDS AgentSync, TLAPS

Installing == pc \in {"stage", "rename", "flush", "stamp", "command", "commit"}

\* The temporary file of t is there; t has been replaced by this Sync.
Staged(t)  == (pc = "stage" /\ t <= n) \/ (pc = "rename" /\ t > n)
Renamed(t) == (pc = "rename" /\ t <= n) \/ pc \in {"flush", "stamp", "command", "commit"}

\* What is installed, and where, while a Sync is under way.
InstallInv ==
    /\ Installing => result \in Contents \ Incomplete
    /\ \A t \in Targets : Staged(t) => temp[t] = result
    /\ \A t \in Targets : Renamed(t) =>
        /\ file[t] \in {result, None, Foreign}
        /\ ~tampered => file[t] = result

\* Nothing incomplete is on the disk, or would be after a power loss.
CompleteInv == \A t \in Targets : {file[t], durable.file[t]} \cap Incomplete = {}

\* Only somebody else changes modes.
TamperInv ==
    /\ tampered => tampering # 0
    /\ tampering = 0 => \A t \in Targets : modeOK[t] /\ durable.modeOK[t]

\* Stamp and command come before the commit.
ReloadInv ==
    /\ pc \in {"command", "commit"} => stamped = result
    /\ pc = "commit" /\ HasCommand =>
        \A t \in Targets : loaded[t] \in {result, None, Foreign}
    /\ owed => HasCommand /\ pc # "commit"

\* A tag is sent only while it is the stored one and every target is there.
FetchInv ==
    pc = "fetch" /\ tag # None =>
        /\ tag = etag
        /\ ~tampered => \A t \in Targets : file[t] # None

\* A process that is not there is not healthy.
DownInv == pc = "down" => ~healthy

SyncInv ==
    TypeOK /\ InstallInv /\ CompleteInv /\ TamperInv /\ ReloadInv /\ FetchInv /\ DownInv
-----------------------------------------------------------------------------
\* No target of f is older than e; one that was deleted by somebody else is none.
Covered(e, f) ==
    \A t \in Targets : e <= f[t] \/ (f[t] = None /\ tampering # 0)

\* No target of f is newer than c, unless somebody else wrote it.
Within(f, c) ==
    \A t \in Targets : f[t] <= c \/ (f[t] = Foreign /\ tampering # 0)

\* Everything comes from the past of what is served.
PastInv ==
    /\ Within(file, served) /\ Within(durable.file, served)
    /\ etag <= served /\ durable.etag <= etag
    /\ Installing => result <= served /\ etag <= result /\ Within(file, result)

\* The tag is behind the targets, also on the disk as a power loss leaves it.
TagInv ==
    /\ renames # "lost" => Covered(etag, file)
    /\ renames = "safe" => Covered(etag, durable.file)
    /\ renames = "safe" /\ pc \in {"stamp", "command", "commit"} =>
        Covered(result, durable.file)

\* While all targets are as installed, the stored tag is sent, so that what is
\* installed is newer; a reload that is owed shows in a target ahead of the tag.
OwedInv ==
    tampering = 0 /\ renames # "lost" =>
        /\ pc = "fetch" => tag = etag
        /\ Installing => etag < result
        /\ owed => \E t \in Targets : etag < file[t]
        /\ pc = "idle" /\ healthy => ~owed

ForwardInv == PastInv /\ TagInv /\ OwedInv /\ HealthyIsCoherent
USE DEF gatewayVars, diskVars, syncVars, limitVars, historyVars

\* The ranges contain what the actions assign.
LEMMA Ranges ==
    /\ None \in Tags /\ Contents \subseteq Tags /\ Foreign \notin Tags
    /\ 0 \in 0..(NumTargets - 1) /\ Targets \subseteq Nat /\ Tags \subseteq Nat
    /\ Foreign \in Nat /\ None \notin Contents
    /\ Empty \in [Targets -> Tags] /\ Empty \in Files
BY AgentAssumption DEF None, Tags, Contents, Foreign, Targets, Empty, Files

\* A bounded counter that is raised stays in its range.
LEMMA Counts == ASSUME NEW m \in Nat, NEW k \in 0..m, k < m PROVE k + 1 \in 0..m /\ k + 1 # 0
OBVIOUS

\* A call that fails ends the Sync.
LEMMA FailEnds ==
    ASSUME TypeOK, Fail
    PROVE  /\ pc' = "idle" /\ tag' = None /\ result' = None /\ n' = 0 /\ healthy' = FALSE
           /\ failures' \in 0..MaxFailures
<1>1. failures' = failures + 1 /\ failures < MaxFailures /\ failures \in 0..MaxFailures
  BY DEF Fail, TypeOK
<1>2. failures' \in 0..MaxFailures
  BY <1>1, AgentAssumption, Counts
<1> QED
  BY <1>2 DEF Fail, Finish

\* The agent dies.
LEMMA DieEnds ==
    ASSUME TypeOK, Die
    PROVE  /\ pc' = "down" /\ tag' = None /\ result' = None /\ n' = 0 /\ healthy' = FALSE
           /\ temp' = Empty /\ crashes' \in 0..MaxCrashes
<1>1. crashes' = crashes + 1 /\ crashes < MaxCrashes /\ crashes \in 0..MaxCrashes
  BY DEF Die, TypeOK
<1>2. crashes' \in 0..MaxCrashes
  BY <1>1, AgentAssumption, Counts
<1> QED
  BY <1>2 DEF Die

\* The loops over the targets.
LEMMA LoopStep ==
    ASSUME TypeOK, NEW next \in Steps, NextTarget(next)
    PROVE  /\ n + 1 \in Targets /\ n' \in 0..(NumTargets - 1) /\ pc' \in Steps
           /\ \/ pc' = next /\ n' = 0 /\ \A t \in Targets : t <= n + 1
              \/ pc' = pc /\ n' = n + 1
BY AgentAssumption DEF TypeOK, Targets, NextTarget

\* What may be on the disk for good.
LEMMA WrittenBackType ==
    ASSUME TypeOK, NEW d \in WrittenBack
    PROVE  /\ d \in [file : Files, modeOK : [Targets -> BOOLEAN], etag : Tags]
           /\ \A t \in Targets : d.file[t] \in {file[t], durable.file[t]}
           /\ \A t \in Targets : d.modeOK[t] \in {modeOK[t], durable.modeOK[t]}
           /\ d.etag \in {etag, durable.etag}
<1>1. PICK S \in SUBSET Targets, e \in {etag, durable.etag} :
        d = [file   |-> [t \in Targets |-> IF t \in S THEN file[t] ELSE durable.file[t]],
             modeOK |-> [t \in Targets |-> IF t \in S THEN modeOK[t] ELSE durable.modeOK[t]],
             etag   |-> e]
  BY DEF WrittenBack
<1> QED
  BY <1>1 DEF TypeOK, Files

\* Every step keeps the types, those of contents and files included.
LEMMA TypeStep == ASSUME TypeOK, [Next]_vars PROVE TypeOK'
<1> USE Ranges DEF TypeOK, Steps
<1>1. CASE Begin
  BY <1>1 DEF Begin, currentETag
<1>2. CASE NotModified
  BY <1>2 DEF NotModified, Finish
<1>3. CASE Fetched
  BY <1>3 DEF Fetched
<1>4. CASE MissingKeys
  BY <1>4 DEF MissingKeys, Finish
<1>5. CASE Unavailable
  BY <1>5 DEF Unavailable, Finish
<1>6. CASE Stage
  BY <1>6, LoopStep DEF Stage
<1>7. CASE Rename
  BY <1>7, LoopStep, AgentAssumption DEF Rename, Files
<1>8. CASE Flush
  BY <1>8 DEF Flush, Flushed
<1>9. CASE Stamp
  BY <1>9 DEF Stamp, AfterStamp
<1>10. CASE Command
  BY <1>10 DEF Command
<1>11. CASE Commit
  BY <1>11 DEF Commit, Finish
<1>12. CASE BeginFails
  BY <1>12, FailEnds DEF BeginFails
<1>13. CASE FetchFails
  BY <1>13, FailEnds DEF FetchFails
<1>14. CASE InstallFails
  BY <1>14, FailEnds DEF InstallFails
<1>15. CASE StampFails
  BY <1>15, FailEnds DEF StampFails
<1>16. CASE CommandFails
  BY <1>16, FailEnds DEF CommandFails
<1>17. CASE CommitFails
  BY <1>17, FailEnds DEF CommitFails
<1>18. CASE FlushFails
  BY <1>18, Counts, AgentAssumption DEF FlushFails
<1>19. CASE Crash
  BY <1>19, DieEnds DEF Crash
<1>20. CASE PowerLoss
  BY <1>20, DieEnds, WrittenBackType DEF PowerLoss
<1>21. CASE Restart
  BY <1>21 DEF Restart
<1>22. CASE Writeback
  BY <1>22, WrittenBackType DEF Writeback
<1>23. CASE \E t \in Targets : Tamper(t)
  <2>1. PICK t \in Targets : Tamper(t)
    BY <1>23
  <2>2. tampering' \in 0..MaxTampering
    BY <2>1, Counts, AgentAssumption DEF Tamper
  <2>3. file' \in Files
    <3>1. file' \in {file, [file EXCEPT ![t] = None], [file EXCEPT ![t] = Foreign]}
      BY <2>1 DEF Tamper
    <3> QED
      BY <3>1 DEF Files
  <2>4. modeOK' \in [Targets -> BOOLEAN]
    <3>1. modeOK' = modeOK \/ modeOK' = [modeOK EXCEPT ![t] = FALSE]
      BY <2>1 DEF Tamper
    <3> QED
      BY <3>1
  <2> QED
    BY <2>1, <2>2, <2>3, <2>4 DEF Tamper
<1>24. CASE Rotate
  BY <1>24 DEF Rotate
<1>25. CASE UNCHANGED vars
  BY <1>25 DEF vars
<1> QED
  BY <1>1, <1>2, <1>3, <1>4, <1>5, <1>6, <1>7, <1>8, <1>9, <1>10, <1>11, <1>12,
     <1>13, <1>14, <1>15, <1>16, <1>17, <1>18, <1>19, <1>20, <1>21, <1>22, <1>23, <1>24,
     <1>25
     DEF Next, HostNext, Sync, SyncFails

-----------------------------------------------------------------------------
(* SyncInv, whatever the gateway serves.                                   *)

\* The end of a Sync keeps everything but the tag and what is not on the disk.
LEMMA EndStep ==
    ASSUME SyncInv, pc' \in {"idle", "down"},
           UNCHANGED <<file, modeOK, durable, owed, tampered, tampering>>
    PROVE  InstallInv' /\ CompleteInv' /\ TamperInv' /\ ReloadInv' /\ FetchInv'
BY DEF SyncInv, InstallInv, Installing, Staged, Renamed, CompleteInv, TamperInv, ReloadInv,
       FetchInv

\* Initially nothing is installed.
LEMMA InitSync == Init => SyncInv
<1> SUFFICES ASSUME Init PROVE SyncInv
  OBVIOUS
<1> USE DEF Init, InitHost
<1>1. TypeOK
  <2>1. modeOK \in [Targets -> BOOLEAN]
    OBVIOUS
  <2>2. durable \in [file : Files, modeOK : [Targets -> BOOLEAN], etag : Tags]
    BY <2>1, Ranges
  <2>3. failures \in 0..MaxFailures /\ crashes \in 0..MaxCrashes
        /\ tampering \in 0..MaxTampering
    BY AgentAssumption
  <2> QED
    BY <2>1, <2>2, <2>3, Ranges DEF TypeOK, Steps
<1>2. CompleteInv
  BY AgentAssumption DEF CompleteInv, Empty, None
<1>3. InstallInv /\ TamperInv /\ ReloadInv /\ FetchInv /\ DownInv
  BY DEF InstallInv, Installing, Staged, Renamed, TamperInv, ReloadInv, FetchInv, DownInv
<1> QED
  BY <1>1, <1>2, <1>3 DEF SyncInv

\* A rename installs the content that was fetched.
LEMMA RenameStep ==
    ASSUME SyncInv, Rename
    PROVE  /\ n + 1 \in Targets /\ result \in Contents \ Incomplete
           /\ file' = [file EXCEPT ![n + 1] = result]
           /\ modeOK' = [modeOK EXCEPT ![n + 1] = TRUE]
           /\ \/ pc' = "flush" /\ n' = 0 /\ \A t \in Targets : t <= n + 1
              \/ pc' = "rename" /\ n' = n + 1
<1>1. /\ n + 1 \in Targets
      /\ \/ pc' = "flush" /\ n' = 0 /\ \A t \in Targets : t <= n + 1
         \/ pc' = "rename" /\ n' = n + 1
  BY LoopStep DEF Rename, SyncInv, Steps
<1>2. n + 1 > n
  BY DEF SyncInv, TypeOK
<1>3. temp[n + 1] = result
  BY <1>1, <1>2 DEF Rename, SyncInv, InstallInv, Staged
<1> QED
  BY <1>1, <1>3 DEF Rename, SyncInv, InstallInv, Installing

\* The healthy gauge goes with the process.
LEMMA DownStep == ASSUME TypeOK, DownInv, [Next]_vars PROVE DownInv'
<1>1. CASE Crash \/ PowerLoss
  BY <1>1, DieEnds DEF Crash, PowerLoss, DownInv
<1>2. CASE Stage \/ Rename
  BY <1>2, LoopStep DEF Stage, Rename, Steps, DownInv
<1>3. CASE BeginFails \/ FetchFails \/ InstallFails \/ StampFails \/ CommandFails \/ CommitFails
  BY <1>3, FailEnds
     DEF BeginFails, FetchFails, InstallFails, StampFails, CommandFails, CommitFails, DownInv
<1> QED
  BY <1>1, <1>2, <1>3
     DEF Next, HostNext, Sync, SyncFails, Begin, NotModified, Fetched, MissingKeys, Unavailable,
         Finish, Flush, FlushFails, Stamp, AfterStamp, Command, Commit, Restart, Writeback,
         Tamper, Rotate, vars, DownInv

\* Every step keeps SyncInv.
LEMMA SyncStep == ASSUME SyncInv, [Next]_vars PROVE SyncInv'
<1>1. TypeOK /\ TypeOK' /\ DownInv'
  BY TypeStep, DownStep DEF SyncInv
<1>2. CASE NotModified \/ MissingKeys \/ Unavailable \/ Commit
  BY <1>1, <1>2, EndStep DEF NotModified, MissingKeys, Unavailable, Commit, Finish, SyncInv
<1>3. CASE BeginFails \/ FetchFails \/ InstallFails \/ StampFails \/ CommandFails \/ CommitFails
  BY <1>1, <1>3, FailEnds, EndStep
     DEF BeginFails, FetchFails, InstallFails, StampFails, CommandFails, CommitFails, SyncInv
<1>4. CASE Crash \/ Restart
  BY <1>1, <1>4, DieEnds, EndStep DEF Crash, Restart, SyncInv
<1>5. CASE Begin
  <2>1. tag' # None => tag' = etag /\ \A t \in Targets : file[t] # None
    BY <1>5 DEF Begin, currentETag
  <2> QED
    BY <1>1, <1>5, <2>1 DEF Begin, SyncInv, InstallInv, Installing, Staged, Renamed, CompleteInv,
        TamperInv, ReloadInv, FetchInv
<1>6. CASE Fetched
  <2>1. InstallInv'
    BY <1>1, <1>6, Ranges, AgentAssumption
       DEF Fetched, Complete, InstallInv, Installing, Staged, Renamed, TypeOK, Targets
  <2> QED
    BY <1>1, <1>6, <2>1 DEF Fetched, SyncInv, CompleteInv, TamperInv, ReloadInv, FetchInv
<1>7. CASE Stage
  <2>1. n + 1 \in Targets /\ temp' = [temp EXCEPT ![n + 1] = result]
        /\ \/ pc' = "rename" /\ n' = 0 /\ \A t \in Targets : t <= n + 1
           \/ pc' = "stage" /\ n' = n + 1
    BY <1>1, <1>7, LoopStep DEF Stage, Steps
  <2>2. InstallInv'
    <3>1. \A t \in Targets : Staged(t)' => temp'[t] = result
      BY <1>1, <1>7, <2>1, AgentAssumption
         DEF SyncInv, InstallInv, Staged, Stage, TypeOK, Targets
    <3>2. \A t \in Targets : ~Renamed(t)'
      BY <2>1, AgentAssumption DEF Renamed, Targets
    <3> QED
      BY <1>7, <2>1, <3>1, <3>2 DEF Stage, SyncInv, InstallInv, Installing
  <2> QED
    BY <1>1, <1>7, <2>1, <2>2 DEF Stage, SyncInv, CompleteInv, TamperInv, ReloadInv, FetchInv
<1>8. CASE Rename
  <2>1. /\ n + 1 \in Targets /\ result \in Contents \ Incomplete
        /\ file' = [file EXCEPT ![n + 1] = result]
        /\ modeOK' = [modeOK EXCEPT ![n + 1] = TRUE]
        /\ \/ pc' = "flush" /\ n' = 0 /\ \A t \in Targets : t <= n + 1
           \/ pc' = "rename" /\ n' = n + 1
    BY <1>1, <1>8, RenameStep
  <2>2. InstallInv'
    <3>1. \A t \in Targets : Staged(t)' => temp'[t] = result
      BY <1>1, <1>8, <2>1, AgentAssumption
         DEF SyncInv, InstallInv, Staged, Rename, TypeOK, Targets
    <3>2. \A t \in Targets : Renamed(t)' =>
            file'[t] \in {result, None, Foreign} /\ (~tampered => file'[t] = result)
      BY <1>1, <1>8, <2>1, AgentAssumption
         DEF SyncInv, InstallInv, Renamed, Rename, TypeOK, Targets, Files
    <3> QED
      BY <1>8, <2>1, <3>1, <3>2 DEF Rename, InstallInv, Installing
  <2>3. CompleteInv'
    BY <1>1, <1>8, <2>1 DEF Rename, SyncInv, CompleteInv, TypeOK, Files
  <2>4. TamperInv'
    BY <1>1, <1>8, <2>1 DEF Rename, SyncInv, TamperInv, TypeOK
  <2> QED
    BY <1>1, <1>8, <2>1, <2>2, <2>3, <2>4, AgentAssumption
       DEF Rename, SyncInv, ReloadInv, FetchInv
<1>9. CASE Flush
  BY <1>1, <1>9 DEF Flush, Flushed, SyncInv, InstallInv, Installing, Staged, Renamed, CompleteInv,
      TamperInv, ReloadInv, FetchInv
<1>10. CASE FlushFails
  BY <1>1, <1>10 DEF FlushFails, SyncInv, InstallInv, Installing, Staged, Renamed, CompleteInv,
      TamperInv, ReloadInv, FetchInv
<1>11. CASE Stamp
  BY <1>1, <1>11 DEF Stamp, AfterStamp, SyncInv, InstallInv, Installing, Staged, Renamed,
      CompleteInv, TamperInv, ReloadInv, FetchInv
<1>12. CASE Command
  BY <1>1, <1>12 DEF Command, SyncInv, InstallInv, Installing, Staged, Renamed, CompleteInv,
      TamperInv, ReloadInv, FetchInv
<1>13. CASE PowerLoss
  <2>1. /\ durable' \in WrittenBack /\ file' = durable'.file /\ modeOK' = durable'.modeOK
        /\ pc' = "down" /\ ~owed' /\ tampered' = tampered /\ tampering' = tampering
    BY <1>1, <1>13, DieEnds DEF PowerLoss
  <2>2. CompleteInv' /\ TamperInv'
    BY <1>1, <2>1, WrittenBackType DEF SyncInv, CompleteInv, TamperInv
  <2> QED
    BY <1>1, <2>1, <2>2 DEF SyncInv, InstallInv, Installing, Staged, Renamed, ReloadInv, FetchInv
<1>14. CASE Writeback
  <2>1. CompleteInv' /\ TamperInv'
    BY <1>1, <1>14, WrittenBackType DEF Writeback, SyncInv, CompleteInv, TamperInv
  <2> QED
    BY <1>1, <1>14, <2>1
       DEF Writeback, SyncInv, InstallInv, Installing, Staged, Renamed, ReloadInv, FetchInv
<1>15. CASE \E t \in Targets : Tamper(t)
  <2>1. PICK t \in Targets : Tamper(t)
    BY <1>15
  <2>2. \A u \in Targets : file'[u] \in {file[u], None, Foreign}
    BY <1>1, <2>1 DEF Tamper, TypeOK, Files
  <2>3. InstallInv'
    BY <1>1, <2>1, <2>2 DEF Tamper, SyncInv, InstallInv, Installing, Staged, Renamed
  <2>4. CompleteInv'
    BY <2>1, <2>2, AgentAssumption DEF Tamper, SyncInv, CompleteInv, None, Foreign
  <2>5. TamperInv'
    BY <1>1, <2>1, Counts, AgentAssumption DEF Tamper, TamperInv, TypeOK
  <2> QED
    BY <1>1, <2>1, <2>3, <2>4, <2>5 DEF Tamper, SyncInv, ReloadInv, FetchInv
<1>16. CASE Rotate
  BY <1>1, <1>16 DEF Rotate, SyncInv, InstallInv, Installing, Staged, Renamed, CompleteInv,
      TamperInv, ReloadInv, FetchInv
<1>17. CASE UNCHANGED vars
  BY <1>1, <1>17 DEF vars, SyncInv, InstallInv, Installing, Staged, Renamed, CompleteInv,
      TamperInv, ReloadInv, FetchInv
<1> QED
  BY <1>2, <1>3, <1>4, <1>5, <1>6, <1>7, <1>8, <1>9, <1>10, <1>11, <1>12, <1>13, <1>14, <1>15,
     <1>16, <1>17 DEF Next, HostNext, Sync, SyncFails

-----------------------------------------------------------------------------
(* ForwardInv, while contents only move forward.                           *)

\* Contents are numbers; one that nobody else wrote is below Foreign.
LEMMA Numbers ==
    ASSUME TypeOK
    PROVE  /\ served \in Nat \ {0} /\ served < Foreign /\ Foreign \in Nat /\ None = 0
           /\ etag \in Nat /\ durable.etag \in Nat /\ result \in Nat /\ tag \in Nat
           /\ etag < Foreign /\ result < Foreign /\ tampering \in Nat
           /\ \A t \in Targets : file[t] \in Nat /\ durable.file[t] \in Nat
BY AgentAssumption DEF TypeOK, Contents, Tags, Files, Foreign, None

\* A step that leaves the disk alone and goes on with what was fetched, or with
\* nothing.
LEMMA QuietStep ==
    ASSUME TypeOK, PastInv, TagInv,
           UNCHANGED <<served, file, durable, etag, renames, tampering>>,
           Installing' => Installing /\ result' = result,
           pc' \in {"stamp", "command", "commit"} => pc \in {"stamp", "command", "commit"}
    PROVE  PastInv' /\ TagInv'
<1>1. pc' \in {"stamp", "command", "commit"} => result' = result
  BY DEF Installing
<1> QED
  BY <1>1 DEF PastInv, TagInv, Within, Covered

\* Such a step that ends the Sync without success.
LEMMA QuietEnd ==
    ASSUME SyncInv, ForwardInv, pc' \in {"idle", "down"}, healthy' = FALSE,
           UNCHANGED <<served, file, durable, etag, renames, tampering, owed>>
    PROVE  ForwardInv'
<1>1. ~Installing' /\ pc' \notin {"stamp", "command", "commit", "fetch"}
  BY DEF Installing
<1>2. PastInv' /\ TagInv'
  BY <1>1, QuietStep DEF SyncInv, ForwardInv
<1>3. OwedInv' /\ HealthyIsCoherent'
  BY <1>1 DEF ForwardInv, OwedInv, HealthyIsCoherent
<1> QED
  BY <1>2, <1>3 DEF ForwardInv

\* 304: the stored tag is that of what is served, so no target is older or newer.
LEMMA NotModifiedForward ==
    ASSUME SyncInv, ForwardInv, NotModified PROVE ForwardInv'
<1>1. /\ pc' = "idle" /\ pc = "fetch" /\ tag = served
      /\ UNCHANGED <<served, file, durable, etag, renames, tampering, owed, tampered>>
  BY DEF NotModified, Finish
<1>2. PastInv' /\ TagInv'
  BY <1>1, QuietStep DEF SyncInv, ForwardInv, Installing
<1>3. tag = etag /\ (~tampered => \A t \in Targets : file[t] # None)
  BY <1>1, Numbers DEF SyncInv, FetchInv
<1>4. HealthyIsCoherent'
  BY <1>1, <1>3, Numbers
     DEF SyncInv, ForwardInv, HealthyIsCoherent, PastInv, TagInv, Within, Covered
<1>5. OwedInv'
  <2> SUFFICES ASSUME tampering = 0, renames # "lost", owed PROVE FALSE
    BY <1>1 DEF OwedInv, Installing, ForwardInv
  <2>1. PICK t \in Targets : etag < file[t]
    BY DEF ForwardInv, OwedInv
  <2>2. file[t] <= served
    BY DEF ForwardInv, PastInv, Within
  <2> QED
    BY <1>1, <1>3, <2>1, <2>2, Numbers DEF SyncInv
<1> QED
  BY <1>2, <1>4, <1>5 DEF ForwardInv

\* The tag that is sent is the stored one unless somebody touched a target.
LEMMA BeginForward == ASSUME SyncInv, ForwardInv, Begin PROVE ForwardInv'
<1>1. /\ pc' = "fetch" /\ tag' = currentETag
      /\ UNCHANGED <<served, file, durable, etag, renames, tampering, owed>>
  BY DEF Begin
<1>2. PastInv' /\ TagInv'
  BY <1>1, QuietStep DEF SyncInv, ForwardInv, Installing
<1>3. ASSUME tampering = 0, renames # "lost" PROVE tag' = etag
  <2>1. \A t \in Targets : modeOK[t] /\ etag <= file[t]
    BY <1>3 DEF SyncInv, TamperInv, ForwardInv, TagInv, Covered
  <2>2. CASE \A t \in Targets : file[t] # None
    BY <1>1, <2>1, <2>2 DEF currentETag
  <2>3. CASE \E t \in Targets : file[t] = None
    <3>1. etag = None
      BY <2>1, <2>3, Numbers DEF SyncInv
    <3> QED
      BY <1>1, <2>3, <3>1 DEF currentETag
  <2> QED
    BY <2>2, <2>3
<1>4. OwedInv' /\ HealthyIsCoherent'
  BY <1>1, <1>3 DEF ForwardInv, OwedInv, HealthyIsCoherent, Installing
<1> QED
  BY <1>2, <1>4 DEF ForwardInv

\* What is fetched is at least as new as everything there is.
LEMMA FetchedForward == ASSUME SyncInv, ForwardInv, Fetched PROVE ForwardInv'
<1>1. /\ pc' = "stage" /\ pc = "fetch" /\ result' = served /\ tag # served
      /\ UNCHANGED <<served, file, durable, etag, renames, tampering, owed>>
  BY DEF Fetched
<1>2. PastInv'
  BY <1>1, Numbers DEF SyncInv, ForwardInv, PastInv, Within
<1>3. TagInv'
  BY <1>1 DEF ForwardInv, TagInv, Covered
<1>4. OwedInv'
  BY <1>1, Numbers DEF SyncInv, ForwardInv, OwedInv, PastInv
<1>5. HealthyIsCoherent'
  BY <1>1 DEF HealthyIsCoherent
<1> QED
  BY <1>2, <1>3, <1>4, <1>5 DEF ForwardInv

\* The steps of an installation that leave targets and tag alone.
LEMMA OnwardForward ==
    ASSUME SyncInv, ForwardInv, Stage \/ Stamp \/ Command PROVE ForwardInv'
<1>1. /\ Installing /\ Installing' /\ result' = result
      /\ UNCHANGED <<served, file, durable, etag, renames, tampering>>
      /\ pc' \in {"stamp", "command", "commit"} => pc \in {"stamp", "command", "commit"}
      /\ owed' => owed
  BY LoopStep DEF SyncInv, Steps, Stage, Stamp, AfterStamp, Command, Installing
<1>2. PastInv' /\ TagInv'
  BY <1>1, QuietStep DEF SyncInv, ForwardInv
<1>3. OwedInv' /\ HealthyIsCoherent'
  BY <1>1 DEF ForwardInv, OwedInv, HealthyIsCoherent, Installing
<1> QED
  BY <1>2, <1>3 DEF ForwardInv

\* A rename replaces a target by a content that is not older.
LEMMA RenameForward == ASSUME SyncInv, ForwardInv, Rename PROVE ForwardInv'
<1>1. /\ Installing /\ pc' \in {"rename", "flush"} /\ n + 1 \in Targets
      /\ file' = [file EXCEPT ![n + 1] = result]
      /\ UNCHANGED <<served, durable, etag, renames, tampering, result>>
  BY RenameStep DEF Rename, Installing
<1>2. \A t \in Targets : file'[t] = IF t = n + 1 THEN result ELSE file[t]
  BY <1>1 DEF SyncInv, TypeOK, Files
<1>3. PastInv'
  BY <1>1, <1>2, Numbers DEF SyncInv, ForwardInv, PastInv, Within
<1>4. TagInv'
  BY <1>1, <1>2, Numbers DEF SyncInv, ForwardInv, TagInv, PastInv, Covered
<1>5. OwedInv'
  BY <1>1, <1>2 DEF ForwardInv, OwedInv
<1>6. HealthyIsCoherent'
  BY <1>1 DEF HealthyIsCoherent
<1> QED
  BY <1>3, <1>4, <1>5, <1>6 DEF ForwardInv

\* From the flush on, every target is from what was fetched or touched by others.
LEMMA RenamedCovered ==
    ASSUME SyncInv, pc \in {"flush", "stamp", "command", "commit"}
    PROVE  Covered(result, file)
<1>1. \A t \in Targets :
        file[t] \in {result, None, Foreign} /\ (tampering = 0 => file[t] = result)
  BY DEF SyncInv, InstallInv, Renamed, TamperInv
<1> QED
  BY <1>1, Numbers DEF Covered, SyncInv

\* The flush.
LEMMA FlushForward == ASSUME SyncInv, ForwardInv, Flush \/ FlushFails PROVE ForwardInv'
<1>1. /\ pc = "flush" /\ pc' = "stamp"
      /\ UNCHANGED <<served, file, etag, tampering, result, owed>>
  BY DEF Flush, FlushFails
<1>2. \/ /\ durable'.file = file /\ durable'.etag = durable.etag
         /\ renames' # "lost" <=> renames # "lost"
      \/ durable' = durable /\ renames' # "safe" /\ (renames' # "lost" <=> renames # "lost")
  BY DEF Flush, FlushFails, Flushed
<1>3. PastInv'
  BY <1>1, <1>2 DEF ForwardInv, PastInv, Within, Installing
<1>4. Covered(result, file)
  BY <1>1, RenamedCovered
<1>5. TagInv'
  BY <1>1, <1>2, <1>4 DEF ForwardInv, TagInv, Covered
<1>6. OwedInv' /\ HealthyIsCoherent'
  BY <1>1, <1>2 DEF ForwardInv, OwedInv, HealthyIsCoherent, Installing
<1> QED
  BY <1>3, <1>5, <1>6 DEF ForwardInv

\* The commit: the tag becomes that of the targets.
LEMMA CommitForward == ASSUME SyncInv, ForwardInv, Commit PROVE ForwardInv'
<1>1. /\ pc = "commit" /\ pc' = "idle" /\ etag' = result
      /\ UNCHANGED <<served, file, durable, renames, tampering, tampered, owed>>
  BY DEF Commit, Finish
<1>2. PastInv'
  BY <1>1, Numbers DEF SyncInv, ForwardInv, PastInv, Within, Installing
<1>3. TagInv'
  BY <1>1, RenamedCovered DEF ForwardInv, TagInv, Covered
<1>4. ~owed
  BY <1>1 DEF SyncInv, ReloadInv
<1>5. OwedInv'
  BY <1>1, <1>4 DEF OwedInv, Installing
<1>6. HealthyIsCoherent'
  BY <1>1 DEF SyncInv, InstallInv, Renamed, HealthyIsCoherent
<1> QED
  BY <1>2, <1>3, <1>5, <1>6 DEF ForwardInv

\* A power loss: what is found is covered by the tag that is found.
LEMMA PowerLossForward == ASSUME SyncInv, ForwardInv, PowerLoss PROVE ForwardInv'
<1>1. /\ pc' = "down" /\ ~owed'
      /\ durable' \in WrittenBack /\ file' = durable'.file /\ etag' = durable'.etag
      /\ renames' = IF renames = "open"
                    THEN IF file' = file THEN "safe" ELSE "lost"
                    ELSE renames
      /\ UNCHANGED <<served, tampering>>
  BY DieEnds DEF PowerLoss, SyncInv
<1>2. \A t \in Targets : file'[t] \in {file[t], durable.file[t]}
  BY <1>1, WrittenBackType DEF SyncInv
<1>3. etag' \in {etag, durable.etag}
  BY <1>1, WrittenBackType DEF SyncInv
<1>4. PastInv'
  BY <1>1, <1>2, <1>3, Numbers DEF SyncInv, ForwardInv, PastInv, Within, Installing
<1>5. TagInv'
  <2>1. CASE renames = "safe"
    BY <1>1, <1>2, <1>3, <2>1, Numbers DEF SyncInv, ForwardInv, TagInv, PastInv, Covered
  <2>2. CASE renames = "open" /\ file' = file
    BY <1>1, <1>3, <2>2, Numbers DEF SyncInv, ForwardInv, TagInv, PastInv, Covered
  <2>3. CASE renames' = "lost"
    BY <2>3 DEF TagInv
  <2> QED
    BY <1>1, <2>1, <2>2, <2>3 DEF SyncInv, TypeOK
<1>6. OwedInv' /\ HealthyIsCoherent'
  BY <1>1 DEF OwedInv, HealthyIsCoherent, Installing
<1> QED
  BY <1>4, <1>5, <1>6 DEF ForwardInv

\* The file system writes back.
LEMMA WritebackForward == ASSUME SyncInv, ForwardInv, Writeback PROVE ForwardInv'
<1>1. /\ durable' \in WrittenBack
      /\ renames' = IF renames = "open" /\ durable'.file = file THEN "safe" ELSE renames
      /\ UNCHANGED <<served, file, etag, pc, tag, result, healthy, tampering, tampered, owed>>
  BY DEF Writeback
<1>2. \A t \in Targets : durable'.file[t] \in {file[t], durable.file[t]}
  BY <1>1, WrittenBackType DEF SyncInv
<1>3. durable'.etag \in {etag, durable.etag}
  BY <1>1, WrittenBackType DEF SyncInv
<1>4. PastInv'
  BY <1>1, <1>2, <1>3, Numbers DEF SyncInv, ForwardInv, PastInv, Within, Installing
<1>5. pc \in {"stamp", "command", "commit"} => Covered(result, file)
  BY RenamedCovered
<1>6. TagInv'
  <2>1. CASE renames' = renames
    BY <1>1, <1>2, <1>5, <2>1 DEF ForwardInv, TagInv, Covered
  <2>2. CASE renames = "open" /\ durable'.file = file /\ renames' = "safe"
    BY <1>1, <1>5, <2>2 DEF ForwardInv, TagInv, Covered
  <2> QED
    BY <1>1, <2>1, <2>2
<1>7. OwedInv' /\ HealthyIsCoherent'
  BY <1>1 DEF ForwardInv, OwedInv, HealthyIsCoherent, Installing
<1> QED
  BY <1>4, <1>6, <1>7 DEF ForwardInv

\* Somebody touches a target.
LEMMA TamperForward ==
    ASSUME SyncInv, ForwardInv, NEW t \in Targets, Tamper(t) PROVE ForwardInv'
<1>1. /\ tampering' # 0 /\ tampered'
      /\ UNCHANGED <<served, durable, etag, pc, result, renames>>
  BY Counts, AgentAssumption DEF Tamper, SyncInv, TypeOK
<1>2. \A u \in Targets : file'[u] \in {file[u], None, Foreign}
  BY DEF Tamper, SyncInv, TypeOK, Files
<1>3. PastInv'
  BY <1>1, <1>2, Numbers DEF SyncInv, ForwardInv, PastInv, Within, Installing
<1>4. TagInv'
  BY <1>1, <1>2, Numbers DEF SyncInv, ForwardInv, TagInv, Covered
<1>5. OwedInv' /\ HealthyIsCoherent'
  BY <1>1 DEF OwedInv, HealthyIsCoherent
<1> QED
  BY <1>3, <1>4, <1>5 DEF ForwardInv

\* The gateway serves a newer content.
LEMMA RotateForward ==
    ASSUME ~Rollback, SyncInv, ForwardInv, Rotate PROVE ForwardInv'
<1>1. /\ served' \in Contents /\ served' >= served
      /\ UNCHANGED <<file, durable, etag, pc, tag, result, healthy, tampering, tampered, owed,
                     renames>>
  BY DEF Rotate
<1>2. served' \in Nat
  BY <1>1 DEF Contents
<1>3. PastInv'
  BY <1>1, <1>2, Numbers DEF SyncInv, ForwardInv, PastInv, Within, Installing
<1>4. TagInv' /\ OwedInv' /\ HealthyIsCoherent'
  BY <1>1 DEF ForwardInv, TagInv, Covered, OwedInv, HealthyIsCoherent, Installing
<1> QED
  BY <1>3, <1>4 DEF ForwardInv

\* Initially there is nothing that could be ahead.
LEMMA InitForward == Init => ForwardInv
<1> SUFFICES ASSUME Init PROVE ForwardInv
  OBVIOUS
<1>1. SyncInv
  BY InitSync
<1>2. /\ etag = None /\ pc = "idle" /\ ~healthy /\ ~owed
      /\ durable.etag = None /\ \A t \in Targets : file[t] = None /\ durable.file[t] = None
  BY DEF Init, InitHost, Empty
<1>3. PastInv /\ TagInv
  BY <1>1, <1>2, Numbers DEF SyncInv, PastInv, TagInv, Within, Covered, Installing
<1>4. OwedInv /\ HealthyIsCoherent
  BY <1>2 DEF OwedInv, HealthyIsCoherent, Installing
<1> QED
  BY <1>3, <1>4 DEF ForwardInv

\* Every step keeps ForwardInv.
LEMMA ForwardStep ==
    ASSUME ~Rollback, SyncInv, ForwardInv, [Next]_vars PROVE ForwardInv'
<1>1. CASE MissingKeys \/ Unavailable
  BY <1>1, QuietEnd DEF MissingKeys, Unavailable, Finish
<1>2. CASE BeginFails \/ FetchFails \/ InstallFails \/ StampFails \/ CommandFails \/ CommitFails
  BY <1>2, FailEnds, QuietEnd
     DEF BeginFails, FetchFails, InstallFails, StampFails, CommandFails, CommitFails, SyncInv
<1>3. CASE Crash
  BY <1>3, DieEnds, QuietEnd DEF Crash, SyncInv
<1>4. CASE Restart
  <2>1. /\ pc' = "idle" /\ pc = "down"
        /\ UNCHANGED <<served, file, durable, etag, renames, tampering, owed, healthy>>
    BY <1>4 DEF Restart
  <2>2. ~healthy
    BY <2>1 DEF SyncInv, DownInv
  <2> QED
    BY <2>1, <2>2, QuietEnd DEF SyncInv, TypeOK
<1>5. CASE UNCHANGED vars
  BY <1>5 DEF vars, ForwardInv, PastInv, TagInv, OwedInv, HealthyIsCoherent, Within, Covered,
      Installing
<1> QED
  BY <1>1, <1>2, <1>3, <1>4, <1>5, NotModifiedForward, BeginForward, FetchedForward,
     OnwardForward, RenameForward, FlushForward, CommitForward, PowerLossForward,
     WritebackForward, TamperForward, RotateForward DEF Next, HostNext, Sync, SyncFails
-----------------------------------------------------------------------------
(* What the invariants say of every behaviour.                             *)

\* The invariant that holds behind any gateway.
LEMMA SyncInvariance == Spec => []SyncInv
BY InitSync, SyncStep, PTL DEF Spec

\* The invariant that needs a gateway that does not go back.
LEMMA ForwardInvariance == ASSUME ~Rollback PROVE Spec => []ForwardInv
<1>1. SyncInv /\ ForwardInv /\ [Next]_vars => ForwardInv'
  BY ForwardStep
<1> QED
  BY <1>1, InitForward, SyncInvariance, PTL DEF Spec

\* Every variable stays in its range.
THEOREM TypeCorrect == Spec => []TypeOK
<1>1. SyncInv => TypeOK
  BY DEF SyncInv
<1> QED
  BY <1>1, SyncInvariance, PTL

\* Whatever is served, however often calls fail and the host loses power, no target
\* is ever from a response that lacks the key of one (install comes after the check
\* of the keys).
THEOREM OnlyComplete == Spec => []CompleteOnly
<1>1. SyncInv => CompleteOnly
  BY DEF SyncInv, CompleteInv, CompleteOnly
<1> QED
  BY <1>1, SyncInvariance, PTL

\* The command never makes the consumer load a mixture.
THEOREM ReloadsAreCoherent == Spec => ReloadsCoherent
<1>1. SyncInv =>
        [pc = "command" /\ loaded' # loaded /\ loaded' = file =>
            \A t, u \in Targets :
                {loaded'[t], loaded'[u]} \subseteq Contents => loaded'[t] = loaded'[u]]_vars
  BY AgentAssumption DEF SyncInv, InstallInv, Renamed, Contents, None, Foreign
<1> QED
  BY <1>1, SyncInvariance, PTL DEF ReloadsCoherent

\* A tag is stored only after the stamp and the command for its content.
THEOREM TagCommits == Spec => TagCommitsReload
<1>1. SyncInv /\ [Next]_vars =>
        [etag' # etag /\ pc' # "down" =>
            /\ stamped = etag'
            /\ HasCommand => \A t \in Targets : loaded[t] \in {etag', None, Foreign}]_vars
  <2> SUFFICES ASSUME SyncInv, Next, etag' # etag, pc' # "down"
               PROVE  /\ stamped = etag'
                      /\ HasCommand =>
                           \A t \in Targets : loaded[t] \in {etag', None, Foreign}
    BY DEF vars
  <2>1. Commit
    BY DieEnds DEF Next, HostNext, Sync, SyncFails, Begin, NotModified, Fetched, MissingKeys,
        Unavailable, Stage, Rename, Flush, Stamp, Command, BeginFails, FetchFails, InstallFails,
        FlushFails, StampFails, CommandFails, CommitFails, Crash, PowerLoss, Restart, Writeback,
        Tamper, Rotate, SyncInv
  <2> QED
    BY <2>1 DEF Commit, SyncInv, ReloadInv
<1> QED
  BY <1>1, SyncInvariance, PTL DEF Spec, TagCommitsReload

\* A Sync that ended well leaves every target as the stored tag says.
THEOREM HealthyCoherent == ASSUME ~Rollback PROVE Spec => []HealthyIsCoherent
<1>1. ForwardInv => HealthyIsCoherent
  BY DEF ForwardInv
<1> QED
  BY <1>1, ForwardInvariance, PTL

\* No target is older than the stored tag, as the agent sees the disk and as a power
\* loss would leave it.
THEOREM TagBehindTargets == ASSUME ~Rollback PROVE Spec => []TagNeverAhead
<1>1. SyncInv /\ ForwardInv => TagNeverAhead
  BY Numbers DEF SyncInv, ForwardInv, PastInv, TagInv, Covered, TagNeverAhead
<1> QED
  BY <1>1, SyncInvariance, ForwardInvariance, PTL

\* A command that failed is run again before a Sync ends well.
THEOREM ReloadIsRetried == ASSUME ~Rollback PROVE Spec => []ReloadRetried
<1>1. ForwardInv => ReloadRetried
  BY DEF ForwardInv, OwedInv, ReloadRetried, ReloadNotForgotten
<1> QED
  BY <1>1, ForwardInvariance, PTL

\* A rename never replaces a target by an older content.
TargetsForward ==
    [][pc' # "down" /\ tampering' = 0 => \A t \in Targets : file'[t] >= file[t]]_vars

\* While contents only move forward and nobody touches the targets, so do the
\* targets, but for a power loss.
THEOREM TargetsMoveForward == ASSUME ~Rollback PROVE Spec => TargetsForward
<1>1. SyncInv /\ ForwardInv /\ [Next]_vars =>
        [pc' # "down" /\ tampering' = 0 => \A t \in Targets : file'[t] >= file[t]]_vars
  <2> SUFFICES ASSUME SyncInv, ForwardInv, Next, pc' # "down", tampering' = 0,
                      NEW t \in Targets
               PROVE  file'[t] >= file[t]
    BY DEF vars
  <2>1. file' = file \/ Rename
    BY DieEnds, Counts, AgentAssumption
       DEF Next, HostNext, Sync, SyncFails, Begin, NotModified, Fetched, MissingKeys,
        Unavailable, Stage, Flush, Stamp, Command, Commit, BeginFails, FetchFails, InstallFails,
        FlushFails, StampFails, CommandFails, CommitFails, Crash, PowerLoss, Restart, Writeback,
        Tamper, Rotate, SyncInv, TypeOK
  <2>2. CASE file' = file
    BY <2>2, Numbers DEF SyncInv
  <2>3. CASE Rename
    <3>1. /\ file' = [file EXCEPT ![n + 1] = result] /\ tampering = 0 /\ Installing
      BY <2>3, RenameStep DEF Rename, Installing
    <3>2. file[t] <= result
      BY <3>1 DEF ForwardInv, PastInv, Within
    <3>3. file'[t] = result \/ file'[t] = file[t]
      BY <3>1 DEF SyncInv, TypeOK, Files
    <3> QED
      BY <3>2, <3>3, Numbers DEF SyncInv
  <2> QED
    BY <2>1, <2>2, <2>3
<1> QED
  BY <1>1, SyncInvariance, ForwardInvariance, PTL DEF Spec, TargetsForward
=============================================================================
