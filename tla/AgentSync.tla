------------------------------ MODULE AgentSync ------------------------------
(***************************************************************************)
(* fetch.Runner of the agent (agent/internal/fetch): how one exposure is   *)
(* polled and its targets are installed.  Exposures share nothing (their   *)
(* target paths, ETag and stamp files are distinct), so one is enough.     *)
(*                                                                         *)
(* A content is one <<Secret UID, values>> of the exposure; the gateway's  *)
(* ETag is a keyed digest of exactly that, so a content also stands for    *)
(* its ETag.  The disk is modelled twice: as processes see it, and as it   *)
(* would be found after a power loss.                                      *)
(***************************************************************************)
EXTENDS Naturals, FiniteSets

CONSTANTS
    NumTargets,     \* targets of the exposure, installed in this order
    MaxContent,     \* bound: contents the gateway serves over time
    Incomplete,     \* the contents that lack the key of some target
    Rollback,       \* may the gateway serve an earlier content again?
    HasCommand,     \* is an onChangeCommand configured?
    MaxFailures,    \* bound: failing calls of one Sync step
    MaxCrashes,     \* bound: crashes and power losses
    MaxTampering    \* bound: targets touched by someone else

ASSUME AgentAssumption ==
    /\ NumTargets \in Nat \ {0} /\ MaxContent \in Nat \ {0}
    /\ Incomplete \subseteq 1..MaxContent
    /\ Rollback \in BOOLEAN /\ HasCommand \in BOOLEAN
    /\ MaxFailures \in Nat /\ MaxCrashes \in Nat /\ MaxTampering \in Nat

Targets  == 1..NumTargets
Contents == 1..MaxContent
None     == 0               \* no file, no tag, nothing loaded
Foreign  == MaxContent + 1  \* a file that someone else wrote
Tags     == Contents \cup {None}
Files    == [Targets -> Tags \cup {Foreign}]
Empty    == [t \in Targets |-> None]

VARIABLES
    served,         \* gateway: the content the exposure has now
    available,      \* gateway: it answers with that content, not with an error
    file,           \* disk: the content each target was written from
    modeOK,         \* disk: the target has the configured mode
    temp,           \* disk: the temporary files of this attempt
    stamped,        \* disk: content of the last touch of the stamp file
    etag,           \* disk: the stored ETag
    durable,        \* disk after a power loss: [file, modeOK, etag]
    pc,             \* where Sync is, see Steps
    tag,            \* Sync: etag, the tag sent with the request
    result,         \* Sync: result, the content that was fetched
    n,              \* Sync: targets staged, then renamed, so far
    healthy,        \* the agent's healthy gauge
    loaded,         \* consumer: the files as of its last reload or boot
    tampered,       \* history: a target was touched since the tag was read
    owed,           \* history: targets were installed and not yet reloaded
    renames,        \* history: "safe" on disk, "open" after a flush that failed,
                    \* "lost" once a power loss undid some of those
    failures, crashes, tampering

gatewayVars == <<served, available>>
diskVars  == <<file, modeOK, temp, stamped, etag, durable>>
syncVars  == <<pc, tag, result, n, healthy>>
limitVars == <<failures, crashes, tampering>>
historyVars == <<tampered, owed, renames>>
vars == <<gatewayVars, diskVars, syncVars, loaded, historyVars, limitVars>>

\* "down": no process; "idle": between polls; then the steps of one Sync.
Steps == {"down", "idle", "fetch", "stage", "rename", "flush", "stamp", "command",
          "commit"}

\* A host the agent was never run on.
InitHost ==
    /\ file = Empty
    /\ modeOK = [t \in Targets |-> TRUE]
    /\ temp = Empty
    /\ stamped = None
    /\ etag = None
    /\ durable = [file |-> file, modeOK |-> modeOK, etag |-> etag]
    /\ pc = "idle"
    /\ tag = None
    /\ result = None
    /\ n = 0
    /\ healthy = FALSE
    /\ loaded = Empty
    /\ tampered = FALSE /\ owed = FALSE /\ renames = "safe"
    /\ failures = 0 /\ crashes = 0 /\ tampering = 0

Init ==
    /\ served \in Contents
    /\ Rollback \/ served = 1
    /\ available \in BOOLEAN
    /\ InitHost

-----------------------------------------------------------------------------
(* The environment.                                                        *)

\* The exposure's content changes: to a new one, or back to an earlier one when
\* the same Secret object gets its former values again or another replica of the
\* gateway answers.  The exposure becomes available or unavailable: its Secret is
\* deleted, its credentials are wrong, the gateway is not ready.
Rotate ==
    /\ served' \in Contents
    /\ Rollback \/ served' >= served
    /\ available' \in BOOLEAN
    /\ gatewayVars' # gatewayVars
    /\ UNCHANGED <<diskVars, syncVars, loaded, historyVars, limitVars>>

\* Someone deletes a target, changes its mode or overwrites it in place.  The last
\* also stands for a configuration whose target names a file that exists already.
Tamper(t) ==
    /\ tampering < MaxTampering
    /\ file[t] # None
    /\ \/ file' = [file EXCEPT ![t] = None] /\ UNCHANGED modeOK
       \/ file' = [file EXCEPT ![t] = Foreign] /\ UNCHANGED modeOK
       \/ modeOK' = [modeOK EXCEPT ![t] = FALSE] /\ UNCHANGED file
    /\ tampered' = TRUE
    /\ tampering' = tampering + 1
    /\ UNCHANGED <<gatewayVars, temp, stamped, etag, durable, syncVars, loaded, owed,
                   renames, failures, crashes>>

\* What may be on the disk for good: of everything not flushed yet, any part.
WrittenBack ==
    {[file   |-> [t \in Targets |-> IF t \in S THEN file[t] ELSE durable.file[t]],
      modeOK |-> [t \in Targets |-> IF t \in S THEN modeOK[t] ELSE durable.modeOK[t]],
      etag   |-> e] : S \in SUBSET Targets, e \in {etag, durable.etag}}

\* The file system writes back some of what it holds.
Writeback ==
    /\ durable' \in WrittenBack \ {durable}
    /\ renames' = IF renames = "open" /\ durable'.file = file THEN "safe" ELSE renames
    /\ UNCHANGED <<gatewayVars, file, modeOK, temp, stamped, etag, syncVars, loaded,
                   tampered, owed, limitVars>>

\* The agent dies.  Its memory is gone; its temporary files stay behind, under
\* names no later attempt uses.
Die ==
    /\ pc # "down"
    /\ crashes < MaxCrashes
    /\ crashes' = crashes + 1
    /\ pc' = "down"
    /\ tag' = None /\ result' = None /\ n' = 0
    /\ healthy' = FALSE
    /\ temp' = Empty

\* The process dies alone; a command it had started may still finish.
Crash ==
    /\ Die
    /\ loaded' \in IF pc = "command" THEN {loaded, file} ELSE {loaded}
    /\ UNCHANGED <<gatewayVars, file, modeOK, stamped, etag, durable, historyVars, failures,
                   tampering>>

\* A power loss: of what was not written back, any part may be gone.  The consumer
\* comes back with the files it finds.
PowerLoss ==
    /\ Die
    /\ durable' \in WrittenBack
    /\ file' = durable'.file /\ modeOK' = durable'.modeOK /\ etag' = durable'.etag
    /\ renames' = IF renames = "open"
                  THEN IF file' = file THEN "safe" ELSE "lost"
                  ELSE renames
    /\ loaded' = file' /\ owed' = FALSE
    /\ UNCHANGED <<gatewayVars, stamped, tampered, failures, tampering>>

Restart ==
    /\ pc = "down"
    /\ pc' = "idle"
    /\ UNCHANGED <<gatewayVars, diskVars, tag, result, n, healthy, loaded, historyVars,
                   limitVars>>
-----------------------------------------------------------------------------
(* Sync.                                                                   *)

\* Sync returns: ObserveSync records whether it failed.
Finish(ok) ==
    /\ pc' = "idle"
    /\ tag' = None /\ result' = None /\ n' = 0
    /\ healthy' = ok

\* A call of Sync fails and Sync returns the error.
Fail ==
    /\ failures < MaxFailures
    /\ failures' = failures + 1
    /\ Finish(FALSE)

\* Mutant of currentETag: the tag is sent whatever became of the targets.
currentETagBlind == etag

\* Mutant of currentETag: the modes of the targets are not looked at.
currentETagIfPresent == IF \A t \in Targets : file[t] # None THEN etag ELSE None

\* The stored tag is trusted only while every target is there with its mode.
currentETag ==
    IF \A t \in Targets : file[t] # None /\ modeOK[t] THEN etag ELSE None

\* Mutant of Begin: polling ends with the first failure.
BeginUntilFailure ==
    /\ pc = "idle" /\ failures = 0
    /\ tag' = currentETag
    /\ tampered' = FALSE
    /\ pc' = "fetch"
    /\ UNCHANGED <<gatewayVars, diskVars, result, n, healthy, loaded, owed, renames,
                   limitVars>>

\* Auth.Resolve and currentETag succeed.
Begin ==
    /\ pc = "idle"
    /\ tag' = currentETag
    /\ tampered' = FALSE
    /\ pc' = "fetch"
    /\ UNCHANGED <<gatewayVars, diskVars, result, n, healthy, loaded, owed, renames,
                   limitVars>>

\* The password file, a target's status or the tag cannot be read.
BeginFails ==
    /\ pc = "idle"
    /\ Fail
    /\ UNCHANGED <<gatewayVars, diskVars, loaded, historyVars, crashes, tampering>>

\* 304: the gateway's content has the tag that was sent.
NotModified ==
    /\ pc = "fetch" /\ available
    /\ tag = served
    /\ Finish(TRUE)
    /\ UNCHANGED <<gatewayVars, diskVars, loaded, historyVars, limitVars>>

\* Mutant of Complete: missing keys are not looked for.
CompleteUnchecked(c) == c \in Contents

\* The response has the key of every target.
Complete(c) == c \notin Incomplete

\* 200 with every key a target needs.
Fetched ==
    /\ pc = "fetch" /\ available
    /\ tag # served
    /\ Complete(served)
    /\ result' = served
    /\ pc' = "stage"
    /\ n' = 0
    /\ UNCHANGED <<gatewayVars, diskVars, tag, healthy, loaded, historyVars, limitVars>>

\* 200 without the key of some target: nothing is touched.
MissingKeys ==
    /\ pc = "fetch" /\ available
    /\ tag # served
    /\ ~Complete(served)
    /\ Finish(FALSE)
    /\ UNCHANGED <<gatewayVars, diskVars, loaded, historyVars, limitVars>>

\* 401, 404 or 503: nothing is touched.
Unavailable ==
    /\ pc = "fetch" /\ ~available
    /\ Finish(FALSE)
    /\ UNCHANGED <<gatewayVars, diskVars, loaded, historyVars, limitVars>>

\* The request fails, or its answer is not one of the above.
FetchFails ==
    /\ pc = "fetch"
    /\ Fail
    /\ UNCHANGED <<gatewayVars, diskVars, loaded, historyVars, crashes, tampering>>

\* Mutant of NextTarget: the index runs on into the next loop.
NextTargetRunsOn(next) ==
    /\ pc' = IF n + 1 = NumTargets THEN next ELSE pc
    /\ n' = n + 1

\* A loop over the targets goes on to the next one, or is done.
NextTarget(next) ==
    IF n + 1 = NumTargets
    THEN pc' = next /\ n' = 0
    ELSE n' = n + 1 /\ UNCHANGED pc

\* install, first loop: the next target is written to a temporary file and flushed.
Stage ==
    /\ pc = "stage"
    /\ temp' = [temp EXCEPT ![n + 1] = result]
    /\ NextTarget("rename")
    /\ UNCHANGED <<gatewayVars, file, modeOK, stamped, etag, durable, tag, result, healthy,
                   loaded, historyVars, limitVars>>

\* install, second loop: the next temporary file is renamed over its target.
Rename ==
    /\ pc = "rename"
    /\ file' = [file EXCEPT ![n + 1] = temp[n + 1]]
    /\ modeOK' = [modeOK EXCEPT ![n + 1] = TRUE]
    /\ temp' = [temp EXCEPT ![n + 1] = None]
    /\ owed' = HasCommand
    /\ NextTarget("flush")
    /\ UNCHANGED <<gatewayVars, stamped, etag, durable, tag, result, healthy, loaded,
                   tampered, renames, limitVars>>

\* Mutant of Flushed: the directories are not flushed.
FlushedNothing == durable

\* The disk once the directories of the targets are flushed.
Flushed == [file |-> file, modeOK |-> modeOK, etag |-> durable.etag]

\* install, end: the directories of the targets are flushed.
Flush ==
    /\ pc = "flush"
    /\ durable' = Flushed
    /\ renames' = IF renames = "open" THEN "safe" ELSE renames
    /\ pc' = "stamp"
    /\ UNCHANGED <<gatewayVars, file, modeOK, temp, stamped, etag, tag, result, n, healthy,
                   loaded, tampered, owed, limitVars>>

\* A directory cannot be opened or flushed, which install passes over.
FlushFails ==
    /\ pc = "flush"
    /\ failures < MaxFailures
    /\ failures' = failures + 1
    /\ renames' = IF renames = "safe" THEN "open" ELSE renames
    /\ pc' = "stamp"
    /\ UNCHANGED <<gatewayVars, diskVars, tag, result, n, healthy, loaded, tampered, owed,
                   crashes, tampering>>

\* Mutant of InstallFails: a rename that fails is passed over.
InstallFailsSilently ==
    /\ pc = "rename"
    /\ failures < MaxFailures
    /\ failures' = failures + 1
    /\ temp' = [temp EXCEPT ![n + 1] = None]
    /\ NextTarget("flush")
    /\ UNCHANGED <<gatewayVars, file, modeOK, stamped, etag, durable, tag, result, healthy,
                   loaded, historyVars, crashes, tampering>>

\* A file cannot be staged or renamed: the temporary files left are removed.
InstallFails ==
    /\ pc \in {"stage", "rename"}
    /\ Fail
    /\ temp' = Empty
    /\ UNCHANGED <<gatewayVars, file, modeOK, stamped, etag, durable, loaded, historyVars,
                   crashes, tampering>>

\* Mutant of AfterStamp: the command is skipped.
AfterStampCommit == "commit"

\* The command, when one is configured, runs before the tag is stored.
AfterStamp == IF HasCommand THEN "command" ELSE "commit"

\* touchStamp.
Stamp ==
    /\ pc = "stamp"
    /\ stamped' = result
    /\ pc' = AfterStamp
    /\ UNCHANGED <<gatewayVars, file, modeOK, temp, etag, durable, tag, result, n, healthy,
                   loaded, historyVars, limitVars>>

StampFails ==
    /\ pc = "stamp"
    /\ Fail
    /\ UNCHANGED <<gatewayVars, diskVars, loaded, historyVars, crashes, tampering>>

\* runCommand: the consumer reloads the files.
Command ==
    /\ pc = "command"
    /\ loaded' = file
    /\ owed' = FALSE
    /\ pc' = "commit"
    /\ UNCHANGED <<gatewayVars, diskVars, tag, result, n, healthy, tampered, renames,
                   limitVars>>

\* Mutant of CommandFails: the error is only logged and the tag stored.
CommandFailsQuietly ==
    /\ pc = "command"
    /\ failures < MaxFailures
    /\ failures' = failures + 1
    /\ loaded' \in {loaded, file}
    /\ pc' = "commit"
    /\ UNCHANGED <<gatewayVars, diskVars, tag, result, n, healthy, historyVars, crashes,
                   tampering>>

\* The command fails or is killed, before or after the reload.
CommandFails ==
    /\ pc = "command"
    /\ Fail
    /\ loaded' \in {loaded, file}
    /\ UNCHANGED <<gatewayVars, diskVars, historyVars, crashes, tampering>>

\* writeFile of the ETag, which commits the sync.
Commit ==
    /\ pc = "commit"
    /\ etag' = result
    /\ Finish(TRUE)
    /\ UNCHANGED <<gatewayVars, file, modeOK, temp, stamped, durable, loaded, historyVars,
                   limitVars>>

CommitFails ==
    /\ pc = "commit"
    /\ Fail
    /\ UNCHANGED <<gatewayVars, diskVars, loaded, historyVars, crashes, tampering>>
-----------------------------------------------------------------------------
Sync ==
    \/ Begin \/ NotModified \/ Fetched \/ MissingKeys \/ Unavailable \/ Stage \/ Rename
    \/ Flush \/ Stamp \/ Command \/ Commit

SyncFails ==
    \/ BeginFails \/ FetchFails \/ InstallFails \/ FlushFails \/ StampFails
    \/ CommandFails \/ CommitFails

\* Everything that happens on the host, the gateway left as it is.
HostNext ==
    \/ Sync \/ SyncFails
    \/ Crash \/ PowerLoss \/ Restart
    \/ Writeback
    \/ \E t \in Targets : Tamper(t)

Next == HostNext \/ Rotate

Spec == Init /\ [][Next]_vars

(***************************************************************************)
(* Fairness: every interval starts a Sync, every call of it is bounded (by *)
(* the client's and the command's timeout), and the service manager        *)
(* restarts an agent that died.                                            *)
(***************************************************************************)
FairSpec == Spec /\ WF_vars(Sync) /\ WF_vars(Restart)
-----------------------------------------------------------------------------
(* Properties.                                                             *)

\* Every variable stays in its range.
TypeOK ==
    /\ served \in Contents
    /\ available \in BOOLEAN
    /\ file \in Files
    /\ modeOK \in [Targets -> BOOLEAN]
    /\ temp \in [Targets -> Tags]
    /\ stamped \in Tags
    /\ etag \in Tags
    /\ durable \in [file : Files, modeOK : [Targets -> BOOLEAN], etag : Tags]
    /\ pc \in Steps
    /\ tag \in Tags
    /\ result \in Tags
    /\ n \in 0..(NumTargets - 1)
    /\ healthy \in BOOLEAN
    /\ loaded \in Files
    /\ tampered \in BOOLEAN /\ owed \in BOOLEAN
    /\ renames \in {"safe", "open", "lost"}
    /\ failures \in 0..MaxFailures
    /\ crashes \in 0..MaxCrashes
    /\ tampering \in 0..MaxTampering

\* "If a crash occurs between renames, the ETag has not yet been committed. The
\* next run fetches the complete exposure and repairs every target"
\* (agent/README.md): when a Sync ended well, every target is from the content of
\* the stored tag.  The exceptions: someone touched a target meanwhile, overwrote
\* it in place, or a flush failed (which install ignores) before a power loss.
HealthyIsCoherent ==
    pc = "idle" /\ healthy /\ ~tampered /\ renames # "lost"
        => \A t \in Targets : file[t] \in {etag, Foreign}

\* The tag is stored last and after the flush: while contents only move forward and
\* nobody touches the targets, no target is older than the stored tag, neither as
\* the agent sees the disk nor as a power loss would leave it.
TagNeverAhead ==
    tampering = 0 =>
        /\ renames # "lost" => \A t \in Targets : etag <= file[t]
        /\ renames = "safe" => \A t \in Targets : durable.etag <= durable.file[t]

\* onChangeCommand never makes the consumer load a mixture: the targets it finds
\* are from one content, whatever crashed, failed or rotated before.  (What it finds
\* when it boots after a power loss may be one.)
ReloadsCoherent ==
    [][pc = "command" /\ loaded' # loaded /\ loaded' = file =>
        \A t, u \in Targets :
            {loaded'[t], loaded'[u]} \subseteq Contents => loaded'[t] = loaded'[u]]_vars

\* "Keeping the old tag when the command fails makes the next poll fetch and retry
\* instead of accepting a 304 and silently leaving the consumer stale" (fetch.go):
\* no Sync ends well while installed targets still wait for their reload.
ReloadNotForgotten == pc = "idle" /\ healthy => ~owed

\* The same while every target stays as it was installed.
ReloadRetried == tampering = 0 /\ renames # "lost" => ReloadNotForgotten

\* Nothing is ever installed from a response that lacks a target's key.
CompleteOnly == \A t \in Targets : file[t] \notin Incomplete

\* The tag is stored last: it is never that of a content the consumer was not told
\* about, by the stamp and by the command.
TagCommitsReload ==
    [][etag' # etag /\ pc' # "down" =>
            /\ stamped = etag'
            /\ HasCommand => \A t \in Targets : loaded[t] \in {etag', None, Foreign}]_vars

\* Once the gateway's content and its availability, the failures, crashes and
\* tampering settle, that content is installed, its tag stored and the consumer
\* reloaded for good.
Installed ==
    /\ healthy /\ etag = served
    /\ \A t \in Targets :
        /\ file[t] \in {served, Foreign} /\ modeOK[t]
        /\ HasCommand /\ tampering = 0 => loaded[t] = served
EventuallyInstalled ==
    <>[]available => <>[](served \in Incomplete \/ renames = "lost" \/ Installed)
=============================================================================
