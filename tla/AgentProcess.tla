----------------------------- MODULE AgentProcess -----------------------------
(***************************************************************************)
(* The agent process: run of agent/cmd/kube-secret-gateway-agent/main.go,  *)
(* the configuration it accepts (agent/internal/config) and Runner.Once    *)
(* and Runner.Serve (agent/internal/fetch), which drive one Sync per       *)
(* exposure.  AgentSync is what happens inside a Sync; here it runs its    *)
(* command or not, and ends well or with an error.  CombinedOutput returns *)
(* when the command has exited and nobody has its output open any more: a  *)
(* process that the command started may, and neither -command-timeout nor  *)
(* a signal reaches that one.                                              *)
(*                                                                         *)
(* A path is what filepath.Clean makes of it and how it is written.        *)
(* Cleaning is lexical: two paths through a directory that is a symbolic   *)
(* link stay two paths, also if they lead to one file.                     *)
(***************************************************************************)
EXTENDS Naturals, Sequences

CONSTANTS
    Names,          \* names that a document may use
    Paths,          \* clean paths that targets may have
    Documents,      \* configuration files, see Document
    Selections,     \* values of -exposure: the names between the commas
    MaxChildren     \* bound: commands that start a process of their own

BadName  == "-"                 \* not a valid exposure name
Blank    == ""
\* "unclean": with "." or doubled separators; "relative" and "directory" are refused.
PathText == [path : Paths, form : {"clean", "unclean", "relative", "directory"}]
\* valid: everything else of it that resolve looks at is in order.
Exposure == [name : Names \cup {BadName, Blank}, targets : Seq(PathText), valid : BOOLEAN]
Document == [exposures : Seq(Exposure), valid : BOOLEAN]

ASSUME AgentProcessAssumption ==
    /\ {BadName, Blank} \cap Names = {}
    /\ Documents \subseteq Document
    /\ Selections \subseteq Seq(Names \cup {BadName, Blank})
    /\ MaxChildren \in Nat

VARIABLES
    doc,            \* the configuration file
    only,           \* -exposure; empty when the flag is not given
    mode,           \* "check", "once" or "serve"
    stage,          \* where run is, see Stages
    exposures,      \* cfg.Exposures, by position in the document or in -exposure
    sync,           \* per exposure: "new", "running", "command" (in CombinedOutput),
                    \* "asleep" (in its select), "ended"
    last,           \* per exposure: the result of its last Sync: "none", "ok", "failed"
    holders,        \* per exposure: who has the output of its command open
    ctxDone,        \* ctx is over: by a signal, or by stop
    caught,         \* signals are caught: after NotifyContext and until stop
    listener,       \* the metrics listener: "none", "serving", "failed", "closed"
    exitCode,       \* the exit code, or Killed
    children        \* processes started by commands so far

startVars == <<doc, only, mode>>
loopVars  == <<sync, last, holders, children>>
vars == <<startVars, stage, exposures, loopVars, ctxDone, caught, listener, exitCode>>

\* "drain": stop was called and runnerDone is awaited; "shutdown": in Shutdown of the
\* metrics server.
Stages == {"load", "once", "serve", "drain", "shutdown", "exited"}
Killed == 128

Loops == DOMAIN exposures

Init ==
    /\ doc \in Documents /\ only \in Selections /\ mode \in {"check", "once", "serve"}
    /\ stage = "load"
    /\ exposures = <<>>
    /\ sync = <<>> /\ last = <<>> /\ holders = <<>> /\ children = 0
    /\ ctxDone = FALSE /\ caught = FALSE
    /\ listener = "none"
    /\ exitCode = 0
-----------------------------------------------------------------------------
(* The configuration.                                                      *)

\* Mutant of PathKey: paths are compared as they are written.
PathKeyRaw(t) == t

\* filepath.Clean, under which seenPath remembers a path: how it was written is gone.
PathKey(t) == t.path

\* The targets of an exposure of the document.
Targets(k) == doc.exposures[k].targets

\* resolve finds no problem.
resolve ==
    /\ doc.valid
    /\ doc.exposures # <<>>
    /\ \A k \in DOMAIN doc.exposures :
        /\ doc.exposures[k].valid
        /\ doc.exposures[k].name \in Names
        /\ Targets(k) # <<>>
        /\ \A s \in DOMAIN Targets(k) : Targets(k)[s].form \in {"clean", "unclean"}
    /\ \A k, m \in DOMAIN doc.exposures :
        doc.exposures[k].name = doc.exposures[m].name => k = m
    /\ \A k, m \in DOMAIN doc.exposures :
        \A s \in DOMAIN Targets(k), t \in DOMAIN Targets(m) :
            PathKey(Targets(k)[s]) = PathKey(Targets(m)[t]) => k = m /\ s = t

Named(name) == {k \in DOMAIN doc.exposures : doc.exposures[k].name = name}
Chosen(name) == doc.exposures[CHOOSE k \in Named(name) : TRUE]

\* What -exposure asks for: the places in it where a name stands for the first time.
Wanted ==
    {k \in DOMAIN only : only[k] # Blank /\ \A j \in DOMAIN only : j < k => only[j] # only[k]}

\* selectExposures fails for unknown names and when nothing is left.
Selectable ==
    only # <<>> => Wanted # {} /\ \A k \in Wanted : Named(only[k]) # {}

\* In the order of the flag.
selectExposures ==
    IF only = <<>> THEN doc.exposures ELSE [k \in Wanted |-> Chosen(only[k])]
-----------------------------------------------------------------------------
(* run.                                                                    *)

ExitWith(code) ==
    /\ stage' = "exited"
    /\ exitCode' = code

\* The flags are wrong, credentials cannot be read, the client, the metrics or the
\* state directory cannot be had; or the configuration is refused.
LoadFails ==
    /\ stage = "load"
    /\ ExitWith(2)
    /\ UNCHANGED <<startVars, exposures, loopVars, ctxDone, caught, listener>>

\* -check ends here.
Checked ==
    /\ stage = "load" /\ mode = "check"
    /\ resolve /\ Selectable
    /\ ExitWith(0)
    /\ UNCHANGED <<startVars, exposures, loopVars, ctxDone, caught, listener>>

\* Everything is in place; signals are caught from now on.
Ready ==
    /\ stage = "load" /\ mode # "check"
    /\ resolve /\ Selectable
    /\ exposures' = selectExposures
    /\ sync' = [k \in DOMAIN exposures' |-> "new"]
    /\ last' = [k \in DOMAIN exposures' |-> "none"]
    /\ holders' = [k \in DOMAIN exposures' |-> {}]
    /\ caught' = TRUE

StartOnce ==
    /\ mode = "once" /\ Ready
    /\ stage' = "once"
    /\ UNCHANGED <<startVars, children, ctxDone, listener, exitCode>>

\* The metrics listener is bound and the loops are started.
StartServe ==
    /\ mode = "serve" /\ Ready
    /\ stage' = "serve"
    /\ listener' = "serving"
    /\ UNCHANGED <<startVars, children, ctxDone, exitCode>>

ListenFails ==
    /\ mode = "serve" /\ Ready
    /\ ExitWith(1)
    /\ UNCHANGED <<startVars, children, ctxDone, listener>>

\* Once: the next exposure, unless the context is over.
OnceNext(k) ==
    /\ stage = "once" /\ ~ctxDone
    /\ sync[k] = "new"
    /\ \A m \in Loops : m < k => sync[m] = "ended"
    /\ sync' = [sync EXCEPT ![k] = "running"]
    /\ UNCHANGED <<startVars, stage, exposures, last, holders, children, ctxDone, caught,
                   listener, exitCode>>

\* Mutant of OnceCode: only the last exposure's result counts.
OnceCodeOfLast ==
    IF \E k \in Loops : last[k] = "ok" /\ \A m \in Loops : m <= k THEN 0 ELSE 1

\* Once returns the problems of every exposure, and that of the context.
OnceCode == IF \A k \in Loops : last[k] = "ok" THEN 0 ELSE 1

\* Once returns: all were tried, or the context is over before the next one.
OnceEnds ==
    /\ stage = "once"
    /\ \A k \in Loops : sync[k] \notin {"running", "command"}
    /\ ctxDone \/ \A k \in Loops : sync[k] = "ended"
    /\ ExitWith(OnceCode)
    /\ UNCHANGED <<startVars, exposures, loopVars, ctxDone, caught, listener>>

\* Mutant of Wake: the loops take turns.
WakeInTurn(k) ==
    /\ stage \in {"serve", "drain"}
    /\ sync[k] \in {"new", "asleep"}
    /\ \A m \in Loops : sync[m] \notin {"running", "command"}
    /\ sync' = [sync EXCEPT ![k] = "running"]
    /\ UNCHANGED <<startVars, stage, exposures, last, holders, children, ctxDone, caught,
                   listener, exitCode>>

\* serveExposure: its first Sync, and one whenever its interval is over.
Wake(k) ==
    /\ stage \in {"serve", "drain"}
    /\ sync[k] \in {"new", "asleep"}
    /\ sync' = [sync EXCEPT ![k] = "running"]
    /\ UNCHANGED <<startVars, stage, exposures, last, holders, children, ctxDone, caught,
                   listener, exitCode>>

\* A Sync comes to its onChangeCommand, which does not start when the context is over.
RunCommand(k) ==
    /\ stage \in {"once", "serve"} /\ ~ctxDone
    /\ sync[k] = "running"
    /\ sync' = [sync EXCEPT ![k] = "command"]
    /\ holders' = [holders EXCEPT ![k] = {"command"}]
    /\ UNCHANGED <<startVars, stage, exposures, last, children, ctxDone, caught, listener,
                   exitCode>>

\* The command exits, or is killed because its timeout or the context is over.
CommandExits(k) ==
    /\ stage \in {"once", "serve", "drain"}
    /\ "command" \in holders[k]
    /\ holders' = [holders EXCEPT ![k] = @ \ {"command"}]
    /\ UNCHANGED <<startVars, stage, exposures, sync, last, children, ctxDone, caught,
                   listener, exitCode>>

\* A Sync returns, without having run its command or after it.  In a loop the select
\* follows, which has nothing else to choose when the context is over.
SyncEnds(k) ==
    /\ stage \in {"once", "serve", "drain"}
    /\ sync[k] \in {"running", "command"} /\ holders[k] = {}
    /\ \E r \in {"ok", "failed"} : last' = [last EXCEPT ![k] = r]
    /\ sync' = [sync EXCEPT ![k] = IF stage = "once" \/ ctxDone THEN "ended" ELSE "asleep"]
    /\ UNCHANGED <<startVars, stage, exposures, holders, children, ctxDone, caught, listener,
                   exitCode>>

\* The context ends a loop in its select.
LoopEnds(k) ==
    /\ stage \in {"serve", "drain"} /\ ctxDone
    /\ sync[k] = "asleep"
    /\ sync' = [sync EXCEPT ![k] = "ended"]
    /\ UNCHANGED <<startVars, stage, exposures, last, holders, children, ctxDone, caught,
                   listener, exitCode>>

runnerDone == \A k \in Loops : sync[k] = "ended"

\* The select of run: the runner is done.
RunnerDone ==
    /\ stage \in {"serve", "drain"}
    /\ runnerDone
    /\ stage' = "shutdown"
    /\ UNCHANGED <<startVars, exposures, loopVars, ctxDone, caught, listener, exitCode>>

\* Mutant of ListenerStopped: the loops are not told to stop.
ListenerStoppedOnly ==
    /\ stage = "serve" /\ listener = "failed"
    /\ exitCode' = 1
    /\ stage' = "drain"
    /\ caught' = FALSE
    /\ UNCHANGED <<startVars, exposures, loopVars, ctxDone, listener>>

\* The select of run: the metrics server failed, so everything is stopped.
ListenerStopped ==
    /\ stage = "serve" /\ listener = "failed"
    /\ exitCode' = 1
    /\ stage' = "drain"
    /\ ctxDone' = TRUE /\ caught' = FALSE
    /\ UNCHANGED <<startVars, exposures, loopVars, listener>>

\* The metrics server is shut down, in time or not.
Shutdown ==
    /\ stage = "shutdown"
    /\ \/ ExitWith(exitCode) \/ ExitWith(1)
    /\ listener' = "closed"
    /\ UNCHANGED <<startVars, exposures, loopVars, ctxDone, caught>>
-----------------------------------------------------------------------------
(* The environment.                                                        *)

\* A signal that is caught; a second one has no further effect.
Signal ==
    /\ caught /\ stage # "exited"
    /\ ~ctxDone
    /\ ctxDone' = TRUE
    /\ UNCHANGED <<startVars, stage, exposures, loopVars, caught, listener, exitCode>>

\* A signal that is not caught.
Kill ==
    /\ ~caught /\ stage # "exited"
    /\ ExitWith(Killed)
    /\ UNCHANGED <<startVars, exposures, loopVars, ctxDone, caught, listener>>

\* The metrics server's Serve returns an error.
ListenerFails ==
    /\ stage # "exited" /\ listener = "serving"
    /\ listener' = "failed"
    /\ UNCHANGED <<startVars, stage, exposures, loopVars, ctxDone, caught, exitCode>>

\* A command starts a process that inherits its output...
StartChild(k) ==
    /\ children < MaxChildren
    /\ stage # "exited"
    /\ "command" \in holders[k] /\ "child" \notin holders[k]
    /\ children' = children + 1
    /\ holders' = [holders EXCEPT ![k] = @ \cup {"child"}]
    /\ UNCHANGED <<startVars, stage, exposures, sync, last, ctxDone, caught, listener,
                   exitCode>>

\* ...and that may end, or not.
ChildEnds(k) ==
    /\ stage # "exited"
    /\ "child" \in holders[k]
    /\ holders' = [holders EXCEPT ![k] = @ \ {"child"}]
    /\ UNCHANGED <<startVars, stage, exposures, sync, last, children, ctxDone, caught,
                   listener, exitCode>>
-----------------------------------------------------------------------------
Main ==
    \/ LoadFails \/ Checked \/ StartOnce \/ StartServe \/ ListenFails
    \/ OnceEnds \/ RunnerDone \/ ListenerStopped \/ Shutdown

Loop(k) ==
    \/ OnceNext(k) \/ Wake(k) \/ RunCommand(k) \/ CommandExits(k)
    \/ SyncEnds(k) \/ LoopEnds(k)

Next ==
    \/ Main \/ Signal \/ Kill \/ ListenerFails
    \/ \E k \in Loops : Loop(k) \/ StartChild(k) \/ ChildEnds(k)
    \/ stage = "exited" /\ UNCHANGED vars

Spec == Init /\ [][Next]_vars

\* Fairness: run and every loop go on, since a request and a command have timeouts; a
\* process that a command started has none.
MaxLoops == 3       \* bound: positions in a document or in -exposure
FairSpec ==
    /\ Spec /\ WF_vars(Main)
    /\ \A k \in 1..MaxLoops : WF_vars(k \in Loops /\ Loop(k))
-----------------------------------------------------------------------------
(* Properties.                                                             *)

\* The paths at which a Sync of an exposure installs.
PathsOf(k) == {exposures[k].targets[s].path : s \in DOMAIN exposures[k].targets}

\* "destination paths must be unique across the complete configuration" (agent
\* README), which is what lets every exposure have its own loop without a lock: however
\* the paths are written and the exposures selected, no two loops install at one clean
\* path or keep their tag under one name.
NothingShared ==
    \A k, m \in Loops :
        k # m => exposures[k].name # exposures[m].name /\ PathsOf(k) \cap PathsOf(m) = {}

\* "0 on success, 1 if any exposure failed, 2 for a usage or configuration error"
\* (main.go): after -once, 0 means that every selected exposure was synchronized, 2
\* that none was touched, and 1 without a signal that all were tried.
ExitStatus ==
    stage = "exited" /\ mode = "once" =>
        /\ exitCode = 0 => Loops # {} /\ \A k \in Loops : last[k] = "ok"
        /\ exitCode = 2 => Loops = {}
        /\ exitCode = 1 => ctxDone \/ /\ \A k \in Loops : last[k] # "none"
                                      /\ \E k \in Loops : last[k] = "failed"

\* A process of the exposure's command has its output open.
Held(k) == k \in Loops /\ "child" \in holders[k]

\* "one unreachable exposure never stops the others" (fetch.go): while the agent
\* serves, every exposure whose own command has left no process behind is synchronized
\* again and again, whatever the others do.
Serving(k) == stage = "serve" /\ ~ctxDone /\ k \in Loops /\ ~Held(k)
In(k, s)   == k \in Loops /\ sync[k] = s
Independent ==
    \A k \in 1..MaxLoops : \A s \in {"running", "asleep"} :
        Serving(k) ~> (~Serving(k) \/ In(k, s))

\* A signal, or a metrics server that failed, ends the agent, unless the output of a
\* command is held open by a process it left behind.
Terminates ==
    (ctxDone \/ (stage = "serve" /\ listener = "failed"))
        ~> (stage = "exited" \/ \E k \in Loops : Held(k))
=============================================================================
