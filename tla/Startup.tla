------------------------------- MODULE Startup -------------------------------
(***************************************************************************)
(* The life of the agent process (main.rs) under a supervisor: enrollment, *)
(* the update check, the main loop, and the version switches the server    *)
(* asks for over HTTP, which end the process that was to acknowledge them. *)
(* Enrollment and SelfUpdate are the components; this module composes them *)
(* with the process and with as much of the event bus as switches touch.   *)
(*                                                                         *)
(* The configuration modelled has a discovery key, automatic updates on,   *)
(* and remote control enabled.                                             *)
(***************************************************************************)
EXTENDS Enrollment, SelfUpdate

CONSTANTS
    Main,       \* the thread of main and of the tick loop; one of Installers
    MaxCrashes  \* bound: how often the process is killed

ASSUME StartupAssumption ==
    /\ Main \in Installers
    /\ MaxCrashes \in Nat

VARIABLES
    phase,        \* where main is; "down" when there is no process
    outstanding,  \* server: switch requests not yet acknowledged
    asked,        \* server: every switch request it ever queued
    seen,         \* V2EventBus.seen
    pending,      \* V2EventBus.pending_acks
    switchedTo,   \* ghost: the switch executed since the last main loop, or Boot
    crashes

busVars == <<seen, pending>>
serverVars == <<outstanding, asked>>
ghostVars == <<switchedTo, crashes>>
vars == <<enrollVars, updateVars, phase, serverVars, busVars, ghostVars>>

TypeOK ==
    /\ EnrollTypeOK
    /\ UpdateTypeOK
    /\ phase \in {"down", "enroll", "update", "loop"}
    /\ outstanding \subseteq asked
    /\ asked \subseteq Selectors
    /\ seen \subseteq Selectors
    /\ pending \subseteq Selectors
    /\ switchedTo \in Selectors \cup {Boot}
    /\ crashes \in 0..MaxCrashes
    /\ phase = "enroll" <=> enroll \notin {"off", "done"}
    /\ phase \in {"down", "enroll"} => \A t \in Installers : step[t] = "idle"

Init ==
    /\ EnrollInit
    /\ UpdateInit
    /\ phase = "down"
    /\ outstanding = {}
    /\ asked = {}
    /\ seen = {}
    /\ pending = {}
    /\ switchedTo = Boot
    /\ crashes = 0

(***************************************************************************)
(* The process.                                                            *)
(***************************************************************************)

\* The supervisor starts the executable.
Start(p) ==
    /\ phase = "down"
    /\ phase' = "enroll"
    /\ Launch
    /\ EnrollStart(p)
    /\ UNCHANGED <<serverVars, busVars, ghostVars>>

Enrolling ==
    /\ phase = "enroll"
    /\ EnrollStep
    /\ phase' = IF enroll' = "done" THEN "update" ELSE phase
    /\ IF enroll' = "done" THEN Request(Main, Boot) ELSE UNCHANGED updateVars
    /\ UNCHANGED <<serverVars, busVars, ghostVars>>

\* Whatever memory held is lost.
Ends ==
    /\ phase' = "down"
    /\ EnrollStop
    /\ Die
    /\ seen' = {}
    /\ pending' = {}
    /\ switchedTo' = Boot
    /\ UNCHANGED serverVars

\* A failed enrollment ends the process with status 1.
ExitUnenrolled ==
    /\ enroll = "failed"
    /\ Ends
    /\ UNCHANGED crashes

Crash ==
    /\ phase # "down"
    /\ crashes < MaxCrashes
    /\ crashes' = crashes + 1
    /\ Ends

\* The update check is over, with nothing installed or for the next start only.
EnterLoop ==
    /\ phase = "update"
    /\ step[Main] = "idle"
    /\ phase' = "loop"
    /\ switchedTo' = Boot
    /\ UNCHANGED <<enrollVars, updateVars, serverVars, busVars, crashes>>

Installing(t) ==
    /\ phase \in {"update", "loop"}
    /\ InstallStep(t)
    /\ UNCHANGED <<enrollVars, phase, serverVars, busVars, ghostVars>>

\* The process executes the new file: it keeps its id, and starts over.
Exec(t) ==
    /\ step[t] = "exec"
    /\ Launch
    /\ EnrollStart(pid)
    /\ phase' = "enroll"
    /\ seen' = {}
    /\ pending' = {}
    /\ switchedTo' = IF want[t] = Boot THEN switchedTo ELSE want[t]
    /\ UNCHANGED <<serverVars, crashes>>

(***************************************************************************)
(* Version switches: events of the HTTP control plane, noted and dispatched *)
(* by the tick loop or the pull thread, as PullSession has it in detail.    *)
(***************************************************************************)

\* The server queues a request.
Ask(s) ==
    /\ s \notin asked
    /\ asked' = asked \cup {s}
    /\ outstanding' = outstanding \cup {s}
    /\ UNCHANGED <<enrollVars, updateVars, phase, busVars, ghostVars>>

\* A thread gets it in a response: every sighting is to be acknowledged, the
\* first one in the life of the process is handled.
Deliver(t, s) ==
    /\ phase = "loop"
    /\ step[t] = "idle"
    /\ s \in outstanding
    /\ pending' = pending \cup {s}
    /\ seen' = seen \cup {s}
    /\ IF s \in seen THEN UNCHANGED updateVars ELSE Request(t, s)
    /\ UNCHANGED <<enrollVars, phase, serverVars, ghostVars>>

\* The next report or pull of a thread that is not busy installing carries the
\* acknowledgements out.
Acknowledge(t) ==
    /\ phase = "loop"
    /\ step[t] = "idle"
    /\ pending # {}
    /\ outstanding' = outstanding \ pending
    /\ pending' = {}
    /\ UNCHANGED <<enrollVars, updateVars, phase, asked, seen, ghostVars>>

Next ==
    \/ Publish /\ UNCHANGED <<enrollVars, phase, serverVars, busVars, ghostVars>>
    \/ \E p \in Pids : Start(p)
    \/ Enrolling
    \/ ExitUnenrolled
    \/ Crash
    \/ EnterLoop
    \/ \E t \in Installers :
          \/ Installing(t)
          \/ Exec(t)
          \/ Acknowledge(t)
          \/ \E s \in Selectors : Deliver(t, s)
    \/ \E s \in Selectors : Ask(s)

Spec == Init /\ [][Next]_vars

\* The supervisor restarts a dead agent and a running thread moves on; neither
\* the network nor the disk fails at the same point of the enrollment for ever.
Fairness ==
    /\ WF_vars(\E p \in Pids : Start(p))
    /\ WF_vars(Enrolling)
    /\ \A s \in {"stage", "rename", "done"} : SF_vars(Enrolling /\ enroll' = s)
    /\ WF_vars(ExitUnenrolled)
    /\ WF_vars(EnterLoop)
    /\ \A t \in Installers :
          /\ WF_vars(Installing(t) \/ Exec(t))
          /\ WF_vars(Acknowledge(t))
          /\ \A s \in Selectors : WF_vars(Deliver(t, s))

FairSpec == Spec /\ Fairness

(***************************************************************************)
(* Properties.                                                             *)
(***************************************************************************)

\* Whenever it is killed, and however its two installing threads overlap, the
\* agent leaves an executable the supervisor can find, or on Windows one an
\* operator can put back (install_verified_binary, replace_with_rollback).
NeverWithoutExecutable == ExecutableKept

\* The backup is never dropped before its replacement is staged and synced
\* ("the previous successful backup remains available until another fully
\* verified update is ready to install").
BackupAvailable == [][BackupKept]_vars

\* A new executable that cannot be executed is taken back at once: when main gets
\* to its loop, the executable on disk is the one that runs.  Otherwise the one
\* that runs is kept in ".old": because Windows takes the new one at the next start
\* only, or because the rollback failed too ("previous executable retained in .old").
LoopRunsInstalled ==
    [][EnterLoop => \/ exe = running
                    \/ old = running /\ (platform = "windows" \/ rollback = "failed")]_vars

\* An agent works under the identity it saved first, over restarts, crashes
\* and lost registration answers (resolve_token, save_credentials).
IdentityNeverChanges == [][IdentityKept]_vars

\* However often it is killed or updated, the agent gets back to its main loop,
\* unless the executable left by a kill between swap and exec, or by a rollback
\* that failed, does not start,
\* or a stage file left behind locks its process id out of enrollment.
ComesUp == []<>(phase = "loop" \/ exe \notin Startable \/ LockedOut)

\* The update check at the next start undoes a switch to s: it is to a release
\* older than the latest, and that one starts.
Undone(s) ==
    /\ Published(s) # {}
    /\ Max(Published(s)) < latest
    /\ latest \in Startable

\* A switch request is acknowledged in the end, though serving it ends the
\* process that noted it ("Events are deduplicated and acknowledged"); but not while
\* the server asks for a switch that the next start undoes, which is delivered and
\* served again for ever and takes the acknowledgements of the others with it.
SwitchAcknowledged ==
    \A s \in Selectors :
        (s \in outstanding) ~>
            \/ s \notin outstanding
            \/ exe \notin Startable
            \/ LockedOut
            \/ \E u \in outstanding : Undone(u)

\* The release the server switched the agent to is the one it works with
\* (check_and_update_target: "Install a stable release selected by an
\* authenticated server request").
SwitchSticks ==
    [][EnterLoop /\ switchedTo # Boot => running \in Matches[switchedTo]]_vars

=============================================================================
