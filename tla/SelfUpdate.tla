----------------------------- MODULE SelfUpdate -----------------------------
(***************************************************************************)
(* Self-update (update.rs): an installer downloads a release, verifies it, *)
(* stages it beside the executable, keeps the previous executable as       *)
(* ".old" and puts the new one in its place.  On Unix the process then     *)
(* executes it, and rolls back when that fails; on Windows the new file    *)
(* waits for the next start.  Two threads of the process can install at    *)
(* once, since switch requests are handled by whichever thread got them.   *)
(*                                                                         *)
(* A release is its version number; files hold a whole release, a torn     *)
(* one, or are absent.  Downloads are verified before any file is touched, *)
(* so a release that fails its checksum is one more way to give up.        *)
(***************************************************************************)
EXTENDS AgentFiles, FiniteSetsExt

CONSTANTS
    MaxRelease,  \* releases are numbered in the order of their versions
    Selectors,   \* what a switch request may ask for
    Matches,     \* the releases each selector accepts
    Installers,  \* threads that may install
    Broken,      \* releases that do not start on this machine
    Platforms,   \* "unix", "windows" or both
    Boot         \* not a selector: the check main makes at every start

Releases == 1..MaxRelease

ASSUME SelfUpdateAssumption ==
    /\ MaxRelease \in Nat \ {0}
    /\ Matches \in [Selectors -> SUBSET Releases]
    /\ Broken \subseteq Releases \ {1}
    /\ Platforms \subseteq {"unix", "windows"}
    /\ Boot \notin Selectors

VARIABLES
    platform,
    exe, new, old,  \* disk: the executable, ".new" and ".old"
    image,          \* the name the running process' file has now: "exe" or "old"
    running,        \* the release the process runs
    latest,         \* GitHub: the newest release
    rollback,       \* ghost: "failed" when one of this process left the backup in ".old"
    step,           \* how far an installer is
    want,           \* the selector it serves
    goal            \* the release it installs

diskVars == <<exe, new, old>>
installVars == <<step, want, goal>>
updateVars == <<platform, diskVars, image, running, latest, rollback, installVars>>

Files == Releases \cup {Absent}

UpdateTypeOK ==
    /\ platform \in Platforms
    /\ exe \in Files
    /\ new \in Files \cup {Torn}
    /\ old \in Files
    /\ image \in {"exe", "old"}
    /\ running \in Releases
    /\ latest \in Releases
    /\ rollback \in {"none", "failed"}
    /\ step \in [Installers -> {"idle", "check", "stage", "write", "dropOld", "backup",
                                "swap", "exec", "restore", "moveIn", "moveBack"}]
    /\ want \in [Installers -> Selectors \cup {Boot}]
    /\ goal \in [Installers -> Releases]

UpdateInit ==
    /\ platform \in Platforms
    /\ exe = 1
    /\ new = Absent
    /\ old = Absent
    /\ image = "exe"
    /\ running = 1
    /\ latest = 1
    /\ rollback = "none"
    /\ step = [t \in Installers |-> "idle"]
    /\ want = [t \in Installers |-> Boot]
    /\ goal = [t \in Installers |-> 1]

Startable == Releases \ Broken

Goto(t, s) ==
    /\ step' = [step EXCEPT ![t] = s]
    /\ UNCHANGED <<want, goal>>

\* The installer returns to its caller.
Return(t) ==
    /\ step' = [step EXCEPT ![t] = "idle"]
    /\ want' = [want EXCEPT ![t] = Boot]
    /\ goal' = [goal EXCEPT ![t] = 1]

\* The maintainers publish a release.
Publish ==
    /\ latest < MaxRelease
    /\ latest' = latest + 1
    /\ UNCHANGED <<platform, diskVars, image, running, rollback, installVars>>

(***************************************************************************)
(* Which release to install.                                               *)
(***************************************************************************)

\* The published releases a selector accepts.
Published(s) == Matches[s] \cap 1..latest

\* Mutant: the release selected is installed even when it is the one running.
OfferedEvenIfActive(s) ==
    IF s = Boot THEN {latest} \ 1..running
    ELSE IF Published(s) = {} THEN {} ELSE {Max(Published(s))}

\* Mutant: at a start, a release that is not older will do.
OfferedNotOlder(s) ==
    IF s = Boot THEN {latest} \ 1..(running - 1)
    ELSE IF Published(s) = {} THEN {} ELSE {Max(Published(s))} \ {running}

\* The release to install, if any: at a start the latest one when it is newer
\* than the running one; for a switch the newest the selector accepts, newer or
\* older than the running one, unless it is the running one.
Offered(s) ==
    IF s = Boot THEN {latest} \ 1..running
    ELSE IF Published(s) = {} THEN {} ELSE {Max(Published(s))} \ {running}

\* An installer asks GitHub.  It may find nothing to install, and the download
\* or its verification may fail whatever there is.
Check(t) ==
    /\ step[t] = "check"
    /\ \/ \E v \in Offered(want[t]) :
             /\ goal' = [goal EXCEPT ![t] = v]
             /\ step' = [step EXCEPT ![t] = "stage"]
             /\ UNCHANGED want
       \/ Return(t)
    /\ UNCHANGED <<platform, diskVars, image, running, latest, rollback>>

(***************************************************************************)
(* install_verified_binary: the same on both systems up to the swap.       *)
(***************************************************************************)

\* A failure from here on removes the staged file, which may fail unnoticed: then
\* create_new fails for every later installer.
GiveUp(t) ==
    /\ new' \in {Absent, new}
    /\ Return(t)
    /\ UNCHANGED <<exe, old, image>>

\* Mutant: the stage file is created or truncated, whoever made it.
StageShared(t) ==
    /\ step[t] = "stage"
    /\ new' = Torn
    /\ Goto(t, "write")
    /\ UNCHANGED <<platform, exe, old, image, running, latest, rollback>>

\* Mutant: the old backup goes before the download is written.
StageDropsOld(t) ==
    /\ step[t] = "stage"
    /\ IF new = Absent
       THEN /\ new' = Torn
            /\ old' = Absent
            /\ Goto(t, "write")
       ELSE /\ Return(t)
            /\ UNCHANGED <<new, old>>
    /\ UNCHANGED <<platform, exe, image, running, latest, rollback>>

\* create_new: a stage file that is already there ends the update.
Stage(t) ==
    /\ step[t] = "stage"
    /\ IF new = Absent
       THEN /\ new' = Torn
            /\ Goto(t, "write")
       ELSE /\ Return(t)
            /\ UNCHANGED new
    /\ UNCHANGED <<platform, exe, old, image, running, latest, rollback>>

\* Write, set the mode, sync.
Write(t) ==
    /\ step[t] = "write"
    /\ \/ /\ new' = goal[t]
          /\ Goto(t, "dropOld")
          /\ UNCHANGED <<exe, old, image>>
       \/ GiveUp(t)
    /\ UNCHANGED <<platform, running, latest, rollback>>

\* The previous backup goes.  Windows refuses when it is the running image.
DropOld(t) ==
    /\ step[t] = "dropOld"
    /\ \/ /\ ~(platform = "windows" /\ image = "old")
          /\ old' = Absent
          /\ Goto(t, "backup")
          /\ UNCHANGED <<exe, new, image>>
       \/ GiveUp(t)
    /\ UNCHANGED <<platform, running, latest, rollback>>

(***************************************************************************)
(* Unix: hard link, rename over, exec, and back on failure.                *)
(***************************************************************************)

\* Mutant: the executable is moved to ".old", not linked.
BackupByRename(t) ==
    /\ platform = "unix"
    /\ step[t] = "backup"
    /\ old' = exe
    /\ exe' = Absent
    /\ Goto(t, "swap")
    /\ UNCHANGED <<platform, new, image, running, latest, rollback>>

\* hard_link(exe, old) fails when there is an old file again.
Backup(t) ==
    /\ platform = "unix"
    /\ step[t] = "backup"
    /\ \/ /\ old = Absent
          /\ old' = exe
          /\ Goto(t, "swap")
          /\ UNCHANGED <<exe, new, image>>
       \/ GiveUp(t)
    /\ UNCHANGED <<platform, running, latest, rollback>>

Swap(t) ==
    /\ platform = "unix"
    /\ step[t] = "swap"
    /\ \/ /\ exe' = new
          /\ new' = Absent
          /\ Goto(t, "exec")
          /\ UNCHANGED <<old, image>>
       \/ GiveUp(t)
    /\ UNCHANGED <<platform, running, latest, rollback>>

\* exec returns only when it fails: for a file that does not start, or for want
\* of memory and the like.
ExecFails(t) ==
    /\ step[t] = "exec"
    /\ Goto(t, "restore")
    /\ UNCHANGED <<platform, diskVars, image, running, latest, rollback>>

\* Mutant: the executable that failed to start is left in place.
RestoreNothing(t) ==
    /\ step[t] = "restore"
    /\ Return(t)
    /\ UNCHANGED <<platform, diskVars, image, running, latest, rollback>>

\* restore_after_failed_exec: the rename may fail, and does when there is no
\* backup; then the new file stays installed.
Restore(t) ==
    /\ step[t] = "restore"
    /\ \/ /\ old # Absent
          /\ exe' = old
          /\ old' = Absent
          /\ UNCHANGED rollback
       \/ /\ rollback' = "failed"
          /\ UNCHANGED <<exe, old>>
    /\ Return(t)
    /\ UNCHANGED <<platform, new, image, running, latest>>

(***************************************************************************)
(* Windows: replace_with_rollback; the running process goes on as it is.   *)
(***************************************************************************)

\* The running executable is renamed out of the way...
MoveAside(t) ==
    /\ platform = "windows"
    /\ step[t] = "backup"
    /\ \/ /\ exe # Absent
          /\ old' = exe
          /\ exe' = Absent
          /\ image' = "old"
          /\ Goto(t, "moveIn")
          /\ UNCHANGED new
       \/ GiveUp(t)
    /\ UNCHANGED <<platform, running, latest, rollback>>

\* ...the staged one takes its name...
MoveIn(t) ==
    /\ step[t] = "moveIn"
    /\ \/ /\ exe' = new
          /\ new' = Absent
          /\ Return(t)
       \/ /\ Goto(t, "moveBack")
          /\ UNCHANGED <<exe, new>>
    /\ UNCHANGED <<platform, old, image, running, latest, rollback>>

\* ...or the running one takes it back, which may fail as well.
MoveBack(t) ==
    /\ step[t] = "moveBack"
    /\ new' \in {Absent, new}
    /\ \/ /\ exe' = old
          /\ old' = Absent
          /\ image' = "exe"
          /\ UNCHANGED rollback
       \/ /\ rollback' = "failed"
          /\ UNCHANGED <<exe, old, image>>
    /\ Return(t)
    /\ UNCHANGED <<platform, running, latest>>

InstallStep(t) ==
    \/ Check(t) \/ Stage(t) \/ Write(t) \/ DropOld(t)
    \/ Backup(t) \/ Swap(t) \/ ExecFails(t) \/ Restore(t)
    \/ MoveAside(t) \/ MoveIn(t) \/ MoveBack(t)

\* An idle installer turns to a selector.
Request(t, s) ==
    /\ step[t] = "idle"
    /\ step' = [step EXCEPT ![t] = "check"]
    /\ want' = [want EXCEPT ![t] = s]
    /\ UNCHANGED <<platform, diskVars, image, running, latest, rollback, goal>>

\* Another process image, the one named exe, with no installer under way.
Launch ==
    /\ exe \in Startable
    /\ running' = exe
    /\ image' = "exe"
    /\ rollback' = "none"
    /\ step' = [t \in Installers |-> "idle"]
    /\ want' = [t \in Installers |-> Boot]
    /\ goal' = [t \in Installers |-> 1]
    /\ UNCHANGED <<platform, diskVars, latest>>

\* The process is gone, wherever its installers were.
Die ==
    /\ step' = [t \in Installers |-> "idle"]
    /\ want' = [t \in Installers |-> Boot]
    /\ goal' = [t \in Installers |-> 1]
    /\ UNCHANGED <<platform, diskVars, image, running, latest, rollback>>

(***************************************************************************)
(* What the component promises.                                            *)
(***************************************************************************)

\* The path the supervisor starts always holds a whole executable on Unix; on
\* Windows, where it is briefly empty, a whole one is then kept as ".old".
ExecutableKept ==
    \/ exe \in Releases
    \/ platform = "windows" /\ old \in Releases

\* The last good backup is given up only for a verified, fully staged release,
\* or to put it back in place.
BackupKept ==
    (old # Absent /\ old' = Absent) => (new \in Releases \/ exe' = old)

=============================================================================
