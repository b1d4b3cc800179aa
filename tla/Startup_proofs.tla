---------------------------- MODULE Startup_proofs ----------------------------
(***************************************************************************)
(* Theorems about enrollment, self-update and start-up, for any releases,  *)
(* selectors, process ids, installing threads and kills, on both systems.  *)
(*                                                                         *)
(* The invariant of the files has three parts: one installer at most has   *)
(* the staged file (create_new is the lock), a staged file is whole from   *)
(* the step that says so, and an executable that is out of the way is the  *)
(* running image, which Windows does not let go.                           *)
(***************************************************************************)
EXTENDS Startup, FiniteSetTheorems, WellFoundedInduction, TLAPS

\* Steps of an installer that has created ".new" and not yet given it away.
Staging == {"write", "dropOld", "backup", "swap", "moveIn", "moveBack"}

OneStages ==
    \A t, u \in Installers : step[t] \in Staging /\ step[u] \in Staging => t = u

StagedWhole ==
    \A t \in Installers :
        /\ step[t] \in Staging => new # Absent
        /\ step[t] \in Staging \ {"write"} => new \in Releases

Sides ==
    \A t \in Installers :
        /\ step[t] \in {"swap", "exec", "restore"} => platform = "unix"
        /\ step[t] \in {"moveIn", "moveBack"} => platform = "windows" /\ exe = Absent

OutOfTheWay == exe = Absent => platform = "windows" /\ image = "old" /\ old \in Releases

FilesInv == UpdateTypeOK /\ OneStages /\ StagedWhole /\ Sides /\ OutOfTheWay

\* What an enrollment under way knows of the credentials.
EnrollInv ==
    /\ EnrollTypeOK
    /\ enroll \in {"register", "stage", "write", "rename", "cleanup"} => cred = Absent
    /\ enroll \in {"stage", "write", "rename"} => token \in Nodes
    /\ enroll = "rename" => tmp[pid] = token
    /\ enroll = "done" => token = cred /\ cred # Absent

\* The process and its bus.
ProcessInv ==
    /\ phase \in {"down", "enroll", "update", "loop"}
    /\ outstanding \subseteq asked
    /\ asked \subseteq Selectors
    /\ seen \subseteq Selectors
    /\ pending \subseteq Selectors
    /\ switchedTo \in Selectors \cup {Boot}
    /\ crashes \in 0..MaxCrashes
    /\ phase = "enroll" <=> enroll \notin {"off", "done"}
    /\ phase \in {"down", "enroll"} => \A t \in Installers : step[t] = "idle"

\* Until its loop main is the only installer.  The executable is the running one
\* until main swaps it or moves it aside, and the backup is from then on: for good
\* on Windows, or when the rollback fails.
BootInv ==
    /\ phase = "enroll" => exe = running
    /\ phase = "update" =>
          /\ \A t \in Installers \ {Main} : step[t] = "idle"
          /\ step[Main] \in {"swap", "exec", "restore", "moveIn", "moveBack"} => old = running
          /\ \/ exe = running
             \/ step[Main] \in {"exec", "restore", "moveIn", "moveBack"}
             \/ /\ step[Main] = "idle" /\ old = running
                /\ platform = "windows" \/ rollback = "failed"

StartInv == FilesInv /\ EnrollInv /\ ProcessInv /\ BootInv

\* A file that is a release, or being written, is there.
LEMMA FilesDiffer == Absent \notin Releases /\ Torn \notin Releases /\ Absent # Torn /\ Absent \notin Nodes
  BY FilesAssumption, SelfUpdateAssumption, EnrollmentAssumption DEF Releases, Nodes

\* The newest of some releases is one of them: of the sets of those above one of
\* them, a smallest is empty.
LEMMA MaxExists ==
    ASSUME NEW n \in Nat, NEW S, S \subseteq 1..n, S # {}
    PROVE  Max(S) \in S
<1> DEFINE Above(x) == {y \in S : y > x}
           T == {Above(x) : x \in S}
<1>1. IsFiniteSet(S)
  <2>1. IsFiniteSet(1..n)
    BY FS_Interval
  <2> QED
    BY <2>1, FS_Subset
<1>2. IsWellFoundedOn(StrictSubsetOrdering(S), SUBSET S)
  BY <1>1, FS_StrictSubsetOrderingWellFounded, FS_FiniteSubsetsOfFinite
<1>3. T \subseteq SUBSET S /\ T # {}
  OBVIOUS
<1>4. PICK m \in T : \A u \in T : <<u, m>> \notin StrictSubsetOrdering(S)
  <2> HIDE DEF T
  <2> QED
    BY <1>2, <1>3, WFMin
<1>5. PICK x \in S : m = Above(x)
  BY <1>4
<1>6. \A y \in S : x >= y
  <2> SUFFICES ASSUME NEW y \in S, ~(x >= y) PROVE FALSE
    OBVIOUS
  <2>0. x \in Nat /\ y \in Nat /\ y > x /\ \A z \in S : z \in Nat
    BY <1>5
  <2>1. \A z \in S : z > y => z > x
    BY <2>0
  <2>2. ~(y > y)
    BY <2>0
  <2>3. Above(y) \subseteq Above(x) /\ y \in Above(x) /\ y \notin Above(y)
    BY <2>0, <2>1, <2>2
  <2>4. <<Above(y), Above(x)>> \in StrictSubsetOrdering(S)
    BY <2>3 DEF StrictSubsetOrdering
  <2> QED
    BY <1>4, <1>5, <2>4
<1>7. \E z \in S : \A y \in S : z >= y
  BY <1>5, <1>6
<1> QED
  BY <1>7, Zenon DEF Max

\* What Check installs is a published release.
LEMMA OfferedReleases ==
    ASSUME UpdateTypeOK, NEW s \in Selectors \cup {Boot}
    PROVE  Offered(s) \subseteq Releases
<1>1. latest \in Releases
  BY DEF UpdateTypeOK
<1>2. CASE s = Boot
  BY <1>1, <1>2 DEF Offered
<1>3. CASE s # Boot /\ Published(s) # {}
  <2>1. Published(s) \subseteq 1..latest /\ latest \in Nat
    BY <1>1 DEF Published, Releases
  <2>2. Max(Published(s)) \in Published(s)
    BY <1>3, <2>1, MaxExists
  <2> QED
    BY <1>1, <1>3, <2>1, <2>2, SelfUpdateAssumption DEF Offered, Releases
<1>4. CASE s # Boot /\ Published(s) = {}
  BY <1>4 DEF Offered
<1> QED
  BY <1>2, <1>3, <1>4

(***************************************************************************)
(* The files.                                                              *)
(***************************************************************************)

LEMMA InitFiles == UpdateInit => FilesInv
  BY FilesDiffer, SelfUpdateAssumption
     DEF UpdateInit, FilesInv, UpdateTypeOK, OneStages, StagedWhole, Sides, OutOfTheWay,
         Files, Releases, Staging

\* Who has the staged file, or may create it, has it alone.
LEMMA StagesAlone ==
    ASSUME FilesInv, NEW t \in Installers, step[t] \in Staging \/ new = Absent,
           NEW u \in Installers, u # t
    PROVE  step[u] \notin Staging
  BY DEF FilesInv, OneStages, StagedWhole

\* An installer moves on, or returns; no other is touched.
LEMMA OthersStay ==
    ASSUME FilesInv, NEW t \in Installers, NEW s, Goto(t, s) \/ (s = "idle" /\ Return(t)),
           s \in {"idle", "check", "stage", "write", "dropOld", "backup",
                  "swap", "exec", "restore", "moveIn", "moveBack"}
    PROVE  /\ step'[t] = s
           /\ \A u \in Installers : u # t => step'[u] = step[u]
           /\ step' \in [Installers -> {"idle", "check", "stage", "write", "dropOld", "backup",
                                        "swap", "exec", "restore", "moveIn", "moveBack"}]
           /\ want' \in [Installers -> Selectors \cup {Boot}]
           /\ goal' \in [Installers -> Releases]
  BY SelfUpdateAssumption DEF FilesInv, UpdateTypeOK, Goto, Return, Releases

\* Every step of an installer, and what it does to the backup.
LEMMA InstallKeepsFiles ==
    ASSUME FilesInv, NEW t \in Installers, InstallStep(t)
    PROVE  FilesInv' /\ BackupKept
<1> USE FilesDiffer
<1>1. CASE Check(t)
  <2>1. want[t] \in Selectors \cup {Boot}
    BY DEF FilesInv, UpdateTypeOK
  <2>2. Offered(want[t]) \subseteq Releases
    BY <2>1, OfferedReleases DEF FilesInv
  <2>3. CASE Return(t)
    BY <1>1, <2>3, OthersStay
       DEF Check, FilesInv, UpdateTypeOK, OneStages, StagedWhole, Sides, OutOfTheWay,
           diskVars, BackupKept, Staging
  <2>4. ASSUME NEW v \in Offered(want[t]), goal' = [goal EXCEPT ![t] = v],
               step' = [step EXCEPT ![t] = "stage"], UNCHANGED want
        PROVE  FilesInv' /\ BackupKept
    BY <1>1, <2>2, <2>4
       DEF Check, FilesInv, UpdateTypeOK, OneStages, StagedWhole, Sides, OutOfTheWay,
           diskVars, BackupKept, Staging
  <2> QED
    BY <1>1, <2>3, <2>4 DEF Check
<1>2. CASE Stage(t)
  BY <1>2, OthersStay, StagesAlone
     DEF Stage, FilesInv, UpdateTypeOK, OneStages, StagedWhole, Sides, OutOfTheWay,
         BackupKept, Staging
<1>3. CASE Write(t)
  BY <1>3, OthersStay, StagesAlone
     DEF Write, GiveUp, FilesInv, UpdateTypeOK, OneStages, StagedWhole, Sides, OutOfTheWay,
         BackupKept, Staging, Files
<1>4. CASE DropOld(t)
  BY <1>4, OthersStay, StagesAlone
     DEF DropOld, GiveUp, FilesInv, UpdateTypeOK, OneStages, StagedWhole, Sides, OutOfTheWay,
         BackupKept, Staging, Files
<1>5. CASE Backup(t)
  BY <1>5, OthersStay, StagesAlone
     DEF Backup, GiveUp, FilesInv, UpdateTypeOK, OneStages, StagedWhole, Sides, OutOfTheWay,
         BackupKept, Staging, Files
<1>6. CASE Swap(t)
  BY <1>6, OthersStay, StagesAlone
     DEF Swap, GiveUp, FilesInv, UpdateTypeOK, OneStages, StagedWhole, Sides, OutOfTheWay,
         BackupKept, Staging, Files
<1>7. CASE ExecFails(t)
  BY <1>7, OthersStay
     DEF ExecFails, diskVars, FilesInv, UpdateTypeOK, OneStages, StagedWhole, Sides,
         OutOfTheWay, BackupKept, Staging
<1>8. CASE Restore(t)
  BY <1>8, OthersStay
     DEF Restore, FilesInv, UpdateTypeOK, OneStages, StagedWhole, Sides, OutOfTheWay,
         BackupKept, Staging, Files
<1>9. CASE MoveAside(t)
  BY <1>9, OthersStay, StagesAlone
     DEF MoveAside, GiveUp, FilesInv, UpdateTypeOK, OneStages, StagedWhole, Sides, OutOfTheWay,
         BackupKept, Staging, Files
<1>10. CASE MoveIn(t)
  BY <1>10, OthersStay, StagesAlone
     DEF MoveIn, FilesInv, UpdateTypeOK, OneStages, StagedWhole, Sides, OutOfTheWay,
         BackupKept, Staging, Files
<1>11. CASE MoveBack(t)
  BY <1>11, OthersStay, StagesAlone
     DEF MoveBack, FilesInv, UpdateTypeOK, OneStages, StagedWhole, Sides, OutOfTheWay,
         BackupKept, Staging, Files
<1> QED
  BY <1>1, <1>2, <1>3, <1>4, <1>5, <1>6, <1>7, <1>8, <1>9, <1>10, <1>11 DEF InstallStep

\* A new process image, or the end of one, finds the files as they are.
LEMMA LaunchOrDieKeepsFiles ==
    ASSUME FilesInv, Launch \/ Die
    PROVE  FilesInv' /\ BackupKept
  BY FilesDiffer, SelfUpdateAssumption
     DEF Launch, Die, Startable, diskVars, FilesInv, UpdateTypeOK, OneStages, StagedWhole,
         Sides, OutOfTheWay, BackupKept, Staging, Files, Releases

LEMMA RequestKeepsFiles ==
    ASSUME FilesInv, NEW t \in Installers, NEW s \in Selectors \cup {Boot}, Request(t, s)
    PROVE  FilesInv' /\ BackupKept
  BY DEF Request, diskVars, FilesInv, UpdateTypeOK, OneStages, StagedWhole, Sides,
         OutOfTheWay, BackupKept, Staging

LEMMA OthersKeepFiles ==
    ASSUME FilesInv, Publish \/ UNCHANGED updateVars
    PROVE  FilesInv' /\ BackupKept
  BY SelfUpdateAssumption
     DEF Publish, updateVars, installVars, diskVars, FilesInv, UpdateTypeOK, OneStages,
         StagedWhole, Sides, OutOfTheWay, BackupKept, Staging, Releases

(***************************************************************************)
(* Enrollment.                                                             *)
(***************************************************************************)

LEMMA InitEnroll == EnrollInit => EnrollInv
  BY FilesDiffer, EnrollmentAssumption DEF EnrollInit, EnrollInv, EnrollTypeOK, Nodes

LEMMA EnrollStepKeeps ==
    ASSUME EnrollInv, EnrollStep
    PROVE  EnrollInv' /\ IdentityKept
<1> USE FilesDiffer
<1>1. CASE Load
  BY <1>1 DEF Load, EnrollInv, EnrollTypeOK, IdentityKept
<1>2. CASE Register
  <2>1. registered' \in Nodes
    BY <1>2, EnrollmentAssumption DEF Register, EnrollInv, EnrollTypeOK, Nodes
  <2> QED
    BY <1>2, <2>1 DEF Register, EnrollInv, EnrollTypeOK, IdentityKept, Nodes
<1>3. CASE RegisterFails
  BY <1>3 DEF RegisterFails, EnrollInv, EnrollTypeOK, IdentityKept
<1>4. CASE OpenTmp
  BY <1>4 DEF OpenTmp, EnrollInv, EnrollTypeOK, IdentityKept
<1>5. CASE WriteTmp
  BY <1>5 DEF WriteTmp, EnrollInv, EnrollTypeOK, IdentityKept
<1>6. CASE RenameTmp
  BY <1>6 DEF RenameTmp, EnrollInv, EnrollTypeOK, IdentityKept
<1>7. CASE RemoveTmp
  BY <1>7 DEF RemoveTmp, EnrollInv, EnrollTypeOK, IdentityKept
<1> QED
  BY <1>1, <1>2, <1>3, <1>4, <1>5, <1>6, <1>7 DEF EnrollStep

LEMMA StartOrStopKeepsEnroll ==
    ASSUME EnrollInv, (\E p \in Pids : EnrollStart(p)) \/ EnrollStop \/ UNCHANGED enrollVars
    PROVE  EnrollInv' /\ IdentityKept
  BY FilesDiffer
     DEF EnrollStart, EnrollStop, enrollVars, EnrollInv, EnrollTypeOK, IdentityKept

(***************************************************************************)
(* The process.                                                            *)
(***************************************************************************)

LEMMA InitStart == Init => StartInv
<1> SUFFICES ASSUME Init PROVE StartInv
  OBVIOUS
<1>1. FilesInv /\ EnrollInv
  BY InitFiles, InitEnroll DEF Init
<1>2. ProcessInv
  BY StartupAssumption DEF Init, EnrollInit, UpdateInit, ProcessInv
<1>3. BootInv
  BY DEF Init, BootInv
<1> QED
  BY <1>1, <1>2, <1>3 DEF StartInv

\* What a step may do to the files and the credentials.
StepKept ==
    /\ BackupKept
    /\ IdentityKept
    /\ EnterLoop =>
          \/ exe = running
          \/ old = running /\ (platform = "windows" \/ rollback = "failed")

\* One main has the files to itself until its loop: what it installs, or takes
\* back.
LEMMA MainKeepsBoot ==
    ASSUME StartInv, NEW t \in Installers, Installing(t)
    PROVE  BootInv'
<1> SUFFICES ASSUME phase' = "update" PROVE BootInv'
  BY DEF Installing, ProcessInv, BootInv
<1>1. phase = "update" /\ InstallStep(t)
  BY DEF Installing
<1>2. t = Main
  BY <1>1 DEF InstallStep, StartInv, BootInv, Check, Stage, Write, DropOld, Backup, Swap,
              ExecFails, Restore, MoveAside, MoveIn, MoveBack
<1>3. step \in [Installers -> {"idle", "check", "stage", "write", "dropOld", "backup",
                               "swap", "exec", "restore", "moveIn", "moveBack"}]
  BY DEF StartInv, FilesInv, UpdateTypeOK
<1>4. /\ \A u \in Installers \ {Main} : step'[u] = "idle"
      /\ platform' = platform /\ running' = running
  BY <1>1, <1>2, <1>3
     DEF InstallStep, StartInv, BootInv, Check, Stage, Write, DropOld, Backup, Swap, GiveUp,
         ExecFails, Restore, MoveAside, MoveIn, MoveBack, Goto, Return
<1>5. /\ step'[Main] \in {"swap", "exec", "restore", "moveIn", "moveBack"} => old' = running
      /\ \/ exe' = running
         \/ step'[Main] \in {"exec", "restore", "moveIn", "moveBack"}
         \/ step'[Main] = "idle" /\ old' = running /\ (platform = "windows" \/ rollback' = "failed")
  <2>1. /\ step[Main] \in {"swap", "exec", "restore", "moveIn", "moveBack"} => old = running
        /\ exe = running \/ step[Main] \in {"idle", "exec", "restore", "moveIn", "moveBack"}
    BY <1>1 DEF StartInv, BootInv
  <2>2. /\ step[Main] \in {"exec", "restore"} => platform = "unix"
        /\ step[Main] \in {"moveIn", "moveBack"} => platform = "windows"
    BY <1>2 DEF StartInv, FilesInv, Sides
  <2> USE <1>2, <1>3, <2>1
  <2>4. CASE Check(Main) \/ Stage(Main) \/ Write(Main) \/ DropOld(Main)
    BY <2>4 DEF Check, Stage, Write, DropOld, GiveUp, Goto, Return, diskVars
  <2>5. CASE Backup(Main)
    BY <2>5 DEF Backup, GiveUp, Goto, Return
  <2>6. CASE Swap(Main)
    BY <2>6 DEF Swap, GiveUp, Goto, Return
  <2>7. CASE ExecFails(Main)
    BY <2>7 DEF ExecFails, Goto, diskVars
  <2>8. CASE Restore(Main)
    BY <2>8 DEF Restore, Return
  <2>9. CASE MoveAside(Main)
    BY <2>9 DEF MoveAside, GiveUp, Goto, Return
  <2>10. CASE MoveIn(Main)
    BY <2>2, <2>10 DEF MoveIn, Goto, Return
  <2>11. CASE MoveBack(Main)
    BY <2>2, <2>11 DEF MoveBack, Return
  <2> QED
    BY <1>1, <2>4, <2>5, <2>6, <2>7, <2>8, <2>9, <2>10, <2>11 DEF InstallStep
<1> QED
  BY <1>4, <1>5 DEF Installing, BootInv

LEMMA NextKeepsStart ==
    ASSUME StartInv, [Next]_vars
    PROVE  StartInv' /\ StepKept
<1> USE DEF StartInv, StepKept
<1>0. Boot \in Selectors \cup {Boot} /\ Main \in Installers
  BY StartupAssumption
<1>1. CASE UNCHANGED vars
  <2>1. FilesInv' /\ EnrollInv' /\ BackupKept /\ IdentityKept
    BY <1>1, OthersKeepFiles, StartOrStopKeepsEnroll DEF vars
  <2> QED
    BY <1>1, <2>1
       DEF vars, serverVars, busVars, ghostVars, enrollVars, updateVars, installVars, diskVars,
           ProcessInv, BootInv, EnterLoop
<1>2. CASE Publish /\ UNCHANGED <<enrollVars, phase, serverVars, busVars, ghostVars>>
  <2>1. FilesInv' /\ EnrollInv' /\ BackupKept /\ IdentityKept
    BY <1>2, OthersKeepFiles, StartOrStopKeepsEnroll
  <2> QED
    BY <1>2, <2>1
       DEF Publish, serverVars, busVars, ghostVars, enrollVars, installVars, diskVars,
           ProcessInv, BootInv, EnterLoop
<1>3. ASSUME NEW p \in Pids, Start(p) PROVE StartInv' /\ StepKept
  <2>1. FilesInv' /\ EnrollInv' /\ BackupKept /\ IdentityKept
    BY <1>3, LaunchOrDieKeepsFiles, StartOrStopKeepsEnroll DEF Start
  <2> QED
    BY <1>3, <2>1
       DEF Start, Launch, EnrollStart, serverVars, busVars, ghostVars, diskVars, ProcessInv,
           BootInv, EnterLoop
<1>4. CASE Enrolling
  <2>1. EnrollInv' /\ IdentityKept
    BY <1>4, EnrollStepKeeps DEF Enrolling
  <2>2. enroll' # "off"
    BY <1>4 DEF Enrolling, EnrollStep, Load, Register, RegisterFails, OpenTmp, WriteTmp,
                RenameTmp, RemoveTmp
  <2>3. CASE enroll' = "done"
    <3>1. Request(Main, Boot) /\ phase' = "update" /\ phase = "enroll"
      BY <1>4, <2>3 DEF Enrolling
    <3>2. FilesInv' /\ BackupKept
      BY <1>0, <3>1, RequestKeepsFiles
    <3>3. step \in [Installers -> {"idle", "check", "stage", "write", "dropOld", "backup",
                                   "swap", "exec", "restore", "moveIn", "moveBack"}]
      BY DEF FilesInv, UpdateTypeOK
    <3> QED
      BY <1>0, <1>4, <2>1, <2>3, <3>1, <3>2, <3>3
         DEF Enrolling, Request, serverVars, busVars, ghostVars, diskVars, ProcessInv, BootInv,
             EnterLoop
  <2>4. CASE enroll' # "done"
    <3>1. FilesInv' /\ BackupKept
      BY <1>4, <2>4, OthersKeepFiles DEF Enrolling
    <3> QED
      BY <1>4, <2>1, <2>2, <2>4, <3>1
         DEF Enrolling, updateVars, installVars, diskVars, serverVars, busVars, ghostVars,
             ProcessInv, BootInv, EnterLoop
  <2> QED
    BY <2>3, <2>4
<1>5. CASE Crash \/ ExitUnenrolled
  <2>0. Ends /\ crashes' \in 0..MaxCrashes
    BY <1>5, StartupAssumption DEF Crash, ExitUnenrolled, ProcessInv
  <2>1. FilesInv' /\ EnrollInv' /\ BackupKept /\ IdentityKept
    BY <2>0, LaunchOrDieKeepsFiles, StartOrStopKeepsEnroll DEF Ends
  <2> QED
    BY <2>0, <2>1
       DEF Ends, EnrollStop, Die, serverVars, ProcessInv, BootInv, EnterLoop
<1>6. CASE EnterLoop
  <2>1. FilesInv' /\ EnrollInv' /\ BackupKept /\ IdentityKept
    BY <1>6, OthersKeepFiles, StartOrStopKeepsEnroll DEF EnterLoop
  <2>2. exe = running \/ (old = running /\ (platform = "windows" \/ rollback = "failed"))
    BY <1>6 DEF EnterLoop, BootInv
  <2> QED
    BY <1>6, <2>1, <2>2
       DEF EnterLoop, serverVars, busVars, ghostVars, enrollVars, ProcessInv, BootInv
<1>7. ASSUME NEW t \in Installers, Installing(t) PROVE StartInv' /\ StepKept
  <2>1. FilesInv' /\ EnrollInv' /\ BackupKept /\ IdentityKept
    BY <1>7, InstallKeepsFiles, StartOrStopKeepsEnroll DEF Installing
  <2>2. BootInv'
    BY <1>7, MainKeepsBoot
  <2> QED
    BY <1>7, <2>1, <2>2
       DEF Installing, serverVars, busVars, ghostVars, enrollVars, ProcessInv, EnterLoop
<1>8. ASSUME NEW t \in Installers, Exec(t) PROVE StartInv' /\ StepKept
  <2>1. pid \in Pids /\ want[t] \in Selectors \cup {Boot}
    BY DEF EnrollInv, EnrollTypeOK, FilesInv, UpdateTypeOK
  <2>2. FilesInv' /\ EnrollInv' /\ BackupKept /\ IdentityKept
    BY <1>8, <2>1, LaunchOrDieKeepsFiles, StartOrStopKeepsEnroll DEF Exec
  <2> QED
    BY <1>8, <2>1, <2>2
       DEF Exec, Launch, EnrollStart, serverVars, diskVars, ProcessInv, BootInv, EnterLoop
<1>9. ASSUME NEW t \in Installers, Acknowledge(t) PROVE StartInv' /\ StepKept
  <2>1. FilesInv' /\ EnrollInv' /\ BackupKept /\ IdentityKept
    BY <1>9, OthersKeepFiles, StartOrStopKeepsEnroll DEF Acknowledge
  <2> QED
    BY <1>9, <2>1
       DEF Acknowledge, updateVars, installVars, diskVars, enrollVars, ghostVars, ProcessInv,
           BootInv, EnterLoop
<1>10. ASSUME NEW t \in Installers, NEW s \in Selectors, Deliver(t, s) PROVE StartInv' /\ StepKept
  <2>1. EnrollInv' /\ IdentityKept
    BY <1>10, StartOrStopKeepsEnroll DEF Deliver
  <2>2. FilesInv' /\ BackupKept
    BY <1>10, RequestKeepsFiles, OthersKeepFiles DEF Deliver
  <2> QED
    BY <1>10, <2>1, <2>2
       DEF Deliver, enrollVars, serverVars, ghostVars, ProcessInv, BootInv, EnterLoop
<1>11. ASSUME NEW s \in Selectors, Ask(s) PROVE StartInv' /\ StepKept
  <2>1. FilesInv' /\ EnrollInv' /\ BackupKept /\ IdentityKept
    BY <1>11, OthersKeepFiles, StartOrStopKeepsEnroll DEF Ask
  <2> QED
    BY <1>11, <2>1
       DEF Ask, updateVars, installVars, diskVars, enrollVars, busVars, ghostVars, ProcessInv,
           BootInv, EnterLoop
<1> QED
  BY <1>1, <1>2, <1>3, <1>4, <1>5, <1>6, <1>7, <1>8, <1>9, <1>10, <1>11
     DEF Next

(***************************************************************************)
(* The theorems.                                                           *)
(***************************************************************************)

THEOREM StartInvariant == Spec => []StartInv
<1>1. Init => StartInv
  BY InitStart
<1>2. StartInv /\ [Next]_vars => StartInv'
  BY NextKeepsStart
<1> QED
  BY <1>1, <1>2, PTL DEF Spec

\* Every variable has its type; in particular no installer of a process that
\* is gone or has not enrolled yet is under way (main.rs).
THEOREM StartupTypeCorrect == Spec => []TypeOK
<1>1. StartInv => TypeOK
  BY DEF StartInv, FilesInv, EnrollInv, ProcessInv, TypeOK
<1> QED
  BY <1>1, StartInvariant, PTL

\* However many threads install at once, in whatever order their steps come,
\* and wherever a kill falls, there is a whole executable to start: on Unix at
\* its own path, on Windows at least as ".old" (install_verified_binary,
\* replace_with_rollback).
THEOREM ExecutableAlwaysThere == Spec => []NeverWithoutExecutable
<1>1. StartInv => NeverWithoutExecutable
  BY DEF StartInv, FilesInv, OutOfTheWay, UpdateTypeOK, Files, NeverWithoutExecutable,
         ExecutableKept
<1> QED
  BY <1>1, StartInvariant, PTL

\* The backup goes only when a verified release is staged whole, or back into
\* its place (install_verified_binary, restore_after_failed_exec).
THEOREM BackupNeverLost == Spec => BackupAvailable
<1>1. StartInv /\ [Next]_vars => [BackupKept]_vars
  BY NextKeepsStart DEF StepKept
<1> QED
  BY <1>1, StartInvariant, PTL DEF Spec, BackupAvailable

\* Credentials once saved stay, and the agent enrolls with no others
\* (resolve_token, save_credentials).
THEOREM IdentitySettled == Spec => IdentityNeverChanges
<1>1. StartInv /\ [Next]_vars => [IdentityKept]_vars
  BY NextKeepsStart DEF StepKept
<1> QED
  BY <1>1, StartInvariant, PTL DEF Spec, IdentityNeverChanges

\* Main gets to its loop only with the executable that is on disk, or, on Windows
\* and after a failed rollback, with the one kept in ".old" (check_and_update,
\* restore_after_failed_exec).
THEOREM LoopRunsTheFile == Spec => LoopRunsInstalled
<1>1. StartInv /\ [Next]_vars =>
         [EnterLoop => \/ exe = running
                       \/ old = running /\ (platform = "windows" \/ rollback = "failed")]_vars
  BY NextKeepsStart DEF StepKept
<1> QED
  BY <1>1, StartInvariant, PTL DEF Spec, LoopRunsInstalled

===============================================================================
