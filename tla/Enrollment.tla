----------------------------- MODULE Enrollment -----------------------------
(***************************************************************************)
(* Auto-discovery enrollment (autodiscovery.rs): at every start the agent  *)
(* loads its node credentials from a file beside the executable; where     *)
(* there is none it registers with the shared key and saves what it got,   *)
(* through a stage file named after its process id.                        *)
(*                                                                         *)
(* Credentials are told apart by the registration that yielded them.       *)
(***************************************************************************)
EXTENDS AgentFiles

CONSTANTS
    Pids,      \* process ids the system hands out
    MaxNodes   \* bound: registrations are counted, and told apart, up to here

ASSUME EnrollmentAssumption ==
    MaxNodes \in Nat \ {0}

VARIABLES
    enroll,     \* how far resolve_token is
    token,      \* config.token, or the registration answer on its way to disk
    pid,        \* std::process::id()
    cred,       \* disk: auto-discovery.json
    tmp,        \* disk: .auto-discovery-<pid>.tmp
    registered  \* server: nodes created with the shared key

enrollVars == <<enroll, token, pid, cred, tmp, registered>>

Nodes == 1..MaxNodes

EnrollTypeOK ==
    /\ enroll \in {"off", "load", "register", "stage", "write", "rename",
                   "cleanup", "failed", "done"}
    /\ token \in Nodes \cup {Absent}
    /\ pid \in Pids
    /\ cred \in Nodes \cup {Absent}
    /\ tmp \in [Pids -> Nodes \cup {Absent, Torn}]
    /\ registered \in 0..MaxNodes

EnrollInit ==
    /\ enroll = "off"
    /\ token = Absent
    /\ pid \in Pids
    /\ cred = Absent
    /\ tmp = [p \in Pids |-> Absent]
    /\ registered = 0

\* Mutant: the file is looked at only to see whether it can be read, and the
\* agent registers at every start.
LoadRegistersAgain ==
    /\ enroll = "load"
    /\ enroll' = "register"
    /\ UNCHANGED <<token, pid, cred, tmp, registered>>

\* Credentials found are used; a file that is not there leads to a registration.
Load ==
    /\ enroll = "load"
    /\ enroll' = IF cred = Absent THEN "register" ELSE "done"
    /\ token' = cred
    /\ UNCHANGED <<pid, cred, tmp, registered>>

\* The server creates a node for the key; its answer may be lost.
Register ==
    /\ enroll = "register"
    /\ registered' = IF registered < MaxNodes THEN registered + 1 ELSE registered
    /\ \/ /\ enroll' = "stage"
          /\ token' = registered'
       \/ /\ enroll' = "failed"
          /\ UNCHANGED token
    /\ UNCHANGED <<pid, cred, tmp>>

\* The server cannot be reached, or refuses the key.
RegisterFails ==
    /\ enroll = "register"
    /\ enroll' = "failed"
    /\ UNCHANGED <<token, pid, cred, tmp, registered>>

\* create_new: a stage file left by an earlier process with this id is an error.
OpenTmp ==
    /\ enroll = "stage"
    /\ IF tmp[pid] = Absent
       THEN /\ tmp' = [tmp EXCEPT ![pid] = Torn]
            /\ enroll' = "write"
       ELSE /\ enroll' = "failed"
            /\ UNCHANGED tmp
    /\ UNCHANGED <<token, pid, cred, registered>>

\* write_all and sync_all, either of which may fail.
WriteTmp ==
    /\ enroll = "write"
    /\ \/ /\ tmp' = [tmp EXCEPT ![pid] = token]
          /\ enroll' = "rename"
       \/ /\ enroll' = "cleanup"
          /\ UNCHANGED tmp
    /\ UNCHANGED <<token, pid, cred, registered>>

RenameTmp ==
    /\ enroll = "rename"
    /\ cred' = tmp[pid]
    /\ tmp' = [tmp EXCEPT ![pid] = Absent]
    /\ enroll' = "done"
    /\ UNCHANGED <<token, pid, registered>>

\* A failed write or rename removes the stage file; if that fails as well it
\* stays, and what is in it does not matter, since nobody ever reads it.
RemoveTmp ==
    /\ enroll \in {"cleanup", "rename"}
    /\ \E left \in {Absent, Torn} : tmp' = [tmp EXCEPT ![pid] = left]
    /\ enroll' = "failed"
    /\ UNCHANGED <<token, pid, cred, registered>>

EnrollStep ==
    \/ Load \/ Register \/ RegisterFails
    \/ OpenTmp \/ WriteTmp \/ RenameTmp \/ RemoveTmp

\* main reaches resolve_token in process p; memory holds nothing yet.
EnrollStart(p) ==
    /\ enroll' = "load"
    /\ token' = Absent
    /\ pid' = p
    /\ UNCHANGED <<cred, tmp, registered>>

\* The process is gone; what is on disk, and at the server, stays.
EnrollStop ==
    /\ enroll' = "off"
    /\ token' = Absent
    /\ UNCHANGED <<pid, cred, tmp, registered>>

\* The agent can never save credentials under this process id: the stage file
\* of an earlier process that had it, and died or could not remove it, is in the way.
LockedOut ==
    /\ cred = Absent
    /\ tmp[pid] # Absent
    /\ enroll \notin {"write", "rename", "cleanup"}

(***************************************************************************)
(* What the component promises.                                            *)
(***************************************************************************)

\* Credentials, once saved, are those the node keeps: no later start, lost
\* answer or crash replaces them, and the agent works with no others.
IdentityKept ==
    /\ cred # Absent => cred' = cred
    /\ enroll' = "done" => token' = cred' /\ cred' # Absent

=============================================================================
