---------------------------- MODULE UploadSessions ----------------------------
(***************************************************************************)
(* Chunked uploads (file_control.rs): worker threads run upload_stream,    *)
(* upload_commit and upload_cancel for the server and share the session    *)
(* map, the tombstones of cancelled uploads, the stage files on disk and a *)
(* limited number of transfers.                                            *)
(*                                                                         *)
(* An inode stands for one creation of a stage file, and for the session   *)
(* and the "canceled" flag created with it; its content is the set of      *)
(* chunks written to it.  Chunk metadata is taken to be valid.             *)
(***************************************************************************)
EXTENDS Naturals, FiniteSets

CONSTANTS
    Ids,            \* upload ids
    ChunkCount,     \* chunks per upload
    Workers,        \* worker slots, MAX_WORKERS of them
    MaxStreams,     \* MAX_STREAMS
    MaxSessions,    \* MAX_UPLOAD_SESSIONS
    MaxInodes,      \* bound: how many stage files are ever created
    MaxCrashes,     \* bound: how often the agent dies
    SlowTransfers   \* whether UPLOAD_IDLE_TIMEOUT may pass during a transfer

ASSUME UploadAssumption ==
    /\ IsFiniteSet(Ids)
    /\ ChunkCount \in Nat \ {0}
    /\ MaxStreams \in Nat \ {0}
    /\ MaxSessions \in Nat \ {0}
    /\ MaxInodes \in Nat
    /\ MaxCrashes \in Nat
    /\ SlowTransfers \in BOOLEAN

Chunks == 0..(ChunkCount - 1)
Inodes == 1..MaxInodes
None == 0                  \* no inode

VARIABLES
    request,    \* server: chunks it has asked for and no worker has started
    intent,     \* server: what it wants of an upload
    confirmed,  \* server: chunks it knows to be stored
    sessions,   \* uploads(): id -> inode of the session, None when there is none
    received,   \* UploadState.received
    idle,       \* sessions whose updated_at is UPLOAD_IDLE_TIMEOUT ago
    tombstone,  \* canceled_uploads()
    flagged,    \* inodes whose "canceled" flag is set
    stage,      \* disk: the file at upload_part_path
    target,     \* disk: the file at the destination
    content,    \* disk: chunks written to an inode
    inodes,     \* disk: how many stage files were created
    pc, job, arc, fd,  \* a worker: step, <<id, chunk>>, session inode, open file
    crashes,
    orphaned    \* ghost: inodes left as a stage file when their session went

serverVars  == <<request, intent, confirmed>>
sessionVars == <<sessions, received, idle, tombstone, flagged>>
diskVars    == <<stage, target, content, inodes>>
workerVars  == <<pc, job, arc, fd>>
ghostVars == <<crashes, orphaned>>
vars == <<serverVars, sessionVars, diskVars, workerVars, ghostVars>>

Steps == {"free", "check1", "lookup", "check2", "stream", "spin", "check3",
          "open", "copy", "record"}

NoJob == <<>>

TypeOK ==
    /\ request \subseteq Ids \X Chunks
    /\ intent \in [Ids -> {"upload", "commit", "cancel", "committed", "canceled"}]
    /\ confirmed \in [Ids -> SUBSET Chunks]
    /\ sessions \in [Ids -> Inodes \cup {None}]
    /\ Cardinality({id \in Ids : sessions[id] # None}) <= MaxSessions
    /\ received \in [Ids -> SUBSET Chunks]
    /\ idle \subseteq Ids
    /\ tombstone \subseteq Ids
    /\ flagged \subseteq Inodes
    /\ stage \in [Ids -> Inodes \cup {None}]
    /\ target \in [Ids -> Inodes \cup {None}]
    /\ content \in [Inodes -> SUBSET Chunks]
    /\ inodes \in 0..MaxInodes
    /\ pc \in [Workers -> Steps]
    /\ job \in [Workers -> (Ids \X Chunks) \cup {NoJob}]
    /\ \A w \in Workers : pc[w] # "free" => job[w] # NoJob
    /\ arc \in [Workers -> Inodes \cup {None}]
    /\ fd \in [Workers -> Inodes \cup {None}]
    /\ Cardinality({w \in Workers : pc[w] # "free"}) <= MaxStreams
    /\ crashes \in 0..MaxCrashes
    /\ orphaned \subseteq Inodes

Init ==
    /\ request = {}
    /\ intent = [id \in Ids |-> "upload"]
    /\ confirmed = [id \in Ids |-> {}]
    /\ sessions = [id \in Ids |-> None]
    /\ received = [id \in Ids |-> {}]
    /\ idle = {}
    /\ tombstone = {}
    /\ flagged = {}
    /\ stage = [id \in Ids |-> None]
    /\ target = [id \in Ids |-> None]
    /\ content = [n \in Inodes |-> {}]
    /\ inodes = 0
    /\ pc = [w \in Workers |-> "free"]
    /\ job = [w \in Workers |-> NoJob]
    /\ arc = [w \in Workers |-> None]
    /\ fd = [w \in Workers |-> None]
    /\ crashes = 0
    /\ orphaned = {}

(***************************************************************************)
(* The server: it asks for chunks, again where it has no confirmation, and *)
(* for a commit once it has all of them; it may cancel instead.  Requests  *)
(* already sent are not called back.                                       *)
(***************************************************************************)
AskChunk(id, i) ==
    /\ intent[id] = "upload"
    /\ request' = request \cup {<<id, i>>}
    /\ UNCHANGED <<intent, confirmed, sessionVars, diskVars, workerVars, ghostVars>>

AskCommit(id) ==
    /\ intent[id] = "upload"
    /\ confirmed[id] = Chunks
    /\ intent' = [intent EXCEPT ![id] = "commit"]
    /\ UNCHANGED <<request, confirmed, sessionVars, diskVars, workerVars, ghostVars>>

AskCancel(id) ==
    /\ intent[id] = "upload"
    /\ intent' = [intent EXCEPT ![id] = "cancel"]
    /\ UNCHANGED <<request, confirmed, sessionVars, diskVars, workerVars, ghostVars>>

(***************************************************************************)
(* Time.  A session idles while no transfer of it is under way, or in      *)
(* spite of one; a tombstone may also go when the cap evicts it.           *)
(***************************************************************************)
Working(id) == {w \in Workers : pc[w] # "free" /\ job[w][1] = id}

SessionIdles(id) ==
    /\ sessions[id] # None
    /\ SlowTransfers \/ Working(id) = {}
    /\ idle' = idle \cup {id}
    /\ UNCHANGED <<sessions, received, tombstone, flagged, serverVars, diskVars,
                   workerVars, ghostVars>>

TombstoneExpires(id) ==
    /\ tombstone' = tombstone \ {id}
    /\ UNCHANGED <<sessions, received, idle, flagged, serverVars, diskVars,
                   workerVars, ghostVars>>

(***************************************************************************)
(* Pieces of the handlers.                                                 *)
(***************************************************************************)
Streaming == {w \in Workers : pc[w] # "free"}

At(w, step) == pc[w] = step

\* The handler returns: its guards give back the worker and the transfer, and
\* the chunk file of its own is removed.
Finish(w) ==
    /\ pc' = [pc EXCEPT ![w] = "free"]
    /\ job' = [job EXCEPT ![w] = NoJob]
    /\ arc' = [arc EXCEPT ![w] = None]
    /\ fd' = [fd EXCEPT ![w] = None]

GoTo(w, step) ==
    /\ pc' = [pc EXCEPT ![w] = step]
    /\ UNCHANGED <<job, arc, fd>>

FailOr(w, failed, step) == IF failed THEN Finish(w) ELSE GoTo(w, step)

\* prune_uploads, the first thing every handler does under the map's lock
Pruned(id) == IF id \in idle THEN None ELSE sessions[id]
Expired == {id \in idle : sessions[id] # None}
Live == {id \in Ids : Pruned(id) # None}

Room == Cardinality(Live) < MaxSessions

\* Removes the stage files of ids from files.  Where that fails the file stays:
\* prune_uploads and upload_stream do not look, upload_cancel tells the server.
RemoveStages(files, ids) ==
    \E kept \in SUBSET {x \in ids : files[x] # None} :
        /\ stage' = [x \in Ids |-> IF x \in ids \ kept THEN None ELSE files[x]]
        /\ orphaned' = {n \in orphaned \cup {files[x] : x \in kept} :
                           \E x \in Ids : stage'[x] = n}

\* The session map after the prune and after setting one entry.
SetSession(id, n) ==
    /\ sessions' = [x \in Ids |-> IF x = id THEN n ELSE Pruned(x)]
    /\ idle' = {}

(***************************************************************************)
(* upload_stream.                                                          *)
(***************************************************************************)
\* StreamGuard::acquire.  Mutant: one transfer too many.
StreamFreeOneMore == Cardinality(Streaming) <= MaxStreams
StreamFree == Cardinality(Streaming) < MaxStreams

\* spawn and StreamGuard::acquire find a worker and a transfer to spare...
StartUpload(w, id, i) ==
    /\ At(w, "free")
    /\ StreamFree
    /\ <<id, i>> \in request
    /\ request' = request \ {<<id, i>>}
    /\ pc' = [pc EXCEPT ![w] = "check1"]
    /\ job' = [job EXCEPT ![w] = <<id, i>>]
    /\ UNCHANGED <<arc, fd, intent, confirmed, sessionVars, diskVars, ghostVars>>

\* ...or the request is dropped.
DropUpload(id, i) ==
    /\ Streaming = Workers \/ ~StreamFree
    /\ <<id, i>> \in request
    /\ request' = request \ {<<id, i>>}
    /\ UNCHANGED <<intent, confirmed, sessionVars, diskVars, workerVars, ghostVars>>

Check1(w) ==
    /\ At(w, "check1")
    /\ FailOr(w, job[w][1] \in tombstone, "lookup")
    /\ UNCHANGED <<serverVars, sessionVars, diskVars, ghostVars>>

\* Chunk 0 of an upload without a session creates it, and its stage file.
Creates(w) == Pruned(job[w][1]) = None /\ job[w][2] = 0 /\ Room

\* Finds the session or creates it.
Lookup(w) ==
    LET id == job[w][1]
        old == Pruned(id)
        created == Creates(w)
        refused == old = None /\ ~created
        new == IF created THEN inodes + 1 ELSE old
    IN /\ At(w, "lookup")
       /\ created => inodes < MaxInodes
       /\ SetSession(id, new)
       /\ received' = IF created THEN [received EXCEPT ![id] = {}] ELSE received
       /\ flagged' = flagged \cup {sessions[x] : x \in Expired}
       /\ IF created
          THEN RemoveStages([stage EXCEPT ![id] = new], Expired \ {id})
          ELSE RemoveStages(stage, Expired)
       /\ inodes' = IF created THEN new ELSE inodes
       /\ IF refused
          THEN Finish(w)
          ELSE /\ pc' = [pc EXCEPT ![w] = "check2"]
               /\ arc' = [arc EXCEPT ![w] = new]
               /\ UNCHANGED <<job, fd>>
       /\ UNCHANGED <<serverVars, tombstone, target, content, crashes>>

\* Creating the stage file fails before an old one is removed, or after: then
\* the new one is not there, or is and stays.
CreateFail(w) ==
    LET id == job[w][1] IN
    /\ At(w, "lookup")
    /\ Creates(w)
    /\ SetSession(id, None)
    /\ flagged' = flagged \cup {sessions[x] : x \in Expired}
    /\ \/ /\ RemoveStages(stage, Expired)
          /\ inodes' = inodes
       \/ /\ inodes < MaxInodes
          /\ inodes' = inodes + 1
          /\ RemoveStages([stage EXCEPT ![id] = inodes + 1], Expired \cup {id})
    /\ Finish(w)
    /\ UNCHANGED <<serverVars, received, tombstone, target, content, crashes>>

\* Mutant: the handler fails without taking its new session back.
Check2KeepsSession(w) ==
    /\ At(w, "check2")
    /\ FailOr(w, job[w][1] \in tombstone, "stream")
    /\ UNCHANGED <<serverVars, sessionVars, diskVars, ghostVars>>

\* The session may have been created after a cancel looked for it.
Check2(w) ==
    LET id == job[w][1] IN
    /\ At(w, "check2")
    /\ FailOr(w, id \in tombstone, "stream")
    /\ IF id \in tombstone
       THEN /\ flagged' = flagged \cup {arc[w]}
            /\ sessions' = [sessions EXCEPT ![id] = None]
            /\ idle' = idle \ {id}
            /\ RemoveStages(stage, {id} \cap {x \in Ids : sessions[x] # None})
       ELSE UNCHANGED <<flagged, sessions, idle, stage, orphaned>>
    /\ UNCHANGED <<serverVars, received, tombstone, target, content, inodes, crashes>>

\* The body arrives in a chunk file of this worker; the last write saw no flag.
StreamDone(w) ==
    /\ At(w, "stream")
    /\ arc[w] \notin flagged
    /\ GoTo(w, "check3")
    /\ UNCHANGED <<serverVars, sessionVars, diskVars, ghostVars>>

\* The transfer fails: connection, HTTP status, length or disk.
StreamFail(w) ==
    /\ At(w, "stream")
    /\ Finish(w)
    /\ UNCHANGED <<serverVars, sessionVars, diskVars, ghostVars>>

\* CancelWriter::write answers Interrupted, which io::copy's write_all retries
\* at once: the flag is never cleared, so the worker never leaves this step.
StreamInterrupted(w) ==
    /\ At(w, "stream")
    /\ arc[w] \in flagged
    /\ GoTo(w, "spin")
    /\ UNCHANGED <<serverVars, sessionVars, diskVars, ghostVars>>

Check3(w) ==
    /\ At(w, "check3")
    /\ FailOr(w, job[w][1] \in tombstone, "open")
    /\ UNCHANGED <<serverVars, sessionVars, diskVars, ghostVars>>

\* Opens the stage file by its path.
OpenStage(w) ==
    LET n == stage[job[w][1]] IN
    /\ At(w, "open")
    /\ IF n = None
       THEN Finish(w)
       ELSE /\ fd' = [fd EXCEPT ![w] = n]
            /\ pc' = [pc EXCEPT ![w] = "copy"]
            /\ UNCHANGED <<job, arc>>
    /\ UNCHANGED <<serverVars, sessionVars, diskVars, ghostVars>>

\* io::copy into the open file and sync_data
CopyChunk(w) ==
    /\ At(w, "copy")
    /\ content' = [content EXCEPT ![fd[w]] = @ \cup {job[w][2]}]
    /\ GoTo(w, "record")
    /\ UNCHANGED <<serverVars, sessionVars, stage, target, inodes, ghostVars>>

\* Mutant: a short copy is not noticed.
CopyFailUnnoticed(w) ==
    /\ At(w, "copy")
    /\ GoTo(w, "record")
    /\ UNCHANGED <<serverVars, sessionVars, diskVars, ghostVars>>

\* The copy is cut short, or sync_data or removing the chunk file fails after it.
CopyFail(w) ==
    /\ At(w, "copy")
    /\ Finish(w)
    /\ \/ content' = [content EXCEPT ![fd[w]] = @ \cup {job[w][2]}]
       \/ UNCHANGED content
    /\ UNCHANGED <<serverVars, sessionVars, stage, target, inodes, ghostVars>>

\* state.received.insert and the result, which may not reach the server
Record(w) ==
    LET id == job[w][1]
        i == job[w][2]
    IN /\ At(w, "record")
       /\ Finish(w)
       /\ IF sessions[id] = None
          THEN /\ RemoveStages(stage, {id})
               /\ UNCHANGED <<received, idle, confirmed>>
          ELSE /\ received' = [received EXCEPT ![id] = @ \cup {i}]
               /\ idle' = idle \ {id}
               /\ \/ confirmed' = [confirmed EXCEPT ![id] = @ \cup {i}]
                  \/ UNCHANGED confirmed
               /\ UNCHANGED <<stage, orphaned>>
       /\ UNCHANGED <<request, intent, sessions, tombstone, flagged, target, content,
                      inodes, crashes>>

(***************************************************************************)
(* upload_commit holds the map's lock throughout.                          *)
(***************************************************************************)
\* A file is as long as the last chunk written to it.
LongEnough(n) == ChunkCount - 1 \in content[n]

\* Mutant: the length of the stage file is taken for completeness.
CommittableByLength(id) ==
    /\ Pruned(id) # None
    /\ stage[id] # None
    /\ LongEnough(stage[id])

Committable(id) ==
    /\ Pruned(id) # None
    /\ received[id] = Chunks
    /\ stage[id] # None
    /\ LongEnough(stage[id])

\* If sync_parent fails after the rename the server is told that the commit
\* failed, and the state of the agent is the same.
Commit(id) ==
    /\ intent[id] = "commit"
    /\ Committable(id)
    /\ SetSession(id, None)
    /\ target' = [target EXCEPT ![id] = stage[id]]
    /\ RemoveStages([stage EXCEPT ![id] = None], Expired)
    /\ flagged' = flagged \cup {sessions[x] : x \in Expired}
    /\ tombstone' = tombstone \ {id}
    /\ intent' = [intent EXCEPT ![id] = "committed"]
    /\ UNCHANGED <<request, confirmed, received, content, inodes, workerVars, crashes>>

\* The commit is refused, or a system call before the rename fails, and the
\* server goes on with the upload.
CommitRefused(id) ==
    /\ intent[id] = "commit"
    /\ SetSession(id, Pruned(id))
    /\ RemoveStages(stage, Expired)
    /\ flagged' = flagged \cup {sessions[x] : x \in Expired}
    /\ intent' = [intent EXCEPT ![id] = "upload"]
    /\ UNCHANGED <<request, confirmed, received, tombstone, target, content, inodes,
                   workerVars, crashes>>

(***************************************************************************)
(* upload_cancel, under the map's lock too; the request may name the path, *)
(* and may come again, as after an error.                                  *)
(***************************************************************************)
Cancel(id) ==
    /\ intent[id] \in {"cancel", "canceled"}
    /\ intent' = [intent EXCEPT ![id] = "canceled"]
    /\ SetSession(id, None)
    /\ tombstone' = tombstone \cup {id}
    /\ flagged' = flagged \cup {sessions[x] : x \in Expired}
                          \cup (IF Pruned(id) = None THEN {} ELSE {sessions[id]})
    /\ \E named \in BOOLEAN :
          RemoveStages(stage, Expired \cup (IF Pruned(id) # None \/ named THEN {id} ELSE {}))
    /\ UNCHANGED <<request, confirmed, received, target, content, inodes, workerVars,
                   crashes>>

(***************************************************************************)
(* The agent dies: the files stay.                                         *)
(***************************************************************************)
Crash ==
    /\ crashes < MaxCrashes
    /\ crashes' = crashes + 1
    /\ orphaned' = orphaned \cup ({stage[id] : id \in Ids} \ {None})
    /\ sessions' = [id \in Ids |-> None]
    /\ received' = [id \in Ids |-> {}]
    /\ idle' = {}
    /\ tombstone' = {}
    /\ pc' = [w \in Workers |-> "free"]
    /\ job' = [w \in Workers |-> NoJob]
    /\ arc' = [w \in Workers |-> None]
    /\ fd' = [w \in Workers |-> None]
    /\ UNCHANGED <<flagged, serverVars, diskVars>>

Server ==
    \E id \in Ids :
        \/ AskCommit(id)
        \/ AskCancel(id)
        \/ \E i \in Chunks : AskChunk(id, i)

Time == \E id \in Ids : SessionIdles(id) \/ TombstoneExpires(id)

Control == \E id \in Ids : Commit(id) \/ CommitRefused(id) \/ Cancel(id)

Begin(w) == \E id \in Ids, i \in Chunks : StartUpload(w, id, i)
Drop == \E id \in Ids, i \in Chunks : DropUpload(id, i)

\* The steps of a transfer under way that need no luck.
Advance(w) ==
    \/ Check1(w)
    \/ Lookup(w)
    \/ Check2(w)
    \/ StreamDone(w)
    \/ StreamInterrupted(w)
    \/ Check3(w)
    \/ OpenStage(w)
    \/ CopyChunk(w)
    \/ Record(w)

Mishap(w) == CreateFail(w) \/ StreamFail(w) \/ CopyFail(w)

Next ==
    \/ Server
    \/ Time
    \/ Control
    \/ Drop
    \/ \E w \in Workers : Begin(w) \/ Advance(w) \/ Mishap(w)
    \/ Crash

Spec == Init /\ [][Next]_vars

(***************************************************************************)
(* Fairness: the operating system runs every thread, and a transfer ends   *)
(* within STREAM_TIMEOUT one way or another.  Nothing is assumed of the    *)
(* server, of time or of which way a transfer ends.                        *)
(***************************************************************************)
FairSpec == Spec /\ \A w \in Workers : WF_vars(Advance(w))

(***************************************************************************)
(* Properties.                                                             *)
(***************************************************************************)

\* A committed file is whole: every chunk was written to the file that
\* upload_commit renamed over the destination, not to an earlier stage file
\* of the same upload id.
CommitComplete == \A id \in Ids : target[id] # None => content[target[id]] = Chunks

\* Until the upload is committed or cancelled, what its session says it received
\* is in its stage file, and the stage file is the one created with the session,
\* whatever other uploads, late transfers and restarts did to files of the same path.
ReceivedStored ==
    \A id \in Ids :
        sessions[id] # None /\ intent[id] \notin {"committed", "canceled"} =>
            /\ received[id] \subseteq content[sessions[id]]
            /\ stage[id] = sessions[id]

Idle(id) == \A w \in Working(id) : pc[w] = "spin"

\* While a cancel is remembered and no handler of that upload is left, there is
\* no session, whichever step of upload_stream the cancel overtook, and no stage
\* file but one that was lost sight of: left by a restart, by a creation that
\* failed halfway, or by a removal that failed when its session went.
CancelLeavesNothing ==
    \A id \in Ids :
        id \in tombstone /\ Idle(id) =>
            /\ sessions[id] = None
            /\ stage[id] # None => stage[id] \in orphaned

\* Every transfer gives back its worker and its stream slot.
TransferEnds == \A w \in Workers : pc[w] = "stream" ~> pc[w] = "free"
==============================================================================
