------------------------ MODULE UploadSessions_proofs ------------------------
(***************************************************************************)
(* Theorems about chunked uploads, for any ids, workers, chunks, sessions  *)
(* and kills.                                                              *)
(*                                                                         *)
(* That a committed file is whole takes an assumption: no session times    *)
(* out while a transfer of it is under way (the run upload_prune has what  *)
(* happens otherwise).  That a cancel leaves nothing takes none.           *)
(***************************************************************************)
EXTENDS UploadSessions, FiniteSetTheorems, TLAPS

\* UPLOAD_IDLE_TIMEOUT does not pass during a transfer.
NoSlowTransfer == SlowTransfers = FALSE

\* The steps of a worker that has its session.
Past == {"check2", "stream", "spin", "check3", "open", "copy", "record"}

Held == {id \in Ids : sessions[id] # None}

Typed ==
    /\ request \subseteq Ids \X Chunks
    /\ intent \in [Ids -> {"upload", "commit", "cancel", "committed", "canceled"}]
    /\ confirmed \in [Ids -> SUBSET Chunks]
    /\ sessions \in [Ids -> Inodes \cup {None}]
    /\ received \in [Ids -> SUBSET Chunks]
    /\ idle \subseteq Ids
    /\ tombstone \subseteq Ids
    /\ flagged \subseteq Inodes
    /\ stage \in [Ids -> Inodes \cup {None}]
    /\ target \in [Ids -> Inodes \cup {None}]
    /\ content \in [Inodes -> SUBSET Chunks]
    /\ inodes \in 0..MaxInodes
    /\ pc \in [Workers -> Steps]
    /\ job \in [Workers -> (Ids \X Chunks) \cup {NoJob}]
    /\ arc \in [Workers -> Inodes \cup {None}]
    /\ fd \in [Workers -> Inodes \cup {None}]
    /\ crashes \in 0..MaxCrashes
    /\ orphaned \subseteq Inodes

\* A worker that is busy has a chunk, and past lookup a session's inode.
Equipped ==
    \A w \in Workers :
        /\ pc[w] # "free" => job[w] \in Ids \X Chunks
        /\ pc[w] \in Past => arc[w] \in Inodes

Counted ==
    /\ IsFiniteSet(Streaming)
    /\ Cardinality(Streaming) <= MaxStreams
    /\ Cardinality(Held) <= MaxSessions

TypeInv == Typed /\ Equipped /\ Counted

\* A stage file without a session is accounted for; and while a cancel is
\* remembered, a session is one that a worker is about to take back.
Swept(id) ==
    /\ stage[id] # None /\ sessions[id] = None => stage[id] \in orphaned
    /\ id \in tombstone /\ sessions[id] # None =>
          \E w \in Workers : pc[w] = "check2" /\ job[w][1] = id

CancelInv == \A id \in Ids : Swept(id)

\* An upload the agent has not yet committed or cancelled.
Unsettled(id) == intent[id] \notin {"committed", "canceled"}

\* Until then, a worker past lookup works on the session there is, which does
\* not expire, and on the file of that session.
Stored(id) ==
    /\ id \notin tombstone
    /\ sessions[id] # None =>
          received[id] \subseteq content[sessions[id]] /\ stage[id] = sessions[id]
    /\ \A w \in Workers : pc[w] \in Past /\ job[w][1] = id =>
          /\ sessions[id] # None /\ id \notin idle
          /\ pc[w] \in {"copy", "record"} => fd[w] = sessions[id]
          /\ pc[w] = "record" => job[w][2] \in content[sessions[id]]

StoreInv == \A id \in Ids : Unsettled(id) => Stored(id)

\* The stage file of x is the one there was.
Untouched(x) ==
    /\ stage'[x] = stage[x]
    /\ stage[x] \in orphaned => stage'[x] \in orphaned'

\* The same, unless its session expired: then it is gone or known to have stayed.
StageSwept(x) ==
    IF x \in Expired THEN stage'[x] = None \/ stage'[x] \in orphaned' ELSE Untouched(x)

(***************************************************************************)
(* Types and counts, and the files that stay.                              *)
(***************************************************************************)

LEMMA InodesFacts == None \notin Inodes /\ Inodes \subseteq Nat
  BY UploadAssumption DEF None, Inodes

LEMMA TypeInvImpliesTypeOK == TypeInv => TypeOK
<1>1. NoJob \notin Ids \X Chunks
  BY DEF NoJob
<1> QED
  BY <1>1 DEF TypeInv, Typed, Equipped, Counted, Streaming, Held, TypeOK

LEMMA InitTypeInv == Init => TypeInv
<1> SUFFICES ASSUME Init PROVE TypeInv
  OBVIOUS
<1>1. Typed /\ Equipped
  BY UploadAssumption DEF Init, Typed, Equipped, Steps, Past
<1>2. Streaming = {} /\ Held = {}
  BY DEF Init, Streaming, Held
<1>3. Counted
  BY <1>2, FS_EmptySet, UploadAssumption DEF Counted
<1> QED
  BY <1>1, <1>3 DEF TypeInv

LEMMA FewerHeld ==
    ASSUME Counted, Held' \subseteq Held
    PROVE  Cardinality(Held') <= MaxSessions
<1>1. IsFiniteSet(Held)
  <2>1. Held \subseteq Ids
    BY DEF Held
  <2> QED
    BY <2>1, FS_Subset, UploadAssumption
<1>2. /\ Cardinality(Held') \in Nat /\ Cardinality(Held) \in Nat
      /\ Cardinality(Held') <= Cardinality(Held)
  BY <1>1, FS_Subset, FS_CardinalityType
<1> QED
  BY <1>2, UploadAssumption DEF Counted

LEMMA FewerStreaming ==
    ASSUME Counted, Streaming' \subseteq Streaming
    PROVE  IsFiniteSet(Streaming') /\ Cardinality(Streaming') <= MaxStreams
<1>1. /\ IsFiniteSet(Streaming')
      /\ Cardinality(Streaming') \in Nat /\ Cardinality(Streaming) \in Nat
      /\ Cardinality(Streaming') <= Cardinality(Streaming)
  BY FS_Subset, FS_CardinalityType DEF Counted
<1> QED
  BY <1>1, UploadAssumption DEF Counted

\* A worker that returns, or goes on, takes no other's place.
LEMMA WorkerMoves ==
    ASSUME TypeInv, NEW w \in Workers, pc[w] # "free",
           NEW s \in Steps, GoTo(w, s) \/ (s = "free" /\ Finish(w))
    PROVE  /\ pc' \in [Workers -> Steps] /\ pc'[w] = s
           /\ job' \in [Workers -> (Ids \X Chunks) \cup {NoJob}]
           /\ s # "free" => job' = job /\ arc' = arc
           /\ arc' \in [Workers -> Inodes \cup {None}]
           /\ fd' \in [Workers -> Inodes \cup {None}]
           /\ \A u \in Workers : u # w => 
                 pc'[u] = pc[u] /\ job'[u] = job[u] /\ arc'[u] = arc[u] /\ fd'[u] = fd[u]
           /\ Streaming' \subseteq Streaming
  BY DEF TypeInv, Typed, GoTo, Finish, Streaming, Steps

\* What a prune and one entry leave of the session map.
LEMMA SetSessionFacts ==
    ASSUME Typed, NEW id \in Ids, NEW n \in Inodes \cup {None}, SetSession(id, n)
    PROVE  /\ sessions' \in [Ids -> Inodes \cup {None}]
           /\ idle' \subseteq Ids
           /\ n = None \/ n = Pruned(id) => Held' \subseteq Held
           /\ n # None => Held' = Live \cup {id}
           /\ {sessions[x] : x \in Expired} \subseteq Inodes
  BY InodesFacts DEF Typed, SetSession, Pruned, Held, Live, Expired

\* A stage file that was to go is gone, or is known to have stayed.
LEMMA RemoveStagesFacts ==
    ASSUME Typed, NEW files \in [Ids -> Inodes \cup {None}], NEW ids, RemoveStages(files, ids)
    PROVE  /\ stage' \in [Ids -> Inodes \cup {None}] /\ orphaned' \subseteq Inodes
           /\ \A x \in Ids : x \notin ids => stage'[x] = files[x]
           /\ \A x \in Ids : x \in ids => stage'[x] = None \/ stage'[x] \in orphaned'
           /\ \A x \in Ids : stage'[x] \in orphaned => stage'[x] \in orphaned'
<1>1. PICK kept \in SUBSET {x \in ids : files[x] # None} :
          /\ stage' = [x \in Ids |-> IF x \in ids \ kept THEN None ELSE files[x]]
          /\ orphaned' = {n \in orphaned \cup {files[x] : x \in kept} :
                             \E x \in Ids : stage'[x] = n}
  BY DEF RemoveStages
<1>2. stage' \in [Ids -> Inodes \cup {None}]
  BY <1>1
<1>3. orphaned' \subseteq Inodes
  <2> SUFFICES ASSUME NEW n \in orphaned' PROVE n \in Inodes
    OBVIOUS
  <2>1. PICK y \in Ids : stage'[y] = n
    BY <1>1
  <2>2. n \in orphaned \/ n # None
    BY <1>1
  <2> QED
    BY <1>2, <2>1, <2>2, InodesFacts DEF Typed
<1>4. ASSUME NEW x \in Ids, x \in ids PROVE stage'[x] = None \/ stage'[x] \in orphaned'
  BY <1>1, <1>4
<1> QED
  BY <1>1, <1>2, <1>3, <1>4

\* What Lookup does to the stage files.
LEMMA LookupStages ==
    ASSUME TypeInv, NEW w \in Workers, Lookup(w), NEW id \in Ids, id = job[w][1]
    PROVE  /\ stage' \in [Ids -> Inodes \cup {None}] /\ orphaned' \subseteq Inodes
           /\ Creates(w) => stage'[id] = inodes + 1
           /\ \A x \in Ids : (x = id => ~Creates(w)) => StageSwept(x)
<1>1. CASE Creates(w)
  <2>1. inodes + 1 \in Inodes \cup {None}
    BY <1>1, UploadAssumption DEF Lookup, TypeInv, Typed, Inodes
  <2> DEFINE files == [stage EXCEPT ![id] = inodes + 1]
  <2>2. RemoveStages(files, Expired \ {id})
    BY <1>1 DEF Lookup
  <2>3. files \in [Ids -> Inodes \cup {None}]
    BY <2>1 DEF TypeInv, Typed
  <2>4. files[id] = inodes + 1 /\ \A x \in Ids : x # id => files[x] = stage[x]
    BY DEF TypeInv, Typed
  <2> HIDE DEF files
  <2> QED
    BY <1>1, <2>2, <2>3, <2>4, RemoveStagesFacts DEF TypeInv, StageSwept, Untouched
<1>2. CASE ~Creates(w)
  <2>1. RemoveStages(stage, Expired) /\ stage \in [Ids -> Inodes \cup {None}]
    BY <1>2 DEF Lookup, TypeInv, Typed
  <2> QED
    BY <1>2, <2>1, RemoveStagesFacts DEF TypeInv, StageSwept, Untouched
<1> QED
  BY <1>1, <1>2

\* What the handlers that need no worker do to them.
LEMMA ControlStages ==
    ASSUME TypeInv, NEW id \in Ids, Commit(id) \/ CommitRefused(id) \/ Cancel(id)
    PROVE  /\ stage' \in [Ids -> Inodes \cup {None}] /\ orphaned' \subseteq Inodes
           /\ \A x \in Ids : x # id => StageSwept(x)
           /\ Commit(id) => stage'[id] = None
           /\ CommitRefused(id) => StageSwept(id)
           /\ Cancel(id) => 
                 \/ stage'[id] = None \/ stage'[id] \in orphaned'
                 \/ Pruned(id) = None /\ StageSwept(id)
<1>1. CASE Commit(id)
  <2> DEFINE files == [stage EXCEPT ![id] = None]
  <2>1. RemoveStages(files, Expired) /\ id \notin Expired
    BY <1>1 DEF Commit, Committable, Pruned, Expired
  <2>2. /\ files \in [Ids -> Inodes \cup {None}] /\ files[id] = None
        /\ \A x \in Ids : x # id => files[x] = stage[x]
    BY DEF TypeInv, Typed
  <2> HIDE DEF files
  <2>3. ~CommitRefused(id) /\ ~Cancel(id)
    BY <1>1 DEF Commit, CommitRefused, Cancel, TypeInv, Typed
  <2> QED
    BY <2>1, <2>2, <2>3, RemoveStagesFacts DEF TypeInv, StageSwept, Untouched
<1>2. CASE CommitRefused(id)
  <2>1. RemoveStages(stage, Expired) /\ stage \in [Ids -> Inodes \cup {None}]
    BY <1>2 DEF CommitRefused, TypeInv, Typed
  <2>2. ~Commit(id) /\ ~Cancel(id)
    BY <1>2 DEF Commit, CommitRefused, Cancel, TypeInv, Typed
  <2> QED
    BY <2>1, <2>2, RemoveStagesFacts DEF TypeInv, StageSwept, Untouched
<1>3. CASE Cancel(id)
  <2>1. PICK named \in BOOLEAN :
            RemoveStages(stage, Expired \cup (IF Pruned(id) # None \/ named THEN {id} ELSE {}))
    BY <1>3 DEF Cancel
  <2>2. stage \in [Ids -> Inodes \cup {None}]
    BY DEF TypeInv, Typed
  <2> DEFINE ids == Expired \cup (IF Pruned(id) # None \/ named THEN {id} ELSE {})
  <2>3. /\ \A x \in Ids : x # id => (x \in ids <=> x \in Expired)
        /\ Pruned(id) # None => id \in ids
        /\ id \notin ids => id \notin Expired
    OBVIOUS
  <2>4. RemoveStages(stage, ids)
    BY <2>1
  <2>5. ~Commit(id) /\ ~CommitRefused(id)
    BY <1>3 DEF Commit, CommitRefused, Cancel, TypeInv, Typed
  <2> HIDE DEF ids
  <2> QED
    BY <2>2, <2>3, <2>4, <2>5, RemoveStagesFacts DEF TypeInv, StageSwept, Untouched
<1> QED
  BY <1>1, <1>2, <1>3

LEMMA CreateFailStages ==
    ASSUME TypeInv, NEW w \in Workers, CreateFail(w), NEW id \in Ids, id = job[w][1]
    PROVE  /\ stage' \in [Ids -> Inodes \cup {None}] /\ orphaned' \subseteq Inodes
           /\ inodes' \in 0..MaxInodes
           /\ \A x \in Ids : x # id => StageSwept(x)
           /\ StageSwept(id) \/ stage'[id] = None \/ stage'[id] \in orphaned'
<1>1. CASE RemoveStages(stage, Expired) /\ inodes' = inodes
  <2>1. stage \in [Ids -> Inodes \cup {None}] /\ inodes \in 0..MaxInodes
    BY DEF TypeInv, Typed
  <2> QED
    BY <1>1, <2>1, RemoveStagesFacts DEF TypeInv, StageSwept, Untouched
<1>2. CASE /\ inodes < MaxInodes
           /\ inodes' = inodes + 1
           /\ RemoveStages([stage EXCEPT ![id] = inodes + 1], Expired \cup {id})
  <2>1. inodes + 1 \in Inodes /\ inodes + 1 \in 0..MaxInodes
    BY <1>2, UploadAssumption DEF TypeInv, Typed, Inodes
  <2> DEFINE files == [stage EXCEPT ![id] = inodes + 1]
  <2>2. /\ files \in [Ids -> Inodes \cup {None}]
        /\ \A x \in Ids : x # id => files[x] = stage[x]
    BY <2>1 DEF TypeInv, Typed
  <2>3. RemoveStages(files, Expired \cup {id})
    BY <1>2
  <2> HIDE DEF files
  <2> QED
    BY <1>2, <2>1, <2>2, <2>3, RemoveStagesFacts DEF TypeInv, StageSwept, Untouched
<1> QED
  BY <1>1, <1>2 DEF CreateFail

\* What Check2 and Record do to them when they take a session's file back.
LEMMA TakeBackStages ==
    ASSUME TypeInv, NEW id \in Ids, NEW ids \in SUBSET {id}, RemoveStages(stage, ids)
    PROVE  /\ stage' \in [Ids -> Inodes \cup {None}] /\ orphaned' \subseteq Inodes
           /\ \A x \in Ids : x # id => Untouched(x)
           /\ id \in ids => stage'[id] = None \/ stage'[id] \in orphaned'
           /\ id \notin ids => Untouched(id)
<1>1. stage \in [Ids -> Inodes \cup {None}] /\ \A x \in Ids : x # id => x \notin ids
  BY DEF TypeInv, Typed
<1> QED
  BY <1>1, RemoveStagesFacts DEF TypeInv, Untouched

LEMMA OthersKeepType ==
    ASSUME TypeInv, UNCHANGED <<pc, job, arc>>, Typed', Held' \subseteq Held
    PROVE  TypeInv'
<1>1. Streaming' \subseteq Streaming
  BY DEF Streaming
<1> QED
  BY <1>1, FewerHeld, FewerStreaming DEF TypeInv, Equipped, Counted

\* A step of a worker that changes no session but perhaps prunes some.
LEMMA WorkerKeepsType ==
    ASSUME TypeInv, NEW w \in Workers, pc[w] # "free",
           NEW s \in Steps, GoTo(w, s) \/ (s = "free" /\ Finish(w)),
           s \in Past => pc[w] \in Past,
           UNCHANGED <<intent, request, target, crashes>>,
           confirmed' \in [Ids -> SUBSET Chunks],
           sessions' \in [Ids -> Inodes \cup {None}], Held' \subseteq Held,
           received' \in [Ids -> SUBSET Chunks],
           idle' \subseteq Ids, tombstone' \subseteq Ids, flagged' \subseteq Inodes,
           stage' \in [Ids -> Inodes \cup {None}], content' \in [Inodes -> SUBSET Chunks],
           inodes' \in 0..MaxInodes, orphaned' \subseteq Inodes
    PROVE  TypeInv'
<1>1. Counted'
  BY WorkerMoves, FewerHeld, FewerStreaming DEF TypeInv, Counted
<1>2. Typed'
  BY WorkerMoves DEF TypeInv, Typed
<1>3. Equipped'
  BY WorkerMoves DEF TypeInv, Equipped, Past
<1> QED
  BY <1>1, <1>2, <1>3 DEF TypeInv

LEMMA StartKeepsType ==
    ASSUME TypeInv, NEW w \in Workers, NEW id \in Ids, NEW i \in Chunks, StartUpload(w, id, i)
    PROVE  TypeInv'
<1> USE DEF StartUpload, At
<1>1. Typed' /\ Equipped'
  BY DEF TypeInv, Typed, Equipped, Past, Steps, sessionVars, diskVars, ghostVars
<1>2. Streaming' = Streaming \cup {w} /\ w \notin Streaming
  BY DEF Streaming, TypeInv, Typed
<1>3. IsFiniteSet(Streaming') /\ Cardinality(Streaming') = Cardinality(Streaming) + 1
  BY <1>2, FS_AddElement DEF TypeInv, Counted
<1>4. Cardinality(Streaming) \in Nat /\ Cardinality(Streaming) < MaxStreams
  BY FS_CardinalityType DEF TypeInv, Counted, StreamFree
<1>5. Held' = Held
  BY DEF Held, sessionVars
<1> QED
  BY <1>1, <1>3, <1>4, <1>5, UploadAssumption DEF TypeInv, Counted

LEMMA LookupKeepsType ==
    ASSUME TypeInv, NEW w \in Workers, Lookup(w)
    PROVE  TypeInv'
<1> DEFINE id == job[w][1]
           new == IF Creates(w) THEN inodes + 1 ELSE Pruned(id)
           refused == Pruned(id) = None /\ ~Creates(w)
<1>0. pc[w] = "lookup" /\ id \in Ids /\ Pruned(id) \in Inodes \cup {None}
  BY DEF Lookup, At, TypeInv, Equipped, Typed, Pruned
<1>1. new \in Inodes \cup {None} /\ (Creates(w) => new \in 0..MaxInodes)
  BY <1>0, UploadAssumption DEF Lookup, TypeInv, Typed, Inodes
<1>2. SetSession(id, new)
  BY DEF Lookup
<1>3. /\ sessions' \in [Ids -> Inodes \cup {None}] /\ idle' \subseteq Ids
      /\ {sessions[x] : x \in Expired} \subseteq Inodes
  <2> HIDE DEF new
  <2> QED
    BY <1>0, <1>1, <1>2, SetSessionFacts DEF TypeInv
<1>4. /\ received' \in [Ids -> SUBSET Chunks] /\ flagged' \subseteq Inodes
      /\ stage' \in [Ids -> Inodes \cup {None}] /\ inodes' \in 0..MaxInodes
      /\ orphaned' \subseteq Inodes
      /\ UNCHANGED <<intent, request, confirmed, target, crashes, tombstone, content>>
  <2>1. /\ received' = IF Creates(w) THEN [received EXCEPT ![id] = {}] ELSE received
        /\ flagged' = flagged \cup {sessions[x] : x \in Expired}
        /\ inodes' = IF Creates(w) THEN new ELSE inodes
        /\ UNCHANGED <<serverVars, tombstone, target, content, crashes>>
    BY DEF Lookup
  <2>2. stage' \in [Ids -> Inodes \cup {None}] /\ orphaned' \subseteq Inodes
    BY <1>0, LookupStages
  <2> HIDE DEF new
  <2> QED
    BY <1>0, <1>1, <1>3, <2>1, <2>2 DEF TypeInv, Typed, serverVars
<1>5. Cardinality(Held') <= MaxSessions
  <2>1. CASE ~Creates(w)
    <3>1. Held' \subseteq Held
      BY <1>0, <1>1, <1>2, <2>1, SetSessionFacts DEF TypeInv
    <3> QED
      BY <3>1, FewerHeld DEF TypeInv
  <2>2. CASE Creates(w)
    <3>1. Held' = Live \cup {id} /\ id \notin Live /\ Room
      BY <1>0, <1>1, <1>2, <2>2, SetSessionFacts, InodesFacts
         DEF TypeInv, Typed, Creates, Live, None
    <3>2. IsFiniteSet(Live)
      BY FS_Subset, UploadAssumption DEF Live
    <3>3. Cardinality(Held') = Cardinality(Live) + 1 /\ Cardinality(Live) \in Nat
      BY <3>1, <3>2, FS_AddElement, FS_CardinalityType
    <3> QED
      BY <3>1, <3>3, UploadAssumption DEF Room
  <2> QED
    BY <2>1, <2>2
<1>6. CASE refused
  <2>1. Finish(w)
    BY <1>6 DEF Lookup
  <2>2. Held' \subseteq Held
    BY <1>0, <1>1, <1>2, <1>6, SetSessionFacts DEF TypeInv
  <2> QED
    BY <1>0, <1>3, <1>4, <2>1, <2>2, WorkerKeepsType DEF Steps, Past, TypeInv, Typed
<1>7. CASE ~refused
  <2>1. /\ pc' = [pc EXCEPT ![w] = "check2"] /\ arc' = [arc EXCEPT ![w] = new]
        /\ UNCHANGED <<job, fd>>
    BY <1>7 DEF Lookup
  <2>2. new \in Inodes
    BY <1>1, <1>7, UploadAssumption DEF None, TypeInv, Typed
  <2> HIDE DEF new
  <2>3. Streaming' \subseteq Streaming
    BY <1>0, <2>1 DEF Streaming, TypeInv, Typed
  <2>4. Counted'
    BY <1>5, <2>3, FewerStreaming DEF TypeInv, Counted
  <2>5. Typed'
    BY <1>3, <1>4, <2>1, <2>2 DEF TypeInv, Typed, Steps
  <2>6. Equipped'
    BY <1>0, <2>1, <2>2 DEF TypeInv, Typed, Equipped, Past
  <2> QED
    BY <2>4, <2>5, <2>6 DEF TypeInv
<1> QED
  BY <1>6, <1>7

LEMMA CreateFailKeepsType ==
    ASSUME TypeInv, NEW w \in Workers, CreateFail(w)
    PROVE  TypeInv'
<1> DEFINE id == job[w][1]
<1>0. pc[w] = "lookup" /\ id \in Ids /\ SetSession(id, None)
  BY DEF CreateFail, At, TypeInv, Equipped
<1>1. /\ sessions' \in [Ids -> Inodes \cup {None}] /\ idle' \subseteq Ids
      /\ {sessions[x] : x \in Expired} \subseteq Inodes /\ Held' \subseteq Held
  BY <1>0, SetSessionFacts DEF TypeInv
<1>2. /\ stage' \in [Ids -> Inodes \cup {None}] /\ orphaned' \subseteq Inodes
      /\ inodes' \in 0..MaxInodes
  BY <1>0, CreateFailStages
<1>3. flagged' \subseteq Inodes
  BY <1>1 DEF CreateFail, TypeInv, Typed
<1> QED
  BY <1>0, <1>1, <1>2, <1>3, WorkerKeepsType
     DEF CreateFail, TypeInv, Typed, Steps, Past, serverVars

\* The other steps of upload_stream.
LEMMA StepKeepsType ==
    ASSUME TypeInv, NEW w \in Workers,
           \/ Check1(w) \/ Check2(w) \/ StreamDone(w) \/ StreamInterrupted(w) \/ Check3(w)
           \/ OpenStage(w) \/ CopyChunk(w) \/ Record(w) \/ StreamFail(w) \/ CopyFail(w)
    PROVE  TypeInv'
<1> USE DEF At, FailOr, serverVars, sessionVars, diskVars, ghostVars
<1>1. CASE Check1(w) \/ StreamDone(w) \/ StreamInterrupted(w) \/ Check3(w) \/ StreamFail(w)
  <2>1. PICK s \in Steps : (GoTo(w, s) \/ (s = "free" /\ Finish(w))) /\ (s \in Past => pc[w] \in Past)
    BY <1>1 DEF Check1, StreamDone, StreamInterrupted, Check3, StreamFail, Steps, Past
  <2>2. UNCHANGED <<serverVars, sessionVars, diskVars, ghostVars>> /\ pc[w] # "free"
    BY <1>1 DEF Check1, StreamDone, StreamInterrupted, Check3, StreamFail
  <2>3. Held' \subseteq Held
    BY <2>2 DEF Held
  <2> QED
    BY <2>1, <2>2, <2>3, WorkerKeepsType DEF TypeInv, Typed
<1>2. CASE Check2(w)
  <2> DEFINE id == job[w][1]
  <2>1. id \in Ids /\ arc[w] \in Inodes /\ pc[w] = "check2"
    BY <1>2 DEF Check2, TypeInv, Equipped, Past
  <2>2. PICK s \in Steps : (GoTo(w, s) \/ (s = "free" /\ Finish(w))) /\ (s \in Past => pc[w] \in Past)
    BY <1>2 DEF Check2, Steps, Past
  <2>3. /\ flagged' \subseteq Inodes /\ sessions' \in [Ids -> Inodes \cup {None}]
        /\ idle' \subseteq Ids /\ Held' \subseteq Held
    BY <1>2, <2>1 DEF Check2, TypeInv, Typed, Held
  <2>4. stage' \in [Ids -> Inodes \cup {None}] /\ orphaned' \subseteq Inodes
    <3>1. CASE id \in tombstone
      BY <1>2, <2>1, <3>1, TakeBackStages DEF Check2
    <3>2. CASE id \notin tombstone
      BY <1>2, <3>2 DEF Check2, TypeInv, Typed
    <3> QED
      BY <3>1, <3>2
  <2> QED
    BY <1>2, <2>1, <2>2, <2>3, <2>4, WorkerKeepsType DEF Check2, TypeInv, Typed
<1>3. CASE OpenStage(w)
  <2>1. job[w][1] \in Ids /\ pc[w] = "open" /\ Held' \subseteq Held
    BY <1>3 DEF OpenStage, TypeInv, Equipped, Held
  <2>2. CASE Finish(w)
    BY <1>3, <2>1, <2>2, WorkerKeepsType DEF OpenStage, TypeInv, Typed, Steps, Past
  <2>3. CASE /\ fd' = [fd EXCEPT ![w] = stage[job[w][1]]]
             /\ pc' = [pc EXCEPT ![w] = "copy"]
             /\ UNCHANGED <<job, arc>>
    <3>1. Typed'
      BY <1>3, <2>1, <2>3 DEF OpenStage, TypeInv, Typed, Steps
    <3>2. Equipped' /\ Streaming' \subseteq Streaming
      BY <2>1, <2>3 DEF TypeInv, Typed, Equipped, Past, Streaming
    <3> QED
      BY <2>1, <3>1, <3>2, FewerHeld, FewerStreaming DEF TypeInv, Counted
  <2> QED
    BY <1>3, <2>2, <2>3 DEF OpenStage
<1>4. CASE CopyChunk(w) \/ CopyFail(w)
  <2>1. job[w][2] \in Chunks /\ pc[w] = "copy" /\ Held' \subseteq Held
    BY <1>4 DEF CopyChunk, CopyFail, TypeInv, Equipped, Held
  <2>2. content' \in [Inodes -> SUBSET Chunks]
    BY <1>4, <2>1 DEF CopyChunk, CopyFail, TypeInv, Typed
  <2> QED
    BY <1>4, <2>1, <2>2, WorkerKeepsType DEF CopyChunk, CopyFail, TypeInv, Typed, Steps, Past
<1>5. CASE Record(w)
  <2>1. job[w] \in Ids \X Chunks /\ pc[w] = "record" /\ Held' \subseteq Held
    BY <1>5 DEF Record, TypeInv, Equipped, Held
  <2>2. /\ received' \in [Ids -> SUBSET Chunks] /\ confirmed' \in [Ids -> SUBSET Chunks]
        /\ idle' \subseteq Ids
    BY <1>5, <2>1 DEF Record, TypeInv, Typed
  <2>3. stage' \in [Ids -> Inodes \cup {None}] /\ orphaned' \subseteq Inodes
    <3>1. CASE sessions[job[w][1]] = None
      BY <1>5, <2>1, <3>1, TakeBackStages DEF Record
    <3>2. CASE sessions[job[w][1]] # None
      BY <1>5, <3>2 DEF Record, TypeInv, Typed
    <3> QED
      BY <3>1, <3>2
  <2> QED
    BY <1>5, <2>1, <2>2, <2>3, WorkerKeepsType DEF Record, TypeInv, Typed, Steps, Past
<1> QED
  BY <1>1, <1>2, <1>3, <1>4, <1>5

\* The server, time, and the handlers that need no worker.
LEMMA ControlKeepsType ==
    ASSUME TypeInv, NEW id \in Ids, Commit(id) \/ CommitRefused(id) \/ Cancel(id)
    PROVE  TypeInv'
<1>1. PICK n \in Inodes \cup {None} : SetSession(id, n) /\ (n = None \/ n = Pruned(id))
  <2>1. Pruned(id) \in Inodes \cup {None}
    BY DEF TypeInv, Typed, Pruned
  <2> QED
    BY <2>1 DEF Commit, CommitRefused, Cancel
<1>2. /\ sessions' \in [Ids -> Inodes \cup {None}] /\ idle' \subseteq Ids
      /\ {sessions[x] : x \in Expired} \subseteq Inodes /\ Held' \subseteq Held
  BY <1>1, SetSessionFacts DEF TypeInv
<1>3. Pruned(id) # None => sessions[id] \in Inodes
  BY DEF Pruned, TypeInv, Typed
<1>4. Typed'
  <2>1. CASE Commit(id)
    BY <1>2, <2>1, ControlStages DEF Commit, workerVars, TypeInv, Typed
  <2>2. CASE CommitRefused(id)
    BY <1>2, <2>2, ControlStages DEF CommitRefused, workerVars, TypeInv, Typed
  <2>3. CASE Cancel(id)
    BY <1>2, <1>3, <2>3, ControlStages DEF Cancel, workerVars, TypeInv, Typed
  <2> QED
    BY <2>1, <2>2, <2>3
<1>5. UNCHANGED <<pc, job, arc>>
  BY DEF Commit, CommitRefused, Cancel, workerVars
<1> QED
  BY <1>2, <1>4, <1>5, OthersKeepType

LEMMA NextKeepsType == TypeInv /\ [Next]_vars => TypeInv'
<1> SUFFICES ASSUME TypeInv, [Next]_vars PROVE TypeInv'
  OBVIOUS
<1> USE DEF serverVars, sessionVars, diskVars, workerVars, ghostVars
<1>1. CASE UNCHANGED vars \/ Server \/ Time \/ Drop
  <2>1. CASE UNCHANGED vars
    BY <2>1, OthersKeepType DEF vars, Held, TypeInv, Typed
  <2>2. CASE Server
    <3>1. PICK id \in Ids : AskCommit(id) \/ AskCancel(id) \/ \E i \in Chunks : AskChunk(id, i)
      BY <2>2 DEF Server
    <3>2. request' \subseteq Ids \X Chunks
      BY <3>1 DEF AskCommit, AskCancel, AskChunk, TypeInv, Typed
    <3>3. intent' \in [Ids -> {"upload", "commit", "cancel", "committed", "canceled"}]
      BY <3>1 DEF AskCommit, AskCancel, AskChunk, TypeInv, Typed
    <3> QED
      BY <3>1, <3>2, <3>3, OthersKeepType DEF AskCommit, AskCancel, AskChunk, Held, TypeInv, Typed
  <2>3. CASE Time
    BY <2>3, OthersKeepType DEF Time, SessionIdles, TombstoneExpires, Held, TypeInv, Typed
  <2>4. CASE Drop
    BY <2>4, OthersKeepType DEF Drop, DropUpload, Held, TypeInv, Typed
  <2> QED
    BY <1>1, <2>1, <2>2, <2>3, <2>4
<1>2. CASE Control
  BY <1>2, ControlKeepsType DEF Control
<1>3. ASSUME NEW w \in Workers, Begin(w) \/ Advance(w) \/ Mishap(w) PROVE TypeInv'
  BY <1>3, StartKeepsType, LookupKeepsType, CreateFailKeepsType, StepKeepsType
     DEF Begin, Advance, Mishap
<1>4. CASE Crash
  <2>1. Typed' /\ Equipped'
    BY <1>4, UploadAssumption DEF Crash, TypeInv, Typed, Equipped, Past, Steps
  <2>2. Held' \subseteq Held /\ Streaming' \subseteq Streaming
    BY <1>4 DEF Crash, Held, Streaming
  <2> QED
    BY <2>1, <2>2, FewerHeld, FewerStreaming DEF TypeInv, Counted
<1> QED
  BY <1>1, <1>2, <1>3, <1>4 DEF Next

(***************************************************************************)
(* What a cancel leaves.                                                   *)
(***************************************************************************)

LEMMA InitCancelInv == Init => CancelInv
  BY DEF Init, CancelInv, Swept

\* Steps that touch no session of x, and no worker that may take it back.
LEMMA KeepsSwept ==
    ASSUME NEW x \in Ids, Swept(x), sessions'[x] = sessions[x],
           x \in tombstone' => x \in tombstone,
           Untouched(x) \/ stage'[x] = None \/ stage'[x] \in orphaned',
           \A w \in Workers : pc[w] = "check2" => pc'[w] = "check2" /\ job'[w] = job[w]
    PROVE  Swept(x)'
  BY DEF Swept, Untouched

\* A prune drops a session with its file, and an entry is set for id.
LEMMA PruneKeepsSwept ==
    ASSUME Typed, NEW id \in Ids, NEW n, SetSession(id, n),
           NEW x \in Ids, x # id, Swept(x), tombstone' \subseteq tombstone \cup {id},
           StageSwept(x),
           \A w \in Workers : pc[w] = "check2" => pc'[w] = "check2" /\ job'[w] = job[w]
    PROVE  Swept(x)'
  BY DEF Swept, SetSession, Pruned, Expired, Typed, StageSwept, Untouched

\* An upload whose session goes with its file, or has gone before.
LEMMA DroppedSwept ==
    ASSUME NEW x \in Ids, sessions'[x] = None, stage'[x] = None \/ stage'[x] \in orphaned'
    PROVE  Swept(x)'
  BY DEF Swept

LEMMA LookupKeepsCancel ==
    ASSUME TypeInv, CancelInv, NEW w \in Workers, Lookup(w)
    PROVE  CancelInv'
<1>a. PICK id \in Ids : id = job[w][1]
  BY DEF Lookup, At, TypeInv, Equipped
<1> DEFINE new == IF Creates(w) THEN inodes + 1 ELSE Pruned(id)
<1>0. pc[w] = "lookup" /\ id \in Ids
  BY <1>a DEF Lookup, At
<1>1. /\ SetSession(id, new) /\ UNCHANGED tombstone
      /\ \A x \in Ids : (x = id => ~Creates(w)) => StageSwept(x)
  BY <1>a, LookupStages DEF Lookup
<1>2. /\ \A u \in Workers : pc[u] = "check2" => pc'[u] = "check2" /\ job'[u] = job[u]
      /\ new # None => pc'[w] = "check2" /\ job'[w] = job[w]
  <2>1. new = None => Finish(w)
    BY <1>a, UploadAssumption DEF Lookup, None, TypeInv, Typed
  <2>2. Finish(w) \/ (pc' = [pc EXCEPT ![w] = "check2"] /\ UNCHANGED job)
    BY <1>a DEF Lookup
  <2>3. new # None => pc' = [pc EXCEPT ![w] = "check2"] /\ UNCHANGED job
    BY <1>a DEF Lookup
  <2> HIDE DEF new
  <2> QED
    BY <1>0, <2>2, <2>3 DEF Finish, TypeInv, Typed
<1> HIDE DEF new
<1>3. ASSUME NEW x \in Ids, x # id PROVE Swept(x)'
  BY <1>0, <1>1, <1>2, <1>3, PruneKeepsSwept DEF TypeInv, CancelInv
<1>4. Swept(id)'
  <2>1. sessions'[id] = new
    BY <1>0, <1>1 DEF SetSession
  <2>2. CASE new # None
    BY <1>a, <1>0, <1>2, <2>1, <2>2 DEF Swept
  <2>3. CASE new = None
    <3>1. ~Creates(w) /\ Pruned(id) = None
      BY <1>a, <2>3, UploadAssumption DEF new, None, TypeInv, Typed
    <3>2. StageSwept(id) /\ (id \notin Expired => sessions[id] = None)
      BY <1>0, <1>1, <3>1 DEF Pruned, Expired
    <3> QED
      BY <1>0, <1>1, <2>1, <2>3, <3>2 DEF CancelInv, Swept, StageSwept, Untouched
  <2> QED
    BY <2>2, <2>3
<1> QED
  BY <1>3, <1>4 DEF CancelInv

LEMMA CreateFailKeepsCancel ==
    ASSUME TypeInv, CancelInv, NEW w \in Workers, CreateFail(w)
    PROVE  CancelInv'
<1>a. PICK id \in Ids : id = job[w][1]
  BY DEF CreateFail, At, TypeInv, Equipped
<1>0. pc[w] = "lookup" /\ id \in Ids /\ SetSession(id, None)
  BY <1>a DEF CreateFail, At
<1>1. /\ \A x \in Ids : x # id => StageSwept(x)
      /\ StageSwept(id) \/ stage'[id] = None \/ stage'[id] \in orphaned'
  BY <1>a, CreateFailStages
<1>2. /\ \A u \in Workers : pc[u] = "check2" => pc'[u] = "check2" /\ job'[u] = job[u]
      /\ tombstone' = tombstone
  BY <1>a, <1>0 DEF CreateFail, Finish, TypeInv, Typed
<1>3. ASSUME NEW x \in Ids, x # id PROVE Swept(x)'
  BY <1>0, <1>1, <1>2, <1>3, PruneKeepsSwept DEF TypeInv, CancelInv
<1>4. Swept(id)'
  <2>1. sessions'[id] = None
    BY <1>0 DEF SetSession
  <2>2. id \notin Expired => sessions[id] = None
    BY <1>a, <1>0 DEF CreateFail, Creates, Pruned, Expired
  <2> QED
    BY <1>0, <1>1, <1>2, <2>1, <2>2 DEF CancelInv, Swept, StageSwept, Untouched
<1> QED
  BY <1>3, <1>4 DEF CancelInv

LEMMA Check2KeepsCancel ==
    ASSUME TypeInv, CancelInv, NEW w \in Workers, Check2(w)
    PROVE  CancelInv'
<1>a. PICK id \in Ids : id = job[w][1]
  BY DEF Check2, At, TypeInv, Equipped
<1>0. pc[w] = "check2" /\ id \in Ids /\ UNCHANGED tombstone
  BY <1>a DEF Check2, At
<1>b. \/ id \in tombstone /\ RemoveStages(stage, {id} \cap {x \in Ids : sessions[x] # None})
      \/ id \notin tombstone /\ UNCHANGED <<sessions, stage, orphaned>>
  BY <1>a DEF Check2
<1>1. \A u \in Workers : u # w => pc'[u] = pc[u] /\ job'[u] = job[u]
  BY DEF Check2, FailOr, Finish, GoTo, TypeInv, Typed
<1>2. ASSUME NEW x \in Ids, x # id PROVE Swept(x)'
  <2>1. sessions'[x] = sessions[x] /\ Untouched(x)
    BY <1>a, <1>b, <1>2, TakeBackStages DEF Check2, Untouched, TypeInv, Typed
  <2> QED
    BY <1>a, <1>0, <1>1, <1>2, <2>1 DEF CancelInv, Swept, Untouched
<1>3. Swept(id)'
  <2>1. CASE id \in tombstone
    <3>1. sessions'[id] = None
      BY <1>a, <1>0, <2>1 DEF Check2, TypeInv, Typed
    <3>2. IF sessions[id] = None THEN Untouched(id) ELSE stage'[id] = None \/ stage'[id] \in orphaned'
      BY <1>b, <2>1, TakeBackStages
    <3> QED
      BY <1>0, <3>1, <3>2 DEF CancelInv, Swept, Untouched
  <2>2. CASE id \notin tombstone
    BY <1>a, <1>b, <1>0, <2>2 DEF Check2, CancelInv, Swept
  <2> QED
    BY <2>1, <2>2
<1> QED
  BY <1>2, <1>3 DEF CancelInv

LEMMA ControlKeepsCancel ==
    ASSUME TypeInv, CancelInv, NEW id \in Ids, Commit(id) \/ CommitRefused(id) \/ Cancel(id)
    PROVE  CancelInv'
<1>1. PICK n \in {None, Pruned(id)} : SetSession(id, n)
  BY DEF Commit, CommitRefused, Cancel
<1>2. UNCHANGED <<pc, job>> /\ tombstone' \subseteq tombstone \cup {id}
  BY DEF Commit, CommitRefused, Cancel, workerVars
<1>3. ASSUME NEW x \in Ids, x # id PROVE Swept(x)'
  <2>1. StageSwept(x)
    BY <1>3, ControlStages
  <2> QED
    BY <1>1, <1>2, <1>3, <2>1, PruneKeepsSwept DEF TypeInv, CancelInv
<1>4. Swept(id)'
  <2>1. CASE Commit(id) \/ Cancel(id)
    <3>1. sessions'[id] = None
      BY <2>1 DEF Commit, Cancel, SetSession
    <3>2. \/ stage'[id] = None \/ stage'[id] \in orphaned'
          \/ Pruned(id) = None /\ StageSwept(id)
      BY <2>1, ControlStages
    <3>3. Pruned(id) = None /\ id \notin Expired => sessions[id] = None
      BY DEF Pruned, Expired
    <3> QED
      BY <1>2, <3>1, <3>2, <3>3 DEF CancelInv, Swept, StageSwept, Untouched
  <2>2. CASE CommitRefused(id)
    <3>1. StageSwept(id)
      BY <2>2, ControlStages
    <3> QED
      BY <2>2, <3>1 DEF CommitRefused, SetSession, Pruned, Expired, CancelInv, Swept, workerVars,
                        StageSwept, Untouched
  <2> QED
    BY <2>1, <2>2
<1> QED
  BY <1>3, <1>4 DEF CancelInv

LEMMA NextKeepsCancel == TypeInv /\ CancelInv /\ [Next]_vars => CancelInv'
<1> SUFFICES ASSUME TypeInv, CancelInv, [Next]_vars PROVE CancelInv'
  OBVIOUS
<1> USE DEF serverVars, sessionVars, diskVars, workerVars, ghostVars, At, FailOr
<1>1. CASE UNCHANGED vars \/ Server \/ Time \/ Drop
  <2>1. UNCHANGED <<sessions, stage, orphaned, pc, job>> /\ tombstone' \subseteq tombstone
    BY <1>1 DEF vars, Server, AskChunk, AskCommit, AskCancel, Time, SessionIdles,
                TombstoneExpires, Drop, DropUpload
  <2> QED
    BY <2>1, KeepsSwept DEF CancelInv, Untouched
<1>2. CASE Control
  BY <1>2, ControlKeepsCancel DEF Control
<1>3. ASSUME NEW w \in Workers, Begin(w) \/ Advance(w) \/ Mishap(w) PROVE CancelInv'
  <2>1. CASE Lookup(w) \/ CreateFail(w) \/ Check2(w)
    BY <2>1, LookupKeepsCancel, CreateFailKeepsCancel, Check2KeepsCancel
  <2>2. CASE \/ Begin(w) \/ Check1(w) \/ StreamDone(w) \/ StreamInterrupted(w) \/ Check3(w)
             \/ OpenStage(w) \/ CopyChunk(w) \/ Record(w) \/ StreamFail(w) \/ CopyFail(w)
    <3>1. UNCHANGED <<sessions, tombstone>> /\ pc[w] # "check2"
      BY <2>2 DEF Begin, StartUpload, Check1, StreamDone, StreamInterrupted, Check3, OpenStage,
                  CopyChunk, Record, StreamFail, CopyFail
    <3>2. \A u \in Workers : u # w => pc'[u] = pc[u] /\ job'[u] = job[u]
      BY <2>2 DEF Begin, StartUpload, Check1, StreamDone, StreamInterrupted, Check3, OpenStage,
                  CopyChunk, Record, StreamFail, CopyFail, GoTo, Finish, TypeInv, Typed
    <3>3. \A x \in Ids : Untouched(x) \/ stage'[x] = None \/ stage'[x] \in orphaned'
      <4>1. CASE Record(w)
        <5>1. PICK id \in Ids : id = job[w][1]
          BY <4>1 DEF Record, TypeInv, Equipped
        <5>2. RemoveStages(stage, {id}) \/ UNCHANGED <<stage, orphaned>>
          BY <4>1, <5>1 DEF Record
        <5>3. CASE UNCHANGED <<stage, orphaned>>
          BY <5>3 DEF Untouched
        <5>4. CASE RemoveStages(stage, {id})
          <6>1. /\ \A x \in Ids : x # id => Untouched(x)
                /\ stage'[id] = None \/ stage'[id] \in orphaned'
            BY <5>4, TakeBackStages
          <6> QED
            BY <6>1
        <5> QED
          BY <5>2, <5>3, <5>4
      <4>2. CASE ~Record(w)
        <5>1. UNCHANGED <<stage, orphaned>>
          BY <2>2, <4>2 DEF Begin, StartUpload, Check1, StreamDone, StreamInterrupted, Check3,
                            OpenStage, CopyChunk, StreamFail, CopyFail
        <5> QED
          BY <5>1 DEF Untouched
      <4> QED
        BY <4>1, <4>2
    <3> QED
      BY <3>1, <3>2, <3>3, KeepsSwept DEF CancelInv
  <2> QED
    BY <1>3, <2>1, <2>2 DEF Advance, Mishap
<1>4. CASE Crash
  BY <1>4, DroppedSwept DEF Crash, CancelInv
<1> QED
  BY <1>1, <1>2, <1>3, <1>4 DEF Next

(***************************************************************************)
(* What a session says it received.                                        *)
(***************************************************************************)

LEMMA InitStoreInv == Init => StoreInv
  BY DEF Init, StoreInv, Stored, Past

Grows == \A n \in Inodes : content[n] \subseteq content'[n]

\* The workers of x go on to no step that asks for more than they have.
Continue(x) ==
    \A u \in Workers : pc'[u] \in Past /\ job'[u][1] = x =>
        /\ pc[u] \in Past /\ job'[u] = job[u]
        /\ pc'[u] \in {"copy", "record"} => pc[u] \in {"copy", "record"} /\ fd'[u] = fd[u]
        /\ pc'[u] = "record" => pc[u] = "record"

\* Steps that have nothing to do with x.
LEMMA KeepsStored ==
    ASSUME Typed, NEW x \in Ids, Stored(x), Continue(x), Grows,
           sessions'[x] = sessions[x], received'[x] = received[x], stage'[x] = stage[x],
           x \in tombstone' => x \in tombstone,
           x \in idle' => x \in idle \/ \A w \in Workers : ~(pc'[w] \in Past /\ job'[w][1] = x)
    PROVE  Stored(x)'
<1>1. sessions[x] # None => content[sessions[x]] \subseteq content'[sessions[x]]
  BY DEF Typed, Grows
<1> QED
  BY <1>1 DEF Stored, Continue

\* A prune: a session that expires has no worker past lookup.
LEMMA PruneKeepsStored ==
    ASSUME Typed, NEW x \in Ids, Stored(x), Continue(x), Grows,
           sessions'[x] = Pruned(x), received'[x] = received[x], idle' = {},
           StageSwept(x),
           x \in tombstone' => x \in tombstone
    PROVE  Stored(x)'
<1>1. CASE x \in Expired
  BY <1>1 DEF Stored, Continue, Expired, Pruned
<1>2. CASE x \notin Expired
  <2>1. sessions'[x] = sessions[x] /\ stage'[x] = stage[x]
    BY <1>2 DEF Expired, Pruned, StageSwept, Untouched
  <2> QED
    BY <1>2, <2>1, KeepsStored
<1> QED
  BY <1>1, <1>2

LEMMA LookupKeepsStore ==
    ASSUME TypeInv, StoreInv, NEW w \in Workers, Lookup(w)
    PROVE  StoreInv'
<1>a. PICK id \in Ids : id = job[w][1]
  BY DEF Lookup, At, TypeInv, Equipped
<1> DEFINE new == IF Creates(w) THEN inodes + 1 ELSE Pruned(id)
<1>0. pc[w] = "lookup" /\ UNCHANGED <<intent, tombstone, content>> /\ Grows
  BY <1>a DEF Lookup, At, serverVars, Grows
<1>1. /\ SetSession(id, new)
      /\ received' = IF Creates(w) THEN [received EXCEPT ![id] = {}] ELSE received
      /\ Creates(w) => stage'[id] = new
      /\ \A x \in Ids : (x = id => ~Creates(w)) => StageSwept(x)
  BY <1>a, LookupStages DEF Lookup
<1>2. /\ \A u \in Workers : u # w => pc'[u] = pc[u] /\ job'[u] = job[u] /\ fd'[u] = fd[u]
      /\ pc'[w] \in {"free", "check2"} /\ (pc'[w] = "check2" => new # None /\ job'[w] = job[w])
  <2>1. \/ Finish(w)
        \/ new # None /\ pc' = [pc EXCEPT ![w] = "check2"] /\ UNCHANGED <<job, fd>>
    BY <1>a, UploadAssumption DEF Lookup, None, TypeInv, Typed
  <2> HIDE DEF new
  <2> QED
    BY <2>1 DEF Finish, TypeInv, Typed
<1> HIDE DEF new
<1>3. ASSUME NEW x \in Ids, x # id, Unsettled(x)' PROVE Stored(x)'
  <2>1. Stored(x)
    BY <1>0, <1>3 DEF StoreInv, Unsettled
  <2>2. Continue(x)
    BY <1>a, <1>2, <1>3 DEF Continue, Past
  <2>3. sessions'[x] = Pruned(x) /\ idle' = {} /\ received'[x] = received[x]
    BY <1>1, <1>3 DEF SetSession, TypeInv, Typed
  <2>4. StageSwept(x)
    BY <1>1, <1>3
  <2> QED
    BY <1>0, <2>1, <2>2, <2>3, <2>4, PruneKeepsStored DEF TypeInv
<1>4. ASSUME Unsettled(id)' PROVE Stored(id)'
  <2>1. Stored(id) /\ id \notin tombstone'
    BY <1>0, <1>4 DEF StoreInv, Unsettled, Stored
  <2>2. sessions'[id] = new /\ idle' = {}
    BY <1>1 DEF SetSession
  <2>3. CASE Creates(w)
    <3>1. new # None /\ stage'[id] = new /\ received'[id] = {} /\ Pruned(id) = None
      BY <1>a, <1>1, <2>3, UploadAssumption DEF new, Creates, None, TypeInv, Typed
    <3>2. \A u \in Workers : ~(pc[u] \in Past /\ job[u][1] = id)
      BY <2>1, <3>1 DEF Stored, Pruned
    <3>3. \A u \in Workers : pc'[u] \in Past /\ job'[u][1] = id => u = w /\ pc'[u] = "check2"
      BY <1>2, <3>2 DEF Past
    <3> QED
      BY <2>1, <2>2, <3>1, <3>3 DEF Stored
  <2>4. CASE ~Creates(w)
    <3>1. new = Pruned(id) /\ received' = received
      BY <1>1, <2>4 DEF new
    <3>2. StageSwept(id)
      BY <1>1, <2>4
    <3>3. CASE new = None
      <4>1. Continue(id)
        BY <1>a, <1>2, <3>3 DEF Continue, Past
      <4> QED
        BY <1>0, <2>1, <2>2, <3>1, <3>2, <4>1, PruneKeepsStored DEF TypeInv
    <3>4. CASE new # None
      <4>1. sessions'[id] = sessions[id] /\ stage'[id] = stage[id] /\ id \notin idle
        BY <2>2, <3>1, <3>2, <3>4 DEF Pruned, Expired, StageSwept, Untouched
      <4> QED
        BY <1>0, <1>2, <2>1, <2>2, <3>1, <3>4, <4>1 DEF Stored, Past
    <3> QED
      BY <3>3, <3>4
  <2> QED
    BY <2>3, <2>4
<1> QED
  BY <1>3, <1>4 DEF StoreInv

LEMMA CreateFailKeepsStore ==
    ASSUME TypeInv, StoreInv, NEW w \in Workers, CreateFail(w)
    PROVE  StoreInv'
<1>a. PICK id \in Ids : id = job[w][1]
  BY DEF CreateFail, At, TypeInv, Equipped
<1>0. /\ pc[w] = "lookup" /\ SetSession(id, None) /\ Pruned(id) = None
      /\ UNCHANGED <<intent, received, tombstone, content>> /\ Grows
  BY <1>a DEF CreateFail, At, Creates, serverVars, Grows
<1>1. \A x \in Ids : x # id => StageSwept(x)
  BY <1>a, CreateFailStages
<1>2. /\ \A u \in Workers : u # w => pc'[u] = pc[u] /\ job'[u] = job[u] /\ fd'[u] = fd[u]
      /\ pc'[w] = "free"
  BY DEF CreateFail, Finish, TypeInv, Typed
<1>3. ASSUME NEW x \in Ids, Unsettled(x)' PROVE Stored(x)'
  <2>1. Stored(x)
    BY <1>0, <1>3 DEF StoreInv, Unsettled
  <2>2. Continue(x)
    BY <1>2 DEF Continue, Past
  <2>3. CASE x # id
    <3>1. sessions'[x] = Pruned(x) /\ idle' = {}
      BY <1>0, <2>3 DEF SetSession
    <3> QED
      BY <1>0, <1>1, <2>1, <2>2, <2>3, <3>1, PruneKeepsStored DEF TypeInv
  <2>4. CASE x = id
    <3>1. sessions'[id] = None
      BY <1>0 DEF SetSession
    <3>2. \A u \in Workers : ~(pc[u] \in Past /\ job[u][1] = id)
      BY <1>0, <2>1, <2>4 DEF Stored, Pruned
    <3>3. \A u \in Workers : ~(pc'[u] \in Past /\ job'[u][1] = id)
      BY <1>2, <3>2 DEF Past
    <3> QED
      BY <1>0, <2>1, <2>4, <3>1, <3>3 DEF Stored
  <2> QED
    BY <2>3, <2>4
<1> QED
  BY <1>3 DEF StoreInv

\* A tombstone is of a settled upload: nothing else is taken back.
LEMMA Check2KeepsStore ==
    ASSUME TypeInv, StoreInv, NEW w \in Workers, Check2(w)
    PROVE  StoreInv'
<1>a. PICK id \in Ids : id = job[w][1]
  BY DEF Check2, At, TypeInv, Equipped
<1>0. /\ pc[w] = "check2" /\ UNCHANGED <<intent, received, tombstone, content>> /\ Grows
      /\ idle' \subseteq idle
  BY DEF Check2, At, serverVars, Grows
<1>1. ASSUME NEW x \in Ids, Unsettled(x)' PROVE Stored(x)'
  <2>1. Stored(x) /\ x \notin tombstone
    BY <1>0, <1>1 DEF StoreInv, Unsettled, Stored
  <2>2. sessions'[x] = sessions[x] /\ stage'[x] = stage[x]
    <3>1. CASE id \in tombstone
      <4>1. RemoveStages(stage, {id} \cap {y \in Ids : sessions[y] # None}) /\ x # id
        BY <1>a, <2>1, <3>1 DEF Check2
      <4> QED
        BY <1>a, <3>1, <4>1, TakeBackStages DEF Check2, Untouched, TypeInv, Typed
    <3>2. CASE id \notin tombstone
      BY <1>a, <3>2 DEF Check2
    <3> QED
      BY <3>1, <3>2
  <2>3. Continue(x)
    BY <1>0 DEF Check2, FailOr, GoTo, Finish, Continue, Past, TypeInv, Typed
  <2> QED
    BY <1>0, <2>1, <2>2, <2>3, KeepsStored DEF TypeInv
<1> QED
  BY <1>1 DEF StoreInv

LEMMA OpenStageKeepsStore ==
    ASSUME TypeInv, StoreInv, NEW w \in Workers, OpenStage(w)
    PROVE  StoreInv'
<1>0. /\ pc[w] = "open" /\ Grows
      /\ UNCHANGED <<intent, received, tombstone, content, sessions, stage, idle>>
  BY DEF OpenStage, At, serverVars, sessionVars, diskVars, Grows
<1>1. ASSUME NEW x \in Ids, Unsettled(x)' PROVE Stored(x)'
  <2>1. Stored(x)
    BY <1>0, <1>1 DEF StoreInv, Unsettled
  <2>2. CASE Finish(w)
    <3>1. Continue(x)
      BY <2>2 DEF Finish, Continue, Past, TypeInv, Typed
    <3> QED
      BY <1>0, <2>1, <3>1, KeepsStored DEF TypeInv
  <2>3. CASE fd' = [fd EXCEPT ![w] = stage[job[w][1]]] /\ pc' = [pc EXCEPT ![w] = "copy"]
             /\ UNCHANGED job
    <3>1. job[w][1] = x => sessions[x] # None /\ stage[x] = sessions[x]
      BY <1>0, <2>1 DEF Stored, Past
    <3> QED
      BY <1>0, <2>1, <2>3, <3>1 DEF Stored, Past, TypeInv, Typed
  <2> QED
    BY <2>2, <2>3 DEF OpenStage
<1> QED
  BY <1>1 DEF StoreInv

LEMMA CopyFailKeepsStore ==
    ASSUME TypeInv, StoreInv, NEW w \in Workers, CopyFail(w)
    PROVE  StoreInv'
<1>0. /\ pc[w] = "copy" /\ Finish(w) /\ fd[w] \in Inodes \cup {None}
      /\ UNCHANGED <<intent, received, tombstone, sessions, stage, idle>>
      /\ \/ content' = [content EXCEPT ![fd[w]] = @ \cup {job[w][2]}]
         \/ UNCHANGED content
  BY DEF CopyFail, At, serverVars, sessionVars, TypeInv, Typed
<1>1. Grows
  BY <1>0 DEF Grows, TypeInv, Typed
<1>2. ASSUME NEW x \in Ids, Unsettled(x)' PROVE Stored(x)'
  <2>1. Stored(x)
    BY <1>0, <1>2 DEF StoreInv, Unsettled
  <2>2. Continue(x)
    BY <1>0 DEF Finish, Continue, Past, TypeInv, Typed
  <2> QED
    BY <1>0, <1>1, <2>1, <2>2, KeepsStored DEF TypeInv
<1> QED
  BY <1>2 DEF StoreInv

LEMMA CopyChunkKeepsStore ==
    ASSUME TypeInv, StoreInv, NEW w \in Workers, CopyChunk(w)
    PROVE  StoreInv'
<1>0. /\ pc[w] = "copy" /\ pc' = [pc EXCEPT ![w] = "record"] /\ UNCHANGED <<job, fd>>
      /\ UNCHANGED <<intent, received, tombstone, sessions, stage, idle>>
      /\ content' = [content EXCEPT ![fd[w]] = @ \cup {job[w][2]}]
  BY DEF CopyChunk, At, GoTo, serverVars, sessionVars
<1>1. Grows
  BY <1>0 DEF Grows, TypeInv, Typed
<1>2. ASSUME NEW x \in Ids, Unsettled(x)' PROVE Stored(x)'
  <2>1. Stored(x)
    BY <1>0, <1>2 DEF StoreInv, Unsettled
  <2>2. CASE job[w][1] # x
    <3>1. Continue(x)
      BY <1>0, <2>2 DEF Continue, TypeInv, Typed
    <3> QED
      BY <1>0, <1>1, <2>1, <3>1, KeepsStored DEF TypeInv
  <2>3. CASE job[w][1] = x
    <3>1. fd[w] = sessions[x] /\ sessions[x] \in Inodes
      BY <1>0, <2>1, <2>3 DEF Stored, Past, TypeInv, Typed
    <3>2. job[w][2] \in content'[sessions[x]] /\ content[sessions[x]] \subseteq content'[sessions[x]]
      BY <1>0, <1>1, <3>1 DEF Grows, TypeInv, Typed
    <3> QED
      BY <1>0, <2>1, <3>1, <3>2 DEF Stored, Past, TypeInv, Typed
  <2> QED
    BY <2>2, <2>3
<1> QED
  BY <1>2 DEF StoreInv

LEMMA RecordKeepsStore ==
    ASSUME TypeInv, StoreInv, NEW w \in Workers, Record(w)
    PROVE  StoreInv'
<1>a. PICK id \in Ids : id = job[w][1]
  BY DEF Record, At, TypeInv, Equipped
<1>0. /\ pc[w] = "record" /\ UNCHANGED <<intent, tombstone, sessions, content>> /\ Grows
      /\ Finish(w) /\ idle' \subseteq idle
  BY DEF Record, At, Grows
<1>1. ASSUME NEW x \in Ids, Unsettled(x)' PROVE Stored(x)'
  <2>1. Stored(x)
    BY <1>0, <1>1 DEF StoreInv, Unsettled
  <2>2. Continue(x)
    BY <1>0 DEF Finish, Continue, Past, TypeInv, Typed
  <2>3. CASE x # id
    <3>1. received'[x] = received[x]
      BY <1>a, <2>3 DEF Record, TypeInv, Typed
    <3>2. stage'[x] = stage[x]
      BY <1>a, <2>3, TakeBackStages DEF Record, Untouched
    <3> QED
      BY <1>0, <2>1, <2>2, <3>1, <3>2, KeepsStored DEF TypeInv
  <2>4. CASE x = id
    <3>1. sessions[id] # None /\ job[w][2] \in content[sessions[id]]
      BY <1>a, <1>0, <2>1, <2>4 DEF Stored, Past
    <3>2. received'[id] = received[id] \cup {job[w][2]} /\ stage' = stage
      BY <1>a, <3>1 DEF Record, TypeInv, Typed
    <3> QED
      BY <1>0, <2>1, <2>2, <2>4, <3>1, <3>2 DEF Stored, Continue
  <2> QED
    BY <2>3, <2>4
<1> QED
  BY <1>1 DEF StoreInv

LEMMA ControlKeepsStore ==
    ASSUME TypeInv, StoreInv, NEW id \in Ids, Commit(id) \/ CommitRefused(id) \/ Cancel(id)
    PROVE  StoreInv'
<1>0. /\ UNCHANGED <<received, content, pc, job, fd>> /\ Grows
      /\ tombstone' \subseteq tombstone \cup {id}
  BY DEF Commit, CommitRefused, Cancel, workerVars, Grows
<1>1. ASSUME NEW x \in Ids, Unsettled(x)' PROVE Stored(x)'
  <2>1. x # id \/ CommitRefused(id)
    BY <1>1 DEF Commit, Cancel, Unsettled, TypeInv, Typed
  <2>2. Unsettled(x)
    BY <1>1 DEF Commit, CommitRefused, Cancel, Unsettled, TypeInv, Typed
  <2>3. Stored(x) /\ Continue(x)
    BY <1>0, <2>2 DEF StoreInv, Continue
  <2>4. sessions'[x] = Pruned(x) /\ idle' = {}
    BY <2>1 DEF Commit, CommitRefused, Cancel, SetSession
  <2>5. StageSwept(x) /\ (x \in tombstone' => x \in tombstone)
    BY <1>0, <2>1, ControlStages DEF CommitRefused
  <2> QED
    BY <1>0, <2>3, <2>4, <2>5, PruneKeepsStored DEF TypeInv
<1> QED
  BY <1>1 DEF StoreInv

\* The server, time and the steps of a transfer that touch neither map nor file.
LEMMA OthersKeepStore ==
    ASSUME NoSlowTransfer, TypeInv, StoreInv,
           \/ UNCHANGED vars \/ Server \/ Time \/ Drop
           \/ \E w \in Workers : \/ Begin(w) \/ Check1(w) \/ StreamDone(w) \/ StreamInterrupted(w)
                                 \/ Check3(w) \/ StreamFail(w)
    PROVE  StoreInv'
<1> USE DEF serverVars, sessionVars, diskVars, workerVars, ghostVars, At, FailOr
<1>0. UNCHANGED <<received, content, sessions, stage>> /\ Grows
  BY DEF vars, Server, AskChunk, AskCommit, AskCancel, Time, SessionIdles, TombstoneExpires,
         Drop, DropUpload, Begin, StartUpload, Check1, StreamDone, StreamInterrupted, Check3,
         StreamFail, Grows
<1>1. ASSUME NEW x \in Ids, Unsettled(x)' PROVE Stored(x)'
  <2>1. Unsettled(x) /\ tombstone' \subseteq tombstone
    BY <1>1 DEF vars, Server, AskChunk, AskCommit, AskCancel, Time, SessionIdles,
                TombstoneExpires, Drop, DropUpload, Begin, StartUpload, Check1, StreamDone,
                StreamInterrupted, Check3, StreamFail, Unsettled, TypeInv, Typed
  <2>2. Stored(x)
    BY <2>1 DEF StoreInv
  <2>3. Continue(x)
    <3>1. CASE UNCHANGED vars \/ Server \/ Time \/ Drop
      BY <3>1 DEF vars, Server, AskChunk, AskCommit, AskCancel, Time, SessionIdles,
                  TombstoneExpires, Drop, DropUpload, Continue
    <3>2. ASSUME NEW w \in Workers, Begin(w) PROVE Continue(x)
      BY <3>2 DEF Begin, StartUpload, Continue, Past, TypeInv, Typed
    <3>3. ASSUME NEW w \in Workers,
                 \/ Check1(w) \/ StreamDone(w) \/ StreamInterrupted(w) \/ Check3(w)
                 \/ StreamFail(w)
          PROVE  Continue(x)
      BY <3>3 DEF Check1, StreamDone, StreamInterrupted, Check3, StreamFail, GoTo,
                  Finish, Continue, Past, TypeInv, Typed
    <3> QED
      BY <3>1, <3>2, <3>3
  <2>4. x \in idle' => x \in idle \/ \A w \in Workers : ~(pc'[w] \in Past /\ job'[w][1] = x)
    <3>1. CASE Time
      <4>1. x \in idle' => x \in idle \/ Working(x) = {}
        BY <3>1 DEF Time, SessionIdles, TombstoneExpires, NoSlowTransfer
      <4>2. Working(x) = {} => \A w \in Workers : ~(pc[w] \in Past /\ job[w][1] = x)
        BY DEF Working, Past
      <4>3. pc' = pc /\ job' = job
        BY <3>1 DEF Time, SessionIdles, TombstoneExpires
      <4> QED
        BY <4>1, <4>2, <4>3
    <3>2. CASE ~Time
      BY <3>2 DEF vars, Server, AskChunk, AskCommit, AskCancel, Drop, DropUpload, Begin,
                  StartUpload, Check1, StreamDone, StreamInterrupted, Check3, StreamFail
    <3> QED
      BY <3>1, <3>2
  <2> QED
    BY <1>0, <2>1, <2>2, <2>3, <2>4, KeepsStored DEF TypeInv
<1> QED
  BY <1>1 DEF StoreInv

LEMMA NextKeepsStore ==
    ASSUME NoSlowTransfer, TypeInv, StoreInv, [Next]_vars
    PROVE  StoreInv'
<1>1. CASE Control
  BY <1>1, ControlKeepsStore DEF Control
<1>2. ASSUME NEW w \in Workers, Begin(w) \/ Advance(w) \/ Mishap(w) PROVE StoreInv'
  BY <1>2, LookupKeepsStore, CreateFailKeepsStore, Check2KeepsStore, OpenStageKeepsStore,
     CopyChunkKeepsStore, CopyFailKeepsStore, RecordKeepsStore, OthersKeepStore
     DEF Advance, Mishap
<1>3. CASE Crash
  BY <1>3 DEF Crash, StoreInv, Stored, Past
<1> QED
  BY <1>1, <1>2, <1>3, OthersKeepStore DEF Next

(***************************************************************************)
(* The theorems.                                                           *)
(***************************************************************************)

\* Files only grow, and the one a commit takes is its session's.
LEMMA NextKeepsComplete ==
    ASSUME TypeInv, StoreInv, CommitComplete, [Next]_vars
    PROVE  CommitComplete'
<1> USE DEF serverVars, sessionVars, diskVars, workerVars, ghostVars
<1>1. ASSUME NEW id \in Ids, Commit(id) PROVE CommitComplete'
  <2>1. content[stage[id]] = Chunks
    <3>1. sessions[id] # None /\ received[id] = Chunks
      BY <1>1 DEF Commit, Committable, Pruned
    <3>2. Stored(id)
      BY <1>1 DEF Commit, StoreInv, Unsettled
    <3>3. Chunks \subseteq content[sessions[id]] /\ stage[id] = sessions[id]
      BY <3>1, <3>2 DEF Stored
    <3>4. content[sessions[id]] \subseteq Chunks
      BY <3>1 DEF TypeInv, Typed
    <3> QED
      BY <3>3, <3>4
  <2>2. target' = [target EXCEPT ![id] = stage[id]] /\ content' = content
    BY <1>1 DEF Commit
  <2> QED
    BY <2>1, <2>2 DEF CommitComplete, TypeInv, Typed
<1>2. ASSUME NEW w \in Workers, CopyChunk(w) \/ CopyFail(w) PROVE CommitComplete'
  <2>1. job[w][2] \in Chunks
    BY <1>2 DEF CopyChunk, CopyFail, At, TypeInv, Equipped
  <2>2. /\ content' = [content EXCEPT ![fd[w]] = @ \cup {job[w][2]}] \/ content' = content
        /\ target' = target
    BY <1>2 DEF CopyChunk, CopyFail
  <2>3. ASSUME NEW n \in Inodes, content[n] = Chunks PROVE content'[n] = Chunks
    <3>1. content'[n] = content[n] \/ content'[n] = content[n] \cup {job[w][2]}
      BY <2>2 DEF TypeInv, Typed
    <3> QED
      BY <2>1, <2>3, <3>1
  <2> QED
    BY <2>2, <2>3 DEF CommitComplete, TypeInv, Typed
<1>3. CASE UNCHANGED <<target, content>>
  BY <1>3 DEF CommitComplete
<1>4. \/ \E id \in Ids : Commit(id)
      \/ \E w \in Workers : CopyChunk(w) \/ CopyFail(w)
      \/ UNCHANGED <<target, content>>
  BY DEF Next, vars, Server, AskChunk, AskCommit, AskCancel, Time, SessionIdles,
         TombstoneExpires, Control, CommitRefused, Cancel, Drop, DropUpload, Begin, StartUpload,
         Advance, Check1, Lookup, Check2, StreamDone, StreamInterrupted, Check3, OpenStage,
         Record, Mishap, CreateFail, StreamFail, CopyFail, Crash
<1> QED
  BY <1>1, <1>2, <1>3, <1>4

\* Every variable has its type: in particular the worker and session limits
\* hold whatever arrives at once (StreamGuard::acquire, MAX_UPLOAD_SESSIONS).
THEOREM UploadTypeCorrect == Spec => []TypeOK
<1> QED
  BY InitTypeInv, NextKeepsType, TypeInvImpliesTypeOK, PTL DEF Spec

\* While a cancel is remembered and no handler of the upload is left, there is
\* no session, whichever step of upload_stream it overtook, and no stage file but
\* one known to be left: by a restart, by a creation that failed halfway or by a
\* removal that failed (upload_cancel, prune_uploads, the checks of upload_stream).
THEOREM CancelSweeps == Spec => []CancelLeavesNothing
<1>1. CancelInv => CancelLeavesNothing
  BY DEF CancelInv, Swept, CancelLeavesNothing, Idle, Working
<1> QED
  BY <1>1, InitTypeInv, NextKeepsType, InitCancelInv, NextKeepsCancel, PTL DEF Spec

\* As long as no session times out during a transfer of it, what a session says
\* it received is in its own stage file (upload_stream, prune_uploads).
THEOREM ReceivedIsStored ==
    ASSUME NoSlowTransfer
    PROVE  Spec => []ReceivedStored
<1>1. StoreInv => ReceivedStored
  BY DEF StoreInv, Unsettled, Stored, ReceivedStored
<1>2. TypeInv /\ StoreInv /\ [Next]_vars => StoreInv'
  BY NextKeepsStore
<1> QED
  BY <1>1, <1>2, InitTypeInv, NextKeepsType, InitStoreInv, PTL DEF Spec

\* Then a committed file is whole: every chunk is in the file that was renamed
\* over the destination (upload_commit).
THEOREM CommittedIsComplete ==
    ASSUME NoSlowTransfer
    PROVE  Spec => []CommitComplete
<1>1. Init => CommitComplete
  BY DEF Init, CommitComplete
<1>2. TypeInv /\ StoreInv /\ [Next]_vars => StoreInv'
  BY NextKeepsStore
<1>3. TypeInv /\ StoreInv /\ CommitComplete /\ [Next]_vars => CommitComplete'
  BY NextKeepsComplete
<1> QED
  BY <1>1, <1>2, <1>3, InitTypeInv, NextKeepsType, InitStoreInv, PTL DEF Spec

=============================================================================
