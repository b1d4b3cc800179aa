------------------------------- MODULE FileOps -------------------------------
(***************************************************************************)
(* The operations of the file control that work in one request             *)
(* (file_control.rs): list, search, create, mkdir, delete, move, copy,     *)
(* chmod and download, in workers side by side, from the request to the    *)
(* result that is posted.  An operation is a list of steps, each a call    *)
(* into the file system that may fail; the uploads are UploadSessions.     *)
(***************************************************************************)
EXTENDS Naturals, Sequences, SequencesExt, FiniteSets, TLC

CONSTANTS
    Workers,     \* threads of file_control::spawn
    Trees,       \* the file systems the agent may find: functions of paths to nodes
    Requests,    \* for each worker, what it may be asked: records op, src, dst, mode
    Stage,       \* the name of the staging file, one per directory and process
    Mount,       \* a top-level directory that is another device
    MaxResults,  \* MAX_SEARCH_RESULTS
    MaxChunk,    \* MAX_CHUNK
    MaxPosts,    \* attempts of handle to post a result
    MaxDepth     \* the longest path

VARIABLES
    tree,    \* external: the file system, without its root
    origin,  \* ghost: the file system found
    work,    \* what each worker does
    spent,   \* ghost: contents that requests may destroy, while alone
    alone    \* ghost: no two requests were ever under way at once

foVars == <<tree, origin, work, spent, alone>>

\* Nodes.  A link has its target in data, and a file its contents.
Node(kind, data, mode) == [kind |-> kind, data |-> data, mode |-> mode]
Empty == ""
DirMode == "755"
FileMode == "644"

\* A step of an operation, with one path or two.
Do(what, a, b) == [do |-> what, a |-> a, b |-> b]
WorkerIdle == [phase |-> "idle", op |-> "none", src |-> <<>>, dst |-> <<>>, mode |-> "",
               todo |-> <<>>, armed |-> FALSE, stuck |-> FALSE, ok |-> FALSE, found |-> {},
               posts |-> 0, before |-> <<>>]

FoInit ==
    /\ tree \in Trees
    /\ origin = tree
    /\ work = [w \in Workers |-> WorkerIdle]
    /\ spent = {}
    /\ alone = TRUE

(***************************************************************************)
(* Paths.                                                                  *)
(***************************************************************************)

\* normalize_path, of an absolute path: a name is taken back by the ".." after it.
NormalizePath(raw) ==
    FoldLeft(LAMBDA path, c :
                CASE c = "." -> path
                  [] c = ".." -> IF path = <<>> THEN path ELSE Front(path)
                  [] OTHER -> Append(path, c),
             <<>>, raw)

PathContains(parent, child) == IsStrictPrefix(parent, child)
Below(t, p) == {q \in DOMAIN t : IsPrefix(p, q)}
KindIn(t, p) == IF p = <<>> THEN "dir" ELSE IF p \in DOMAIN t THEN t[p].kind ELSE "none"

\* External: where a path leads when its links are followed, and where the
\* name at its end is.  The links of Trees lead to no other link.
RECURSIVE FollowLink(_, _)
FollowLink(t, p) ==
    IF p = <<>> THEN p
    ELSE LET q == Append(FollowLink(t, Front(p)), Last(p))
         IN  IF KindIn(t, q) = "link" THEN t[q].data ELSE q
Place(t, p) == IF p = <<>> THEN p ELSE Append(FollowLink(t, Front(p)), Last(p))
Kind(p) == KindIn(tree, Place(tree, p))
KindFollowed(p) == KindIn(tree, FollowLink(tree, p))
ParentThere(p) == p # <<>> /\ Len(Place(tree, p)) <= MaxDepth /\ KindFollowed(Front(p)) = "dir"

\* The path that corresponds to q below dst when src is copied there.
Rebased(q, src, dst) == dst \o SubSeq(q, Len(src) + 1, Len(q))

StageOf(p) == Append(Front(p), Stage)

(***************************************************************************)
(* Requests.                                                               *)
(***************************************************************************)

\* The steps of an accepted operation.
StepsOf(op, src, dst) ==
    CASE op = "create" -> <<Do("dirs", Front(src), src), Do("stage", src, src), Do("replace", src, src)>>
      [] op = "mkdir" -> <<Do("mkdir", src, src)>>
      [] op = "delete" -> <<Do("remove", src, src)>>
      [] op = "move" -> IF src = dst THEN <<>>
                        ELSE <<Do("dirs", Front(dst), dst), Do("rename", src, dst)>>
      [] op = "copy" -> <<Do("copy", src, dst)>>
      [] op = "chmod" -> <<Do("chmod", src, src)>>
      [] op = "list" -> <<Do("read", src, src), Do("describe", src, src)>>
      [] op = "search" -> <<Do("walk", src, src)>>
      [] op = "download" -> <<Do("send", src, src)>>

\* ensure_not_root, same_path and path_contains.
RefusedPath(op, src, dst) ==
    \/ op \in {"create", "mkdir", "delete", "move"} /\ src = <<>>
    \/ op \in {"move", "copy"} /\ dst = <<>>
    \/ op = "copy" /\ src = dst
    \/ op \in {"move", "copy"} /\ PathContains(src, dst)

\* The contents an operation may destroy: what it deletes, and what has the
\* place of something it brings.
AtStake(op, src, dst) ==
    LET from == Place(tree, src)
        hit == CASE op = "delete" -> Below(tree, from)
                 [] op = "create" -> {from}
                 [] op \in {"move", "copy"} ->
                       UNION {{FollowLink(tree, Rebased(q, from, dst)), Place(tree, Rebased(q, from, dst))} :
                                     q \in Below(tree, from)}
                 [] OTHER -> {}
    IN  {tree[p].data : p \in {q \in hit \cap DOMAIN tree : tree[q].kind = "file"}}

Working(w) == work[w].phase = "run"
Under(w) == {v \in Workers \ {w} : work[v].phase \in {"run", "reply"}}

\* handle and execute, up to the first step.  What execute refuses, and any
\* request while web control is off or one without an id, is answered at once.
BeginRequest(w) ==
    /\ work[w].phase = "idle"
    /\ alone' = (alone /\ Under(w) = {})
    /\ \E r \in Requests[w], accepted \in BOOLEAN :
          LET src == NormalizePath(r.src)
              dst == NormalizePath(r.dst)
              refused == ~accepted \/ RefusedPath(r.op, src, dst)
          IN  /\ work' = [work EXCEPT ![w] =
                    [WorkerIdle EXCEPT !.phase = IF refused THEN "reply" ELSE "run", !.op = r.op,
                                       !.src = src, !.dst = dst, !.mode = r.mode,
                                       !.before = IF alone' THEN tree ELSE Empty,
                                       !.todo = IF refused THEN <<>> ELSE StepsOf(r.op, src, dst)]]
              /\ spent' = IF ~alone' THEN {} ELSE IF refused THEN spent ELSE spent \cup AtStake(r.op, src, dst)
    /\ UNCHANGED <<tree, origin>>

(***************************************************************************)
(* Steps.                                                                  *)
(***************************************************************************)
Next1(w) == Head(work[w].todo)
IsAt(w, what) == Working(w) /\ work[w].todo # <<>> /\ Next1(w).do = what

\* The step is done, and others come before the rest.
Then(w, steps) ==
    /\ work' = [work EXCEPT ![w].todo = steps \o Tail(@)]
    /\ UNCHANGED <<origin, spent, alone>>

Puts(p, node) == tree' = (p :> node) @@ tree
Drops(ps) == tree' = [q \in DOMAIN tree \ ps |-> tree[q]]

\* An error ends the operation; a RemoveOnDrop that is armed, in create_empty
\* from before the stage is made, removes its file, whoever made it, or fails
\* to, which nobody is told.
StepFails(w) ==
    LET stage == Place(tree, StageOf(work[w].src))
        sweeps == work[w].armed \/ IsAt(w, "stage")
    IN  /\ \E left \in {FALSE, sweeps /\ stage \in DOMAIN tree} :
              /\ work' = [work EXCEPT ![w].phase = "reply", ![w].todo = <<>>, ![w].armed = FALSE,
                                      ![w].stuck = left]
              /\ IF sweeps /\ ~left THEN Drops({stage}) ELSE UNCHANGED tree
        /\ UNCHANGED <<origin, spent, alone>>

IoError(w) == Working(w) /\ work[w].todo # <<>> /\ StepFails(w)

\* result_payload: a result that is too large is told as an error.
AllDone(w) ==
    /\ Working(w) /\ work[w].todo = <<>>
    /\ \E fits \in BOOLEAN :
          /\ ~fits => work[w].op \in {"list", "search"}
          /\ work' = [work EXCEPT ![w].phase = "reply", ![w].ok = fits]
    /\ UNCHANGED <<tree, origin, spent, alone>>

\* External: create_dir_all.
DirsFail(p) ==
    \/ Len(FollowLink(tree, p)) > MaxDepth
    \/ \E k \in 1..Len(p) :
          LET q == SubSeq(p, 1, k)
          IN  KindFollowed(q) = "file" \/ (Kind(q) = "link" /\ KindFollowed(q) = "none")
NewDirs(p) == {q \in {FollowLink(tree, SubSeq(p, 1, k)) : k \in 1..Len(p)} : KindIn(tree, q) = "none"}
WithDirs(p) == tree @@ [q \in NewDirs(p) |-> Node("dir", Empty, DirMode)]

MakeDirs(w) ==
    /\ IsAt(w, "dirs")
    /\ \/ DirsFail(Next1(w).a) /\ StepFails(w)
       \/ /\ ~DirsFail(Next1(w).a)
          /\ tree' = WithDirs(Next1(w).a)
          /\ Then(w, <<>>)

\* mkdir: the mode is for a directory that is new.
Mkdir(w) ==
    /\ IsAt(w, "mkdir")
    /\ LET p == Next1(w).a
       IN  \/ DirsFail(p) /\ StepFails(w)
           \/ /\ ~DirsFail(p)
              /\ tree' = IF Kind(p) # "none" THEN tree
                         ELSE [WithDirs(p) EXCEPT ![FollowLink(WithDirs(p), p)].mode = work[w].mode]
              /\ Then(w, <<>>)

\* chmod follows a link.
Chmod(w) ==
    /\ IsAt(w, "chmod")
    /\ LET p == FollowLink(tree, Next1(w).a)
       IN  \/ KindIn(tree, p) = "none" /\ StepFails(w)
           \/ p = <<>> /\ UNCHANGED tree /\ Then(w, <<>>)
           \/ /\ p \in DOMAIN tree
              /\ tree' = [tree EXCEPT ![p].mode = work[w].mode]
              /\ Then(w, <<>>)

\* create_empty: the stage is made new, with the permissions of what it replaces.
MakeStage(w) ==
    /\ IsAt(w, "stage")
    /\ LET p == Next1(w).a
           stage == Place(tree, StageOf(p))
       IN  \/ /\ KindFollowed(p) = "dir" \/ ~ParentThere(p) \/ stage \in DOMAIN tree
              /\ StepFails(w)
           \/ /\ KindFollowed(p) # "dir" /\ ParentThere(p) /\ stage \notin DOMAIN tree
              /\ Puts(stage, Node("file", Empty, IF KindFollowed(p) = "file"
                                                 THEN tree[FollowLink(tree, p)].mode ELSE FileMode))
              /\ work' = [work EXCEPT ![w].todo = Tail(@), ![w].armed = TRUE]
              /\ UNCHANGED <<origin, spent, alone>>

\* replace and disarm.
Replace(w) ==
    /\ IsAt(w, "replace")
    /\ LET p == Next1(w).a
           stage == Place(tree, StageOf(p))
       IN  \/ (stage \notin DOMAIN tree \/ ~ParentThere(p) \/ Kind(p) = "dir") /\ StepFails(w)
           \/ /\ stage \in DOMAIN tree /\ ParentThere(p) /\ Kind(p) # "dir"
              /\ tree' = [q \in (DOMAIN tree \ {stage}) \cup {Place(tree, p)} |->
                             IF q = Place(tree, p) THEN tree[stage] ELSE tree[q]]
              /\ work' = [work EXCEPT ![w].todo = Tail(@), ![w].armed = FALSE]
              /\ UNCHANGED <<origin, spent, alone>>

\* External: rename, which replaces a file, or an empty directory by another.
Renames(a, b) ==
    /\ a \in DOMAIN tree
    /\ IF tree[a].kind = "dir"
       THEN ~PathContains(a, b) /\ (b \in DOMAIN tree => tree[b].kind = "dir" /\ Below(tree, b) = {b})
       ELSE KindIn(tree, b) # "dir"
OtherDevice(a, b) == (a[1] = Mount) # (b[1] = Mount)

\* Mutant: the source goes before the copy.
AcrossDevicesEarly(a, b) == <<Do("remove", a, a), Do("copy", a, b)>>

AcrossDevices(a, b) == <<Do("copy", a, b), Do("remove", a, a)>>

\* move_path: what cannot be renamed to another device is copied, then removed.
Rename(w) ==
    /\ IsAt(w, "rename")
    /\ LET a == Place(tree, Next1(w).a)
           b == Place(tree, Next1(w).b)
       IN  \/ (a \notin DOMAIN tree \/ ~ParentThere(Next1(w).b)) /\ StepFails(w)
           \/ /\ a \in DOMAIN tree /\ ParentThere(Next1(w).b)
              /\ \/ /\ OtherDevice(a, b)
                    /\ UNCHANGED tree
                    /\ Then(w, AcrossDevices(Next1(w).a, Next1(w).b))
                 \/ ~OtherDevice(a, b) /\ ~Renames(a, b) /\ StepFails(w)
                 \/ /\ ~OtherDevice(a, b) /\ Renames(a, b)
                    /\ tree' = [q \in (DOMAIN tree \ Below(tree, a)) \cup {Rebased(p, a, b) : p \in Below(tree, a)} |->
                                   IF IsPrefix(b, q) THEN tree[Rebased(q, b, a)] ELSE tree[q]]
                    /\ Then(w, <<>>)

\* copy_recursive looks at the source: a link is made again, a directory is
\* made, filled and given its mode, a file is opened over what is there.
Copy(w) ==
    /\ IsAt(w, "copy")
    /\ LET a == Next1(w).a
           b == Next1(w).b
           from == Place(tree, a)
       IN  \/ Kind(a) = "none" /\ StepFails(w)
           \/ /\ Kind(a) = "link"
              /\ UNCHANGED tree
              /\ Then(w, <<Do("dirs", Front(b), b), Do("unlink", b, b), Do("link", from, b)>>)
           \/ /\ Kind(a) = "dir"
              /\ \/ DirsFail(b) /\ StepFails(w)
                 \/ /\ ~DirsFail(b)
                    /\ tree' = WithDirs(b)
                    /\ \E names \in SetToSeqs({Last(q) : q \in {p \in Below(tree', from) : Len(p) = Len(from) + 1}}) :
                          Then(w, [i \in DOMAIN names |-> Do("copy", Append(a, names[i]), Append(b, names[i]))]
                                     \o <<Do("mode", from, b)>>)
           \/ /\ Kind(a) = "file"
              /\ UNCHANGED tree
              /\ Then(w, <<Do("dirs", Front(b), b), Do("truncate", from, b), Do("write", from, b)>>)

\* prepare_symlink_destination, once the parent is there.
Unlink(w) ==
    /\ IsAt(w, "unlink")
    /\ LET p == Next1(w).a
       IN  \/ Kind(p) = "dir" /\ StepFails(w)
           \/ /\ Kind(p) # "dir"
              /\ Drops({Place(tree, p)})
              /\ Then(w, <<>>)
Link(w) ==
    /\ IsAt(w, "link")
    /\ LET a == Next1(w).a
           b == Next1(w).b
       IN  \/ (Kind(b) # "none" \/ ~ParentThere(b) \/ a \notin DOMAIN tree) /\ StepFails(w)
           \/ /\ Kind(b) = "none" /\ ParentThere(b) /\ a \in DOMAIN tree
              /\ Puts(Place(tree, b), tree[a])
              /\ Then(w, <<>>)

\* External: fs::copy, which empties what it opens and gives it the mode, then writes.
Truncate(w) ==
    /\ IsAt(w, "truncate")
    /\ LET a == Next1(w).a
           b == FollowLink(tree, Next1(w).b)
           fails == a \notin DOMAIN tree \/ ~ParentThere(Next1(w).b) \/ KindIn(tree, b) = "dir"
       IN  \/ fails /\ StepFails(w)
           \/ ~fails /\ Puts(b, Node("file", Empty, tree[a].mode)) /\ Then(w, <<>>)
Write(w) ==
    /\ IsAt(w, "write")
    /\ LET a == Next1(w).a
           b == FollowLink(tree, Next1(w).b)
       IN  \/ (KindIn(tree, a) # "file" \/ KindIn(tree, b) # "file") /\ StepFails(w)
           \/ /\ KindIn(tree, a) = "file" /\ KindIn(tree, b) = "file"
              /\ tree' = [tree EXCEPT ![b].data = tree[a].data]
              /\ Then(w, <<>>)
SetMode(w) ==
    /\ IsAt(w, "mode")
    /\ LET a == Next1(w).a
           b == FollowLink(tree, Next1(w).b)
       IN  \/ (a \notin DOMAIN tree \/ b \notin DOMAIN tree) /\ StepFails(w)
           \/ /\ a \in DOMAIN tree /\ b \in DOMAIN tree
              /\ tree' = [tree EXCEPT ![b].mode = tree[a].mode]
              /\ Then(w, <<>>)

\* delete and the end of a move: one name after another from below, never through a link.
RemoveAll(w) ==
    /\ IsAt(w, "remove")
    /\ LET p == Place(tree, Next1(w).a)
           leaves == {q \in Below(tree, p) : Below(tree, q) = {q}}
       IN  \/ p \notin DOMAIN tree /\ StepFails(w)
           \/ \E q \in leaves :
                 /\ Drops({q})
                 /\ IF q = p THEN Then(w, <<>>) ELSE UNCHANGED <<work, origin, spent, alone>>

\* list: the names of the directory, then what each of them is, if it is still there.
ReadDir(w) ==
    /\ IsAt(w, "read")
    /\ LET p == FollowLink(tree, Next1(w).a)
       IN  \/ KindIn(tree, p) # "dir" /\ StepFails(w)
           \/ /\ KindIn(tree, p) = "dir"
              /\ work' = [work EXCEPT ![w].todo = Tail(@),
                             ![w].found = {q \in Below(tree, p) : Len(q) = Len(p) + 1}]
              /\ UNCHANGED <<tree, origin, spent, alone>>
Describe(w) ==
    /\ IsAt(w, "describe")
    /\ work' = [work EXCEPT ![w].todo = Tail(@), ![w].found = @ \cap DOMAIN tree]
    /\ UNCHANGED <<tree, origin, spent, alone>>

\* search by name, with walk: no further than the limit, and through no link.
\* What is searched for is the last name of dst.
Walk(w) ==
    /\ IsAt(w, "walk")
    /\ LET p == Place(tree, Next1(w).a)
           hit == p # <<>> /\ Last(p) = Last(work[w].dst) /\ Cardinality(work[w].found) < MaxResults
           full == Cardinality(work[w].found) >= MaxResults
       IN  \/ Kind(p) = "none" /\ p = work[w].src /\ StepFails(w)
           \/ /\ Kind(p) # "none" \/ p # work[w].src
              /\ LET inside == SetToSeq(IF full \/ Kind(p) # "dir" THEN {}
                                        ELSE {q \in Below(tree, p) : Len(q) = Len(p) + 1})
                 IN  work' = [work EXCEPT
                        ![w].todo = [i \in DOMAIN inside |-> Do("walk", inside[i], inside[i])] \o Tail(@),
                        ![w].found = IF hit /\ Kind(p) # "none" THEN @ \cup {p} ELSE @]
              /\ UNCHANGED <<tree, origin, spent, alone>>

\* download_stream, whose transfer is the HTTP client's: a range of a file
\* that has the size expected, of at most MaxChunk bytes.
Downloads(size, expected, offset, length) ==
    /\ length \in 1..MaxChunk
    /\ expected \in {0, size}
    /\ offset + length <= size
Download(w) ==
    /\ IsAt(w, "send")
    /\ LET p == FollowLink(tree, Next1(w).a)
       IN  \E size, expected, offset \in 0..MaxChunk, length \in 0..MaxChunk + 1 :
              \/ (KindIn(tree, p) # "file" \/ ~Downloads(size, expected, offset, length)) /\ StepFails(w)
              \/ /\ KindIn(tree, p) = "file" /\ Downloads(size, expected, offset, length)
                 /\ UNCHANGED tree
                 /\ Then(w, <<>>)

\* handle: the result is posted until the server answers for good.
PostResult(w) ==
    /\ work[w].phase = "reply"
    /\ \E status \in {"2xx", "4xx", "5xx", "none"} :
          work' = [work EXCEPT ![w].posts = @ + 1,
                      ![w].phase = IF status \in {"2xx", "4xx"} \/ work[w].posts + 1 = MaxPosts
                                   THEN "done" ELSE "reply"]
    /\ UNCHANGED <<tree, origin, spent, alone>>

FoNext ==
    \E w \in Workers :
       \/ BeginRequest(w) \/ IoError(w) \/ AllDone(w) \/ PostResult(w)
       \/ MakeDirs(w) \/ Mkdir(w) \/ Chmod(w) \/ MakeStage(w) \/ Replace(w)
       \/ Rename(w) \/ Copy(w) \/ Unlink(w) \/ Link(w) \/ Truncate(w) \/ Write(w) \/ SetMode(w)
       \/ RemoveAll(w) \/ ReadDir(w) \/ Describe(w) \/ Walk(w) \/ Download(w)

FoSpec == FoInit /\ [][FoNext]_foVars

FoTypeOK ==
    /\ \A p \in DOMAIN tree : tree[p].kind \in {"dir", "file", "link"} /\ Len(p) <= MaxDepth
    /\ \A w \in Workers :
          /\ work[w].phase \in {"idle", "run", "reply", "done"}
          /\ work[w].posts <= MaxPosts
    /\ alone \in BOOLEAN

(***************************************************************************)
(* Properties.                                                             *)
(***************************************************************************)
Contents(t) == {t[p].data : p \in {q \in DOMAIN t : t[q].kind = "file"}}

\* No link is on the way to p or below it.
Linkless(t, p) == \A q \in DOMAIN t : t[q].kind = "link" => ~IsPrefix(q, p) /\ ~IsPrefix(p, q)

\* What was there at before, from p on, is now at the place of q.
Arrived(before, p, q) ==
    \A r \in Below(before, p) :
        LET now == FollowLink(tree, Rebased(r, p, q))
            seen == Place(tree, Rebased(r, p, q))
        IN  CASE before[r].kind = "link" -> KindIn(tree, seen) = "link" /\ tree[seen].data = before[r].data
              [] before[r].kind = "dir" -> KindIn(tree, now) = "dir"
              [] before[r].kind = "file" -> KindIn(tree, now) = "file" /\ tree[now].data = before[r].data

\* Whatever fails on the way, on one device or between two, the contents of a
\* file are not lost but by a request that names it or brings something to
\* its place; a move or a copy that reports success brought everything, and a
\* move left nothing behind; every name is part of a directory.
ContentsKept ==
    /\ alone =>
          /\ Contents(origin) \subseteq Contents(tree) \cup spent
          /\ \A w \in Workers :
                LET do == work[w]
                IN  do.phase = "reply" /\ do.ok /\ do.op \in {"move", "copy"} /\ do.src # do.dst
                        /\ Linkless(do.before, do.dst) /\ Linkless(do.before, Front(do.src)) =>
                        /\ Arrived(do.before, do.src, do.dst)
                        /\ do.op = "move" => do.src \notin DOMAIN tree
    /\ \A p \in DOMAIN tree : Len(p) > 1 => KindIn(tree, Front(p)) = "dir"

\* Where nothing is moved or copied, a staging file never outlives the
\* requests, though two creations of one file share it and may both fail,
\* unless one of them failed to remove it.
NoStageLeft ==
    (\A w \in Workers :
        work[w].phase # "run" /\ work[w].op \notin {"move", "copy"} /\ ~work[w].stuck) =>
        \A p \in DOMAIN tree : Last(p) # Stage

\* Both: what requests leave of the files.
FilesKept == ContentsKept /\ NoStageLeft

=============================================================================
