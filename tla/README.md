# Verification of the Komari agent

The Komari agent is a monitoring and remote-control agent for one machine. It
reports metrics to a Komari server over WebSocket or HTTP, takes events from the
server (commands, file operations, terminals, version switches), and updates
itself. This directory holds TLA+ models of its concurrent, crash-prone and
protocol-bearing parts, the TLC configurations that check them, and TLAPS proofs
of the most important results. All paths are relative to the repository root;
`src/...` is the agent's source.

    tlc -workers 2 -config X.cfg M      # the run of configuration X of module M
    tlapm M_proofs.tla                  # the proofs about module M

`PROJECT.json` lists every run, the definitions with the source lines they
translate (`map`), one plausible bug per property that breaks it (`mutants`),
the hazards of the code and the properties aimed at them, and the findings.

## 1. The system

One process. `main` enrolls the agent if it has no token, checks for an update,
and enters `run_reconnection_loop`, which never returns. Everything that waits
on the network for long has a thread of its own; there is no async runtime.

| component | source | state | operations | hard part |
|---|---|---|---|---|
| HTTP control plane | `server/reconnection.rs` | `V2EventBus` (pending acks, seen list), the generation of the session | `run_tick_loop`, `spawn_pull_thread`, `process_v2_response_events` | two threads, lost requests, duplicate delivery, sessions that end in the middle of a batch |
| Transport, backoff | `protocol/fsm.rs`, `server/backoff.rs`, `server/reconnection.rs` | mode, strikes, failures, timers | connect, session, failure, re-probe | counters reset in several places; time |
| File control: uploads | `file_control.rs` | session map, tombstones, stage files, worker and stream counts | `upload_stream`, `upload_commit`, `upload_cancel` | workers share the map but not the files; crash; cancel at any time |
| File control: the rest | `file_control.rs` | none | list, search, create, mkdir, delete, move, copy, chmod, download | partial failure in copy and move, two workers on one path |
| Enrollment | `autodiscovery.rs` | saved credentials | `resolve_token`, `save_credentials` | crash, lost answer |
| Self-update | `update.rs` | executable, `.new`, `.old` | `check_and_update`, `install_verified_binary`, `replace_with_rollback`, `restore_after_failed_exec` | crash between renames, two installers, an executable that does not start |
| WebSocket | `ws.rs` | partial frame, partial message | `connect`, `FrameReader`, sending | a time-out every 100 ms at any byte; bytes behind the head of the answer |
| Subprocesses | `process.rs` | pipes, process group, deadline | `run` | descendants that outlive the command, shared output budget |
| Remote terminal | `terminal/*`, `server/reconnection.rs` | session count, PTY | open, read, write, resize, close | threads of one session, the limit |
| Tasks, pings | `server/task.rs`, `server/ping_*.rs` | worker count | run, upload the result, retry | retry of what the server already has |
| Traffic accounting | `monitor/netstatic.rs` | counters of the month, on disk | sample, roll over, save | counters that restart, month boundaries, overflow |
| Metric collectors | `monitor/*` | previous samples | sample | rates of two samples |
| HTTP client | `http.rs` | buffer of a response | request, chunked bodies, redirects | deadlines, limits |
| Proxy, DNS | `proxy.rs`, `dns.rs` | resolver cache | dial, resolve | fallbacks among addresses and servers |
| TLS, crypto | `tls.rs`, `crypto.rs` | - | wraps rustls; hashes | - |
| Compression | `gzip.rs`, `inflate.rs` | - | deflate and inflate, the container | bit-level boundaries, damaged streams |
| JSON, configuration | `json.rs`, `config.rs`, `protocol/v2.rs` | fixed buffer and comma flags of the writer | scan, encode, layer options | precedence, malformed input, a full buffer |
| Scratch arena | `arena.rs` | bump pointer | allocate, reset | bounds |

Interactions. The server's events reach handlers through two paths: the answer
to a report (on the tick loop) and the answer to a long poll (on a pull thread).
Both go through the event bus; a handler may start a worker thread (files,
terminals), run on the dispatching thread itself (commands, pings) or be an
installer (version switch, also on the thread that took the event), which
replaces the process. Worker threads answer the server
over connections of their own. `Transport` decides which of the paths exists:
a session is one stay in `run_tick_loop`, and ends with an error or with the
time for a re-probe.

What makes the components correct:

* control plane: an event runs once though it is delivered many times; the
  server forgets none that did not run; a session that is over acts no more;
* transport: failures fall back and are not forgotten by accident; a downgrade
  is not for ever; HTTP-only stays HTTP-only;
* uploads: a committed file is whole; what is said to be stored is stored; a
  cancel leaves nothing that could be removed; every worker comes back;
* start and update: there is always an executable, the backup is kept until it
  can be replaced, the identity is kept, the agent comes up again;
* frames: what is returned is what was sent; memory stays within the limit;
* subprocesses: captured output is exact or flagged; nothing of the group is
  left; `run` returns;
* terminals: no more than the limit, no slot lost, an abandoned one ends;
* tasks: one answer for each, about that task, saying what happened;
* files: what fails half-way loses no contents that the request did not name;
* reaching the server: an address the host has, the proxy when and only when the
  settings say so, no byte lost between proxy, upgrade and frames;
* HTTP and downloads: a body is whole or an error; a release is installed only
  if its bytes are those the manifest names; the token stays with GitHub;
* texts: what the agent writes can be read back, and damage is refused;
* measures: a byte, a disk, an interface is counted once;
* configuration: the highest layer that says something legible wins.

## 2. The modules

    EventDelivery          abstract: what the control plane promises
       ^ refined by
    PullSession            server/reconnection.rs: bus, pull threads, tick loop (HTTP)
       PullSession_proofs, MCPullSession
    Transport              protocol/fsm.rs, server/backoff.rs, run_reconnection_loop
       Transport_proofs
    UploadSessions         file_control.rs: uploads
       UploadSessions_proofs, MCUploadSessions
    AgentFiles             what a file may hold
       Enrollment          autodiscovery.rs
       SelfUpdate          update.rs
          Startup          main.rs: composes the two with the process and switch events
             Startup_proofs, MCStartup
    MessageStream          abstract: what a WebSocket promises its reader
       ^ refined by
    FrameReader            ws.rs: FrameReader
       FrameReader_proofs
    Subprocess             process.rs: run                         (Commands_proofs)
    TerminalSessions       terminal/*, handle_terminal_request     (Commands_proofs)
    MCConnections          five machines that reach a server
       Connections         what the next four promise together
          Connections_proofs
          Dialing          dns.rs, Dialer of proxy.rs
          Tunnel           proxy.rs: exceptions, HTTP CONNECT, SOCKS5
          Handshake        ws.rs: upgrade and writing
          Downloads        update.rs up to the verified binary
       Http                http.rs                                (Connections_proofs)
    MCCommands             four machines of what the server or the user asks for
       Commands_proofs     of Subprocess, TerminalSessions, Tasks, Settings, Traffic, Measures
       Tasks               dispatch_server_message, server/task.rs, server/ping_*.rs
       FileOps             file_control.rs but the uploads
       Settings            config.rs, the checks of main.rs
       Traffic             monitor/netstatic.rs and the network part of a report
    MCMeasures             five machines over texts and lists
       Json                json.rs, the parser of config.rs
       Deflate             gzip.rs, inflate.rs
       Measures            what the next two promise together     (Commands_proofs)
          Interfaces       monitor/net/mod.rs
          Disks            monitor/disk/linux.rs
       PublicAddress       monitor/ip/linux.rs
    MCMachines             composes all of the above, one machine at a time
    MCTransport            composes Transport, Subprocess and TerminalSessions, with fairness
    Induction_proofs       induction over numbers, parts of a set and folds, for the proofs

### PullSession

`V2EventBus` is `pending` (pending_acks) and `seen` (a sequence, oldest first,
cut at `SeenCap` = `SEEN_CAP`). `HTTP_V2_GENERATION` is only compared with what
a thread was given, and no two threads are given the same value, so `owner`
records whose value is current. The tick loop (`Main`) and each pull thread are
callers of the bus with a `pc`: `drain` takes the acknowledgements, `posting` has
them on the wire, the server serves (perhaps without the answer arriving) or the
request is lost, `marking` notes the batch under the lock, `dispatching` calls
the handlers one after the other. `EndSession` is the way out of `run_tick_loop`
by whatever path (`PullSessionGuard::drop` takes the generation). A crash empties
the memory of the process and nothing else. Handlers are one step here: what
they do is the subject of the other modules.

The server is external: it keeps an event until an acknowledgement arrives and
offers any subset of what it keeps in any answer.

### Transport

`LoopTop` is the head of `run_reconnection_loop` (re-probe and all),
`ConnectOk`/`ConnectFail` the attempt, `SessionYield`, `SessionGoesOn`,
`SessionRound`, `SessionFail` the turns of the session, `WakeUp` the end of the
backoff. `Tick` passes time where the loop blocks. `compression` models the
retry without permessage-deflate. Times are in units: what matters is that a
healthy session (`MinHealthy`) is shorter than the re-probe interval, and that
both can pass before, during or after each step. `ConnectionFsm` in fsm.rs is
used by nothing and is not modelled.

### UploadSessions

One worker slot per thread that `file_control.rs` may start; each walks through
`upload_stream` (tombstone check, session lookup or creation, stage file,
transfer, record), `upload_commit` or `upload_cancel`, one step per lock or
system call. An inode stands for one creation of a stage file and for the
session and `canceled` flag made with it, so that "same path" and "same file"
differ, as they do on disk. Every removal of a stage file may fail (`RemoveStages`;
only `upload_cancel` reports it, when the session is gone already), and a cancel
may be asked again; `orphaned` are the files on disk that were lost sight of, by such a
failure, a restart, or a creation that failed halfway. Chunk metadata (offset, length, hash) is taken to be
valid: the checks on it are arithmetic on one request.

### Enrollment, SelfUpdate, Startup

A file is `Absent`, `Torn` (created and not yet synced), or has a value: a node identity or a
release number. `Enrollment` walks through `resolve_token` and
`save_credentials`; `SelfUpdate` has two `Installers`, the thread of `main` and
the tick loop, and the pull thread, each at its own step of
`install_verified_binary`; on Unix the swap is one rename and `exec`, on Windows
two renames with a way back. Whatever the disk does may fail: the removal of a
staged file, which then stays in the way of every later installer, the execution of
any file, and the roll-back, after which the agent goes on with the new file
installed and the one it runs in `.old` (`rollback` remembers that). `Startup` adds the process (`phase`), the kill at
any point, the supervisor, and the switch events with as much of the bus as they
touch. Releases are numbers; `Broken` ones do not start; `Matches` says which a
selector accepts. Verification (checksum, platform) is taken as done by `Check`:
its failure is an outcome.

### FrameReader, Subprocess

`FrameReader` is compared with the server's own view (`promised`): the reference
is written over frames as sent, the reader over bytes as they arrive. A byte is
`<<frame, place>>`. `Read(n)` is one successful `read`, `TimedOut` the 100 ms
time-out; between two calls of `read_message` nothing but the struct survives.
What it amounts to is `MessageStream`: the server says something or breaks off,
the connection is lost, the reader has the next message or gives up. Frames,
bytes, fragments, calls and time-outs are steps the abstract reader does not see
(`promised` is `messages`, `delivered` is `received`, `eof` is `cut`).

`Subprocess` counts bytes. The command may write, read, exit, fork, and its
helper may leave the process group, in between any two steps of `run`; the
deadline may pass at any time. A command that leaves its group is beyond what
`run` promises to stop, and `CaptureExact` says nothing of its output.

### TerminalSessions

`Request`, `Refuse`, `SpawnThread`, `SpawnFails` are `handle_terminal_request` on
either dispatching thread; the counter is taken before it is compared, as the
code does. A session's thread dials, opens the pseudo-terminal, asks for its name
(`ptsname`, which writes one buffer of the C library), forks, and copies: a turn
is the look at the clock, one read of the WebSocket, one read of the terminal.
What is typed and printed is left out; whether there is any is what the idle
time-out depends on.

### The machines of MCMachines

Seventeen machines that share no state: the three above and fourteen more. One
variable says which is under way, the others stay at one initial state
(`ConPinned`, `CmdPinned`, `MeaPinned`), so that the states of the sum are the
sum of the states. None has fairness here; `MCTransport` runs the three with
something that must end under theirs. Nine of the
fourteen join their properties in `ConnectionsSound`, `MeasuredOnce` and
`TextsSound`, named for the question; each conjunct is stated in its own module and
has there a plausible bug (its comment begins with "Mutant:") that breaks it. What is proved is checked whatever machine runs; what is not is guarded
by its machine.

**Dialing.** A thread (`thread`) looks for its host in the cache (`DialHost`),
asks server after server for one family and then the other (`QueryAnswered`,
`QueryTimesOut`, `QueryFails`; with happy eyeballs the first round waits less and
a second may follow), then the system's resolver, orders the addresses, writes
the cache, and tries to connect to one after the other. Answers may be late,
lost, truncated, or of a zone that moves meanwhile (`HostMoves`). `observed`
remembers when an address was last the host's.

**Tunnel.** `Choose` evaluates NO_PROXY with its suffixes, addresses and networks;
after it the handshake is a reader over a stream that delivers in any pieces
(`ReadProxy(n)`), one state per read of the code, so that what comes behind the
proxy's answer must still be there for the host's protocol.

**Handshake.** `WsConnect` is all up to the connection: scheme, path, token,
refusal of what cannot stand in a request line. `ReadByte` is one turn of the loop
that reads the head, `Verify` the checks on it (`UpgradeProven` is what they are
for), `SendFrame` and `WritePiece` the writer with its 4-byte mask and chunk-wise masking.
`FramesArrive` is the server's side of it: from the first byte on, where it expects a
frame (`frameStarts` remembers where the agent began one) a frame begins, and what it
unmasks as a whole is what was sent; a frame of which something is still owed it does
not take for whole.

**Http.** The server's answer is a sequence of tokens (status, header, size,
byte, line end), and the server a machine that says one after the other
(`ServerSaysLine` ...): any head - a length, chunks, both, two of one - and then
bytes or chunks of the body it means. It may close, and the connection may stall,
at any token. `ReadWhole` and `ParseWhole` are `http_request`, with
`decode_chunked` as a fold of its loop (`TakeToken`); `ReadHeadLine` and
`CopyResponse` are `http_post_stream`.

**Downloads.** `Select` is the choice among the releases of GitHub's list, each
later step one response, redirected or not: the URL is resolved, the token of
the repository kept or dropped, the body framed and limited, the manifest
searched, the checksum compared. Versions are sequences of parts, as the code
splits them. SelfUpdate goes on from `verified`.

**Tasks.** `DispatchMessage` is `dispatch_server_message`, with every early return;
`BeginExec` to `EndExec` a command with the script file of Windows; `PingIcmp`,
`ConnectTcp`, `RequestHttp` the probes with their retries, fallbacks and
redirects, on a clock; `SendOnSocket` and `PostAnswer` the two ways an answer
leaves by. A command's outcome is one of those `Subprocess` may end with. On Windows
its exit code may be any number, -124 and -125 among them (`OwnCodes`), which are also
what a time-out and a cut are told by; there only the notice added to the output
tells which it was. The script may be left behind when it cannot be removed.

**FileOps.** A file system is a function of paths to nodes. An operation is a
list of steps (`work[w].todo`) that the request sets up and each system call
shortens or, for a copy of a tree, lengthens; `IoError` fails any of them, with
the clean-up the code has and no other; the clean-up may fail too, unnoticed
(`stuck`). A request may be refused at once (web control off, no id, a path that will
not do). Two workers run side by side.

**Settings.** One option per kind of option, a command line of up to two words
besides, an environment and a file: `ArgTaken`, `LoadEnv`, `LoadJson`, `Check`.

**Traffic.** A tick reads the counters, updates the previous sample and the
month, and saves; a kill, an interface that comes or goes, and a clock that is set
back are steps of the environment. When the counters cannot be read no interface is
seen, and the previous samples stay. Numbers are modulo `Width`, so that wrapping is
what the build does. `bill` is the reference: what the calendar alone would bill, its
cycle beginning on the day of the month, whatever `maybe_reset` does. `TotalExact`
compares the two, and names where they part: a sum of counters that fell
(section 6), a clock set back over a cycle, a file created before the day of its
month (it carries that month already, so that the day resets nothing and two cycles are
one total), and a cycle first seen in the month after (the reset waits for the day).

**Json.** Either the environment writes a text token by token and both readers
(the scanner of json.rs, the parser of config.rs) are compared with the grammar,
or the agent's writer is called in any order the types allow, with a buffer and a
nesting limit. Scalars are read character by character in operators.

**Deflate.** The compressor's hash chain with its window, and the decompressor
block by block, on real bits; the windows and limits are small, the code tables
are those of RFC 1951. The server's streams are encoded by an operator written
from the RFC, with the damages a stream can have.

**Interfaces, Disks, PublicAddress.** A pattern is read character by character
(`ReadChar`, which says where in a term or class the loop is) and matched with two
rows of a table, one term per step; the mounts in turn, with the devices remembered; the
services asked in turn, with pages cut anywhere and the two text scanners.

## 3. The runs

| run | states | shows |
|---|---|---|
| `pull` | 1 event, 2 pull threads, seen list of 2, no crash | at most one dispatch; the owner has a session; the refinement of `EventDelivery`; dispatch, acknowledgement and departure of old threads in the end |
| `pull_evict` | 2 events, 1 thread, seen list of 1, 1 crash | types; nothing is forgotten unhandled, even when the list evicts and the process dies |
| `pull_stale` | finding 1 | a handler runs on a thread whose session is over |
| `transport` | all counters to saturation; beside it one command (as in `machines`) and 2 terminals | HTTP-only; strikes never ahead of the backoff; flapping falls back; a downgrade ends; `run` returns; forgotten terminals end |
| `transport_fallback` | finding 2 | HTTP selected and left without being used |
| `upload` | 1 upload of 2 chunks, 3 workers, 2 streams, 2 stage files, 1 crash | a committed file is whole; received is stored; a cancel leaves nothing but what could not be removed |
| `upload_prune` | finding 3 | with a transfer slower than the idle limit, a committed file has a hole |
| `upload_spin` | finding 4 | a cancelled transfer never ends |
| `startup` | 3 releases (the last one broken), a switch to the latest and one back to the first, 2 process ids, 2 identities, 1 kill, both platforms | executable, backup, identity, return to the loop, acknowledgement of the switches that the next start does not undo |
| `startup_switch` | finding 5 | a switch to an older release does not last |
| `machines` | 17 machines, bounds below | the stream of messages, memory, capture, nothing left, terminal slots; connections, responses, texts, disks and interfaces, traffic; tasks, files, layers |
| `terminal_name` | finding 6: 2 terminals | a shell on another session's terminal |

Why the bounds are enough for what is claimed of them. Two pull threads give an
old and a new session, which is as many as the code distinguishes (`owner` or
not); a third would be a second old one. A seen list shorter than the number of
ids exercises eviction; one at least as long the promise. Three
workers are a transfer, the commit or repeated chunk that overtakes it, and a
cancel. Two stage files are the one before and the one after a restart or a
cancel. Two installers are all there can be: one per dispatching thread, of
which one pull thread is current. One kill per behaviour visits every step, and
what a second would do it does from states the first restart can already
produce. Three frames are a fragment, a control frame and the
continuation; payloads of at most the limit plus one cross it by fragments and by a
single frame. Two dispatchers and a limit of one terminal race for the last
slot; more terminals only add slots nobody races for. A pipe of 2 and a read of 2 against a limit of 3 give the exact
fit, the sentinel, and bytes left in a pipe when the loop ends. These are
arguments about small instances, not proofs; section 5 says what is proved.

The machines of `machines`:

| machine | bounds | what they reach |
|---|---|---|
| frames | 3 frames of 10 kinds, messages to 2 bytes | a fragment, a control frame and the continuation, across the limit |
| process | output limit 3, pipes of 2, input of 2 | exact fit, the sentinel, bytes left in a pipe |
| terminals | 2 dispatchers, 2 sessions, limit 1 | the race for the last slot |
| dialing | 1 thread, 2 hosts, 3 addresses of 2 families, 2 servers, cache of 1, life of 2 ticks, 2 ticks | eviction, expiry, every order of answers |
| tunnel | 7 targets, 6 exceptions, 2 in a list, 2-bit addresses | every relation of a name to a suffix and of an address to a network |
| handshake | 10 answers, heads to 15 symbols, 2 frames, lengths across 3 scaled thresholds | key of another request, bytes behind the head, a line end without CR |
| http | bodies to 2, heads of 2 lines, responses to 11 tokens, stream limit 1 | every cut, every claim of length, two chunks and a trailer |
| downloads | 6 lists of releases, 8 selectors and the start, 24 answers, 2 redirects | drafts and prereleases, doubled assets, `01`, redirects of every form |
| tasks | 20 messages, 6 policies, round trips to 4, 3 hops, 2 addresses, 2 retries | each threshold from both sides |
| files | 3 trees with links and a second device, depth 3, 16 and 2 requests, 2 posts | a failure at each system call, two workers on one file, a link on the way |
| settings | 2 words, 5 kinds of options | an option twice, an option's value that looks like one |
| traffic | 2 interfaces, 4 values of a counter, 5 days of 2-day months, rotation off or on the second day, 2 moves, 1 upset | wrap, kill between tick and save, a cycle that changes between ticks or while down, a sample that fails |
| json | 9 tokens, nesting and levels of 2, buffer of 11, numbers of 5 and strings of 4 characters | every malformed neighbour of a small document, and a document deeper than the limit |
| deflate | all texts of 2 bytes up to 5, runs at the longest match, window 9, chain 2 | every code-length step, window edge, all block types and damages |
| interfaces | 1 pattern per list of up to 5 characters, 5 names | classes, ranges, escapes, stars at separators |
| disks | 3 mounts of 9, 2 disks | one disk at two mounts, two datasets of a pool, a full vector |
| address | 7 pages, 2 entries of getifaddrs, 1 service of a kind | octets of 255, 256, 260 and 299, numbers that run together, a trace of two families |

Sizes that are compared with one another are scaled together (a window of 9 for
32 KiB), thresholds are crossed from both sides, and lists have two members where
the order or a repetition matters.

Deadlock is checked in `pull` and `pull_evict`. It is off in the
uploads (the server stops asking when the bounds are used up), `startup` (an
agent whose executable was lost on Windows, or whose executable does not start,
stays down), `machines` and `transport` (a connection that ended, a command that
returned, and whatever else is done once) and the violation runs over them.

`upload` runs without `SlowTransfers`, because `CommitComplete` fails with them
(finding 3, run `upload_prune`); `pull` runs without crashes, because
`AtMostOnce` and the refinement are promises of one life of the process.

## 4. Fairness

* `PullSession`: threads run and requests end (the client has time limits), so
  their steps are weakly fair. The end of a session is fair after a failure only.
  The network is fair-lossy: an event or an acknowledgement that is sent again
  and again arrives some time (strong fairness per event).
* `Transport`: the loop, the end of connects and of session operations and of
  sleeps are weakly fair. No success and no failure is assumed: `FlappingFallsBack`
  and `DowngradeNotPinned` (in the run `LoopFallsBack` and `LoopReturns`) name
  their premises. This and the fairness of the next two is stated in
  `MCTransport!AllFairSpec`.
* `UploadSessions`: each worker's next step. Requests from the server are not fair.
* `Startup`: the supervisor restarts a dead agent; threads run; the network and
  the disk do not fail at the same step of enrollment at every start for ever
  (strong fairness of each success). Kills are not fair. `SwitchAcknowledged` excepts
  the time that a switch is asked for which the next start undoes (finding 5): its
  executions take the acknowledgements of the others with them.
* `TerminalSessions`: a session's thread is weakly fair, and so is the clock that
  makes it overdue. A peer that stops reading without closing would block a send
  for as long as TCP keeps trying (the connection has no write time-out); the
  thread's fairness takes that to be finite.
* `Subprocess`: the thread of `run` is weakly fair, and so is the clock. Nothing
  is assumed of the command.

## 5. The proofs

| theorem | assumptions | argument |
|---|---|---|
| `TypeCorrect` | those of the module | `TypeOK` is inductive, one step per action; the only hard leaf is `Remember`, which keeps the list a sequence of at most `SEEN_CAP` ids |
| `NoneForgotten` | the same | `Accountable`: acknowledgements exist only of events that are handled, in hand, or taken by a crash - in the bus, on the wire, and in the seen list. Without the seen list in it the invariant is not inductive: an id found there is re-acknowledged |
| `OwnerHasSession` | the same | `SessionInv` adds that a thread becomes the owner only with `pullStarted`, which is local to the session |
| `DispatchedAtMostOnce` | `FewIds`: at most `SEEN_CAP` ids | `DispatchOnceInv`: an id in hand or run is in the seen list; no two callers hold it; the list has no repetition, so it never evicts. Cardinality makes room (`RoomToRemember`) |
| `BusImplementsEventDelivery` | `FewIds`, `NoCrash` | every step maps to a step of `EventDelivery` or a stutter (`StepRefines`), from the invariants above and `RefinementInv` |
| `RunTypeCorrect` | those of the module | `SpTypeOK` is inductive; `AvailableFacts` bounds what one read takes |
| `CapturedExactly`, `GroupStopped` | the same | `ExactInv`: bytes written = captured + in the pipes (saturating at one over the limit) until the cut; `OutputLimit` only for an overflow; after an empty turn of the last reads stdout is empty for good, since only a process that left the group can still write |
| `TerminalSlotsAccounted`, `TerminalTypeCorrect` | finitely many threads and slots | `TmInv`: the counter is the threads running, about to be started and being refused; the first two together stay within the limit (`WithinLimit`), which the counter alone does not say. `GateMoves`, `ThreadStarts` and `ThreadEnds` are the lemmas on the counts |
| `ReaderMemoryBounded` | the kinds of frames | `PayloadAdmitted`: a payload is in hand only under an accepted header, and no longer than it announced; that the admission still holds when the last byte comes is `SameVerdicts`, since neither the message nor the header moves before |
| `DeliveryFaithful`, `EndsOnlyForCause` | the same | `TrackInv`: the server's accounts after each frame form a history (`Verdict` is `Promise` as a function), and the reader is at one of them, `c`: its message is the one open there, what is in hand are the first bytes of frame `c + 1`, and the wire goes on where they stop. A read moves the place in the stream (`ReadTracks`), a whole frame moves `c` (`FrameEnds`), and the reader's verdict on a header is the server's (`VerdictsAgree`). A broken account is the last one (`History`), so that who fails on a frame has everything |
| `ReaderImplementsMessageStream` | the same | `SendRefines`: a frame is a word, the breaking off or a part of a word; `ReturnRefines`: what is returned is the next word, since the reader was and stays behind the server (`Behind`, from `TrackInv` before and after the step); `FailTracks` and its like say why the reader may give up |
| `EveryTaskAnswered` | those of the module; a ping's id is a number or absent | `TaskInv`: the probe under way is of a kind that follows from what was asked (`ProbeAsked`), and `best` is the least of its series, all of which were too slow to stop at (`Series`). `KeepsLeast` and `MeasuredKeepsInv` carry this over a measurement that is kept, discarded as a retransmission or falls back to another kind; `ResultTells` reads the exit code off the answer's parts |
| `ExecutableAlwaysThere`, `BackupNeverLost` | those of the modules | `FilesInv`: one installer at most has the staged file (`create_new` is the lock), which is whole from `dropOld` on; an executable that is out of the way is the running image, which Windows keeps as `.old`. `InstallKeepsFiles` has one step per action; `OfferedReleases` rests on `MaxExists`, that a non-empty set of releases has a newest one |
| `LoopRunsTheFile` | the same | `BootInv`: before its loop main is the only installer, the executable is the running one until main swaps it, and from then on the backup is, so that the roll-back restores what runs, or where it fails leaves it in `.old` (`MainKeepsBoot`) |
| `ReceivedIsStored`, `CommittedIsComplete` | `NoSlowTransfer`: no session times out during a transfer of it (finding 3 is what happens otherwise) | `StoreInv`: until an upload is settled, a worker past `lookup` works on the session there is, which does not expire, and on its file. The properties say nothing of workers, and are not inductive alone: a late `record` would break them |
| `CancelSweeps`, `UploadTypeCorrect` | those of the module | `CancelInv`: a stage file without a session is orphaned (`RemoveStages` keeps it so whatever it fails to remove), and a session of a cancelled upload is one a worker at `check2` is about to take back. `TypeInv` adds finiteness, and `LookupKeepsType` counts the sessions of a prune |
| `IdentitySettled`, `StartupTypeCorrect` | the same | `EnrollInv`: an enrollment past `load` means that there are no credentials, and its stage file holds the token in memory |
| `DialsStayRight` | those of the module: servers, sizes and times are numbers, an entry lives at least a tick, the addresses are a sequence | `DialingInv`: an address in a thread's hands or in the cache was the host's at a time the invariant names (`SeenSince`): now, while the lookup goes on, since the entry was written, or within its life; and `observed` never runs ahead of the clock. An answer is filtered from the zone by a fold, `Swap` keeps the set of what it orders (`SortByPreference` is a fold over swaps), and eviction takes one before one is added |
| `TunnelsStayRight` | targets and exceptions are names and numbers | `TunnelInv`: the handshake is before an answer (`Unanswered`: what came is a beginning of what the proxy sends) or within it (`Answered`: what is left unread is the rest, and `wants` is what the code reads next); `Bypasses` is compared with the reference `Names` for each kind of entry, networks by division with a rest |
| `DownloadsStayTrusted` | the lists of releases are sequences | `DownloadInv`: while the token goes along all requests had one origin, and it is GitHub's (`TokenAtHome`); what was received belongs to the release chosen (`Chosen`, `Received`), which is the highest that does (`SelectedIsHighest`) |
| `ResponsesStayWhole` | the bounds are numbers | `HtInv`: what was sent is a head, its first blank line the last, and tokens of the body (`Parted`); under chunks the decoder, run over what came so far, is where the server is in its grammar, with as many bytes of the chunk to come (`InChunks`, one lemma for each thing the server says). A head read line by line and not refused is the server's head and says no chunks, so that what is copied from behind it is the body (`StreamIsBody`). That one more token is one more turn of the decoder (`DecodeAppend`) is an induction over the fold |
| `UpgradesStayProven` | the answers are sequences of symbols | `UpgradeInv`: what was read and what is left make up the answer, and its only end of a head is at the last byte read, if that was found (`ReadSoFarOf`; `ReadByteKeeps` is one more byte). So the loop stops at the first end of a head there is in the answer, and has not touched what comes behind it |
| `FramesStayWhole` | payloads and masks are bytes, a mask is 4 of them, a payload with its deflate header is below 2^31 bytes; the thresholds are within the widths of the length fields; a chunk is a multiple of 4 | `FramesInv`: every frame but the last is on the wire in one piece, from its start to the start of the next (`WholeFrame`); of the last, what is written is a beginning, and what is still owed spells out the rest (`Underway`, `Spells`). The header is read back for each of its three widths (`HeaderRead`), masking twice is nothing (`MaskedTwice`), and since a chunk starts at a multiple of 4 its mask is that of the whole (`ChunkMasked`) |
| `ConnectionsStaySound` | those of `DialsStayRight`, `TunnelsStayRight`, `UpgradesStayProven`, `FramesStayWhole` and `DownloadsStayTrusted` | the five together, which is what the run checks |
| `LayersAlwaysResolve` | those of the module | `SettingsInv`: each option is what the layers read so far say; on the command line, what the last flag before `position` says (`ReadSoFar`). Which words are flags and which are values is decided from the left (`FlagStarts`); that such a set exists, and only one, is an induction over the line |
| `TrafficIsAlwaysAccounted` | finitely many interfaces; numbers | `TrafficInv`: the counters' sum is what the last tick saw and what passed since, the total is the saved one and what was counted, modulo the width (`SamplesBehind`, `TotalsBehind`, `DiskExact`); the month of the total is that of the cycle billed, but for the exceptions the property names (`MonthsMatch`), so that the program starts a new total exactly when the calendar does (`RollOver`). The sum is a fold over a set: that it splits at an element, and rises with it, is `FoldExists` and `PartsByInduction`; the month's rule is `RemainderIs` and `WrapOnce` |
| `DisksCountedOnce` | those of the module: a device has a name, a file system is not fuller than it is large | `DisksInv`: disk `k` stands for the first line `g[k]` of its device, one to one with the lines kept (`Stands`), at the largest size the lines show of it (`Largest`), and a first line is left out only when the vector is full. `KnownDiskHolds`, `NewDiskHolds` and `FullDisksHold` are the three ways of `Record`; `SumRenamed` turns the sum over the vector into the sum over the lines |
| `NicsStayChosen` | patterns and names are sequences of characters | `NicInv`: the row holds the beginnings of the name that the terms matched so far can reach (`TableOf`, `RowOf`); no pattern before the one tried matched (`NoneOf`). `Reaches` cuts the name into one piece per term, all at once; that a row is the cuts of one term more is `ReachesFurther`. That the parser ends with a sequence of terms, whatever the pattern, is an induction over its fold (`TermsType`) |
| `MeasuredStaysOnce` | those of these two | both together, which is what the run checks |
| `TransportTypes` | those of the module | `TypeOK` is inductive; the sleep is capped, and its 2^n is a number since it counts the subsets of a set of n elements |
| `HttpOnlyForever`, `BackoffFollowsStrikes` | those of the module | `IInv`: counter types, the two properties; `FailureKeepsIInv` and `ReconnectKeepsIInv` are the lemmas on `on_failure` and `on_reconnect` |

For any number of events, threads, losses and (where `NoCrash` is not assumed)
crashes, any sizes of pipes and limits, any releases, selectors and process ids.

The library's theorems on induction take the property as an operator, which the
provers cannot instantiate. `Induction_proofs` does without: what has the property
is a set, and a least element (a minimal part, a shortest sequence) outside that
set is refuted. With it, sums over sets and folds over sequences are reasoned about
for data of any size. Operators declared `RECURSIVE` stay out of reach, and so does
`SelectSeq`, which the provers do not expand; `Dialing` filters with a fold.

Model-checked only. All liveness (fairness and ENABLED are beyond the prover).
`TextsSound`: `Json`, `Deflate` and `PublicAddress`
are written with recursive operators, and what they compute is compared
with a reference over bounded inputs instead; of `Handshake` the encoding
of a token is in it (`TokenArrives`), what it computes being an induction over data. `FilesKept`, for two reasons: paths are
followed by recursion, and it is true of the trees and requests of the run rather than of
all (another request that deletes a link on the path between the stage file and its
rename leaves the stage file behind).
`MCMachines!TypeOK`, as a whole; its parts of the readers, the runner and the
terminals are proved.

## 6. Findings

1. **A stale response dispatches** (`pull_stale`, `server/reconnection.rs:594`).
   architecture.md:26 and the comment at :592 rule it out; the generation is
   checked once per response, not per dispatch.
2. **HTTP is skipped after the third failure** (`transport_fallback`, `:167`).
   `last_reprobe` is not set when HTTP is selected, so that an agent that has been up
   for the re-probe interval goes straight back to the WebSocket.
3. **A late transfer marks a chunk of another session** (`upload_prune`,
   `file_control.rs:1265`).
4. **A cancelled transfer spins** (`upload_spin`, `file_control.rs:1381`):
   `Interrupted` is what `write_all` retries.
5. **A switch to an older release is undone at the next start**
   (`startup_switch`, `main.rs:82`).
6. **Two terminals share a name buffer** (`terminal_name`,
   `terminal/unix.rs:140`). unix.rs:59 excuses `ptsname` with "we are ST"; terminals
   run on threads.

Smaller divergences met on the way, with no run of their own:

* The seen list evicts ids that are not acknowledged: with more than `SEEN_CAP`
  ids outstanding an event can run again (architecture.md:26).
* README.md:68 calls `reconnect_interval` the "initial exponential reconnect
  backoff"; `backoff.rs:47` starts at 2 s and uses it as the cap.
* fsm.rs:19 says `on_success` follows "any successful connection"; the caller
  waits for a session of 30 s.
* autodiscovery.rs:3 says "exactly once": a lost answer or a kill before the
  rename registers again, and the stage file named after the process id blocks
  the same id (as in a container, where it is 1) until it is removed.
* CHANGELOG.md:272 calls the Windows replacement atomic; a kill between its two
  renames leaves the executable under the backup's name only. That is the
  exception `NeverWithoutExecutable` makes for Windows.
* architecture.md:62 promises the previous path after a failed exec; with two
  installers at once the backup may be another one's, or gone.
* A `.new` left by a kill stops all later updates, by design.
* terminal/unix.rs:90 says `child_pid` is "0 after reap": `close` waits with
  `WNOHANG` right after closing the terminal, and forgets a shell that has not
  died by then; it stays as a zombie until the agent ends.
* terminal/mod.rs:290 "retrying on partial writes": the terminal is
  non-blocking, and a write it has no room for is an error that ends the session.
* terminal/mod.rs:232 takes a read of 0 bytes for the end of the shell; Linux
  reports it as `EIO`, which is returned as an error.
* `exec` loses the acknowledgement of the switch that caused it; the server
  sends it again, and the new process acknowledges it then, if it is still the
  release that was asked for. A switch to an older release is not (finding 5): it is
  executed and undone for ever and never acknowledged, nor is what waits beside it
  (architecture.md:26 "deduplicated and acknowledged"). That is the exception of
  `SwitchAcknowledged`.
* netstatic.rs:131 calls the wrapping of the month's total "harmless", and
  monitor/mod.rs:299 says its `wrapping_sub` mirrors the per-interface path, which
  saturates (net/linux.rs:92). What is subtracted is a sum over the interfaces, which
  falls without any overflow when one vanishes or starts again at zero: the total is
  off by almost 2^64 until the month ends. So it is after a failed read of
  /proc/net/dev, until the next tick takes it back. That is the exception `fell` of
  `TotalExact`.
* netstatic.rs:146 says a total is reset when its month is "older than the current"
  one; any difference will do, also when the clock went back. A total
  begun before the day of its month is not reset on that day (the file is made with the
  current month), and an agent that first runs after the month of its cycle waits for
  the next day of rotation. `month_rotate` above 28 is accepted (config.rs) and skips
  short months.
* server/task.rs:379: an exit code of -124 or -125 stands for a time-out or a cut;
  on Windows a command may end with either itself.
* file_control.rs:1366: a cancel whose removal fails has removed the session already;
  asked again without the path it succeeds and leaves the stage file.
* config.rs:256: an unknown `--flag` swallows the word behind it.
* dns.rs:858 says "Stable sort"; it is a partition by swaps, which keeps the
  order of the preferred family only. dns.rs:627: negative answers are to be
  cached, and are not. The name and type of an answer are not compared with the
  question.
* proxy.rs: an IPv6 target spelled out without "::" may lose its last group as if
  it were a port; "only the FIRST @" is found with `rfind`; ".example.com" also exempts
  the apex; a proxy that chooses a method that was not offered makes the
  thread panic (`Tunnel!Method`, "panicked"); only the first address of a proxy
  is tried. ws.rs:319 says "try all resolved addresses" and tries one.
* ws.rs: the HTTP version of the answer is not looked at; of several
  Sec-WebSocket-Accept lines the last counts.
* Pings: any ICMP packet that arrives counts as the answer on Unix; a redirect
  without Location ends as a success; a relative one becomes a host. `exec` with a
  numeric task id is dropped silently, while a ping takes either type.
* file_control.rs: two `create`s of one path share a staging name (both may fail,
  neither leaves it); a move of a directory takes the staging file of another
  request along; a move across devices removes what was added to the source
  meanwhile; "same path" compares text, and a copy to itself through a link
  truncates the file.
* update.rs: `01` in a selector is 1; only a lowercase `v` is stripped at a start;
  a Content-Length that is too short cuts the body, which the checksum then
  catches.
* ip/linux.rs: a page that an error or the limit cut is read as if whole, whatever
  its status; "12:34:56" is an IPv6 address. Interfaces are named literally there,
  by patterns in net/mod.rs.
* disk/linux.rs: "/data" also selects "/database".
* json.rs: the encoder of slices writes each comma twice; nothing uses it.

## 7. Abstractions and what they hide

* Locks: a critical section is one step.
* Data: events are names, file content is a set of chunks, output is a count,
  releases are numbers.
* `NoStaleDispatch`, `CommitComplete` etc. speak of the modelled handlers; a
  panic in a handler is not modelled (the release profile aborts).
* `process.rs`: between `try_wait` reaping the command and `kill(-pgid)` the
  group id could be used again by the system; an `EINTR` read counts as an empty
  one, so that a last read might in principle be cut short. Both need an event from
  outside at one instruction and are not modelled. The Windows half (job object,
  input through a temporary file) is not modelled.
* `FrameReader`: decompression is a yes or no; `Deflate` says which.
* The machines of `MCMachines` do not call one another: what one hands over is an
  input of the next (a command's end, a verified binary, an inflated payload),
  enumerated there.
* `Dialing`: threads share only the cache, and no step of a thread depends on
  another's state but through it; one thread and expiry meet every content.
* `Handshake`: a payload is shorter than 2^31 bytes, so that the first four of eight
  length bytes are 0; a deflated payload is the payload behind one byte.
* Random bytes (masks, keys) are constants; checksums and digests are injective on
  the inputs of the run.
* `Json`, `Settings`: one field for all of its kind; the texts of errors are left
  out.
* `Traffic`: no more interfaces than MAX_NETWORKS; beyond that net/linux.rs:208-224
  neither reports nor remembers them.
* Credentials that are unreadable, or hold no token, and were written by
  something else than the agent are not modelled.

Not modelled:

* TLS, crypto: libraries behind one call.
* The collectors of CPU, memory, load, processes, GPU and system names: read-only
  sampling whose only state is the previous sample.
* `arena.rs`: a bump pointer, whose bounds are the borrow checker's.
* `chown`, the wording and sorting of listings, the help text, the builders of
  `protocol/v2.rs` behind their envelope.
* The bytes of ICMP and DNS packets, URL parsing, percent-decoding of proxy
  credentials, `/etc/resolv.conf`.
* The Windows halves of subprocesses and terminals; what becomes of a shell after
  its terminal is closed.
* The WebSocket half of `run_tick_loop` beyond its turns in `Transport`.

## 8. Plan

In this order.

1. `AddressesFound`, its operators as folds, with `Induction_proofs`; after it the
   part of `FilesKept` that holds of all trees.
2. The WebSocket half of `run_tick_loop` beside the HTTP half, in the terms of the
   bus; the shell's fate after a terminal is closed; the Windows half of `run`.
3. `chown` and the arena.
