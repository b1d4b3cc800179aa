----------------------------- MODULE Subprocess -----------------------------
(***************************************************************************)
(* Bounded execution of a command (process.rs, run, on Unix): one thread   *)
(* feeds the command's input, reads both its output pipes within a shared  *)
(* budget, watches its exit and a deadline, then stops its process group   *)
(* and reads what is left.  The command, and what it starts, run on in     *)
(* between, and may keep the pipes open.                                   *)
(*                                                                         *)
(* Output is counted, not looked at.  A command that leaves its process    *)
(* group is outside of what the runner promises to stop.                   *)
(***************************************************************************)
EXTENDS Naturals

CONSTANTS
    Limit,     \* OUTPUT_LIMIT
    Chunk,     \* most that one read or write moves
    PipeSize,  \* capacity of a pipe
    InputSize  \* bytes of input; 0 when the command gets none

ASSUME SubprocessAssumption ==
    /\ Limit \in Nat
    /\ Chunk \in Nat \ {0}
    /\ PipeSize \in Nat \ {0}
    /\ InputSize \in Nat

Streams == {"out", "err"}

VARIABLES
    root,      \* the command: "alive", "exited" (a zombie) or "reaped"
    helper,    \* a process it may start: in its group, escaped from it, or gone
    pipe,      \* bytes in each output pipe
    inPipe,    \* bytes in the input pipe
    due,       \* the deadline has passed
    at,        \* what run does next
    got,       \* bytes captured of each stream
    gotNow,    \* whether this turn of the loop read anything
    feeding,   \* the input pipe is open on this side
    offset,    \* input_offset
    reason,    \* RunOutput.reason
    written    \* ghost: bytes written by all of them, counted up to Limit + 1

commandVars == <<root, helper>>
pipeVars == <<pipe, inPipe>>
runVars == <<at, got, gotNow, feeding, offset, reason>>
spVars == <<commandVars, pipeVars, due, runVars, written>>

SpTypeOK ==
    /\ root \in {"alive", "exited", "reaped"}
    /\ helper \in {"none", "group", "escaped", "gone", "away"}
    /\ pipe \in [Streams -> 0..PipeSize]
    /\ inPipe \in 0..PipeSize
    /\ due \in BOOLEAN
    /\ at \in {"turn", "out", "err", "feed", "watch", "stop", "wait",
               "lastOut", "lastErr", "returned", "error"}
    /\ got \in [Streams -> 0..(Limit + 1)]
    /\ got["out"] + got["err"] <= Limit + 1
    /\ gotNow \in BOOLEAN
    /\ feeding \in BOOLEAN
    /\ offset \in 0..InputSize
    /\ reason \in {"none", "Exited", "TimedOut", "OutputLimit"}
    /\ written \in 0..(Limit + 1)

SpInit ==
    /\ root = "alive"
    /\ helper = "none"
    /\ pipe = [s \in Streams |-> 0]
    /\ inPipe = 0
    /\ due = FALSE
    /\ at = "turn"
    /\ got = [s \in Streams |-> 0]
    /\ gotNow = FALSE
    /\ feeding = (InputSize > 0)
    /\ offset = 0
    /\ reason = "none"
    /\ written = 0

Least(S) == CHOOSE x \in S : \A y \in S : x <= y

(***************************************************************************)
(* The command, what it starts, and the clock.                             *)
(***************************************************************************)

Alive == root = "alive" \/ helper \in {"group", "escaped"}

Writes(s) ==
    /\ Alive
    /\ pipe[s] < PipeSize
    /\ pipe' = [pipe EXCEPT ![s] = @ + 1]
    /\ written' = Least({written + 1, Limit + 1})
    /\ UNCHANGED <<commandVars, inPipe, due, runVars>>

ReadsInput ==
    /\ Alive
    /\ inPipe > 0
    /\ inPipe' = inPipe - 1
    /\ UNCHANGED <<commandVars, pipe, due, runVars, written>>

Forks ==
    /\ root = "alive"
    /\ helper = "none"
    /\ helper' = "group"
    /\ UNCHANGED <<root, pipeVars, due, runVars, written>>

Escapes ==
    /\ helper = "group"
    /\ helper' = "escaped"
    /\ UNCHANGED <<root, pipeVars, due, runVars, written>>

HelperEnds ==
    /\ helper \in {"group", "escaped"}
    /\ helper' = IF helper = "group" THEN "gone" ELSE "away"
    /\ UNCHANGED <<root, pipeVars, due, runVars, written>>

RootExits ==
    /\ root = "alive"
    /\ root' = "exited"
    /\ UNCHANGED <<helper, pipeVars, due, runVars, written>>

Deadline ==
    /\ ~due
    /\ due' = TRUE
    /\ UNCHANGED <<commandVars, pipeVars, runVars, written>>

(***************************************************************************)
(* The loop of run.                                                        *)
(***************************************************************************)

Total == got["out"] + got["err"]
Other(s) == IF s = "out" THEN "err" ELSE "out"

\* Mutant: no byte beyond the limit is asked for, so that an overflow looks
\* like an exact fit.
AvailableNoSentinel(s) == Least({Limit - Total, Chunk, pipe[s]})

\* Mutant: each stream has a budget of its own.
AvailablePerStream(s) == Least({(Limit + 1) - got[s], Chunk, pipe[s]})

\* capture: what one read takes, the byte that proves an overflow included.
Available(s) == Least({(Limit + 1) - Total, Chunk, pipe[s]})

Capture(s) ==
    /\ got' = [got EXCEPT ![s] = @ + Available(s)]
    /\ pipe' = [pipe EXCEPT ![s] = @ - Available(s)]

\* A turn begins with a look at the clock.
Turn ==
    /\ at = "turn"
    /\ IF due
       THEN at' = "stop" /\ reason' = "TimedOut"
       ELSE at' = "out" /\ UNCHANGED reason
    /\ UNCHANGED <<commandVars, pipeVars, due, got, gotNow, feeding, offset, written>>

CaptureOut ==
    /\ at = "out"
    /\ Capture("out")
    /\ gotNow' = (Available("out") > 0)
    /\ at' = "err"
    /\ UNCHANGED <<commandVars, inPipe, due, feeding, offset, reason, written>>

CaptureErr ==
    /\ at = "err"
    /\ Capture("err")
    /\ IF Total' > Limit
       THEN at' = "stop" /\ reason' = "OutputLimit"
       ELSE at' = "feed" /\ UNCHANGED reason
    /\ UNCHANGED <<commandVars, inPipe, due, gotNow, feeding, offset, written>>

\* One write of input; when nobody reads it any longer, by choice or by exit,
\* that counts as all of it written.
Feed ==
    /\ at = "feed"
    /\ \/ ~feeding /\ UNCHANGED <<offset, inPipe>>
       \/ /\ feeding
          /\ Alive
          /\ LET n == Least({InputSize - offset, Chunk, PipeSize - inPipe})
             IN  offset' = offset + n /\ inPipe' = inPipe + n
       \/ feeding /\ offset' = InputSize /\ UNCHANGED inPipe
    /\ feeding' = (feeding /\ offset' < InputSize)
    /\ at' = "watch"
    /\ UNCHANGED <<commandVars, pipe, due, got, gotNow, reason, written>>

\* try_wait reaps an exited command; else the next turn, after a pause when
\* nothing was read.
Watch ==
    /\ at = "watch"
    /\ IF root = "exited"
       THEN root' = "reaped" /\ at' = "stop" /\ reason' = "Exited"
       ELSE at' = "turn" /\ UNCHANGED <<root, reason>>
    /\ gotNow' = FALSE
    /\ UNCHANGED <<helper, pipeVars, due, got, feeding, offset, written>>

\* SIGKILL to the process group.
Killed ==
    /\ root' = IF root = "alive" THEN "exited" ELSE root
    /\ helper' = IF helper = "group" THEN "gone" ELSE helper

\* Mutant: only the command itself is killed.
StopRootOnly ==
    /\ at = "stop"
    /\ root' = IF root = "alive" THEN "exited" ELSE root
    /\ feeding' = FALSE
    /\ at' = "wait"
    /\ UNCHANGED <<helper, pipeVars, due, got, gotNow, offset, reason, written>>

Stop ==
    /\ at = "stop"
    /\ Killed
    /\ feeding' = FALSE
    /\ at' = "wait"
    /\ UNCHANGED <<pipeVars, due, got, gotNow, offset, reason, written>>

Wait ==
    /\ at = "wait"
    /\ root # "alive"
    /\ root' = "reaped"
    /\ at' = "lastOut"
    /\ UNCHANGED <<helper, pipeVars, due, got, gotNow, feeding, offset, reason, written>>

\* What the pipes still hold is read, until neither holds anything or the
\* budget is exceeded.
LastOut ==
    /\ at = "lastOut"
    /\ Capture("out")
    /\ gotNow' = (Available("out") > 0)
    /\ at' = "lastErr"
    /\ UNCHANGED <<commandVars, inPipe, due, feeding, offset, reason, written>>

\* The excess byte is cut off again: of stderr, or of stdout when it is there.
CutToLimit(g) ==
    IF g["out"] + g["err"] <= Limit THEN g
    ELSE [out |-> Least({g["out"], Limit}),
          err |-> Least({g["err"], IF g["out"] > Limit THEN 0 ELSE Limit - g["out"]})]

\* Mutant: the end of the output is the end of the stream.
LastErrWaitsForEof ==
    /\ at = "lastErr"
    /\ pipe' = [pipe EXCEPT !["err"] = @ - Available("err")]
    /\ LET g == [got EXCEPT !["err"] = @ + Available("err")]
       IN  IF g["out"] + g["err"] > Limit
           THEN got' = CutToLimit(g) /\ reason' = "OutputLimit" /\ at' = "returned"
           ELSE /\ got' = g
                /\ UNCHANGED reason
                /\ at' = IF Alive \/ gotNow \/ Available("err") > 0
                         THEN "lastOut" ELSE "returned"
    /\ UNCHANGED <<commandVars, inPipe, due, gotNow, feeding, offset, written>>

LastErr ==
    /\ at = "lastErr"
    /\ pipe' = [pipe EXCEPT !["err"] = @ - Available("err")]
    /\ LET g == [got EXCEPT !["err"] = @ + Available("err")]
       IN  IF g["out"] + g["err"] > Limit
           THEN got' = CutToLimit(g) /\ reason' = "OutputLimit" /\ at' = "returned"
           ELSE /\ got' = g
                /\ UNCHANGED reason
                /\ at' = IF gotNow \/ Available("err") > 0 THEN "lastOut" ELSE "returned"
    /\ UNCHANGED <<commandVars, inPipe, due, gotNow, feeding, offset, written>>

\* An error of a pipe or of the wait leaves run through the guard that stops
\* the group and reaps the command.
RunFails ==
    /\ at \in {"out", "err", "feed", "watch", "stop", "wait", "lastOut", "lastErr"}
    /\ root' = "reaped"
    /\ helper' = IF helper = "group" THEN "gone" ELSE helper
    /\ feeding' = FALSE
    /\ at' = "error"
    /\ UNCHANGED <<pipeVars, due, got, gotNow, offset, reason, written>>

RunStep ==
    \/ Turn \/ CaptureOut \/ CaptureErr \/ Feed \/ Watch
    \/ Stop \/ Wait \/ LastOut \/ LastErr

CommandStep ==
    \/ \E s \in Streams : Writes(s)
    \/ ReadsInput \/ Forks \/ Escapes \/ HelperEnds \/ RootExits

SpNext == RunStep \/ RunFails \/ CommandStep \/ Deadline

(***************************************************************************)
(* Properties.                                                             *)
(***************************************************************************)

Returned == at = "returned"
EverEscaped == helper \in {"escaped", "away"}

\* What run returns fits the budget; and unless some process left the group,
\* it is everything that was written, or the budget full of it and flagged:
\* truncated output is never taken for whole, nor an exact fit for an overflow,
\* whenever the command exits, is killed or hands its pipes to another process
\* ("collectors must never parse truncated output").
CaptureExact ==
    Returned =>
        /\ Total <= Limit
        /\ ~EverEscaped =>
              /\ Total = Least({written, Limit})
              /\ reason = "OutputLimit" <=> written > Limit

\* However run is left, errors included, the command is reaped and no process
\* of its group lives on (ManagedChild).
NothingLeft ==
    at \in {"returned", "error"} => root = "reaped" /\ helper # "group"

\* run comes back after its deadline, though a process that left the group
\* holds the pipes open and writes for ever.
RunReturns == <>(at \in {"returned", "error"})

SpFairness == WF_spVars(RunStep) /\ WF_spVars(Deadline)

SpSpec == SpInit /\ [][SpNext]_spVars

=============================================================================
