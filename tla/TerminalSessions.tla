--------------------------- MODULE TerminalSessions ---------------------------
(***************************************************************************)
(* Interactive terminals (handle_terminal_request in                       *)
(* server/reconnection.rs, terminal/mod.rs, terminal/unix.rs): the threads *)
(* that dispatch events pass a counting gate and start one thread per      *)
(* terminal, which dials the server, opens a pseudo-terminal, forks the    *)
(* shell and copies between the two until one side ends or both are silent *)
(* for too long.                                                           *)
(*                                                                         *)
(* Sessions are independent but for the counter and for the C library's    *)
(* buffer that ptsname returns a pointer to.  A terminal is named after    *)
(* the session that opened it; what is typed and printed is left out.      *)
(***************************************************************************)
EXTENDS Naturals, FiniteSets

CONSTANTS
    Dispatchers,   \* threads that dispatch events: the tick loop, a pull thread
    Sessions,      \* slots for terminal threads
    NoPty,         \* no terminal: a shell not started
    MaxTerminals   \* MAX_TERMINAL_SESSIONS

ASSUME TerminalAssumption ==
    /\ IsFiniteSet(Dispatchers) /\ IsFiniteSet(Sessions)
    /\ NoPty \notin Sessions
    /\ MaxTerminals \in Nat
    /\ Cardinality(Sessions) > MaxTerminals

VARIABLES
    slots,      \* TERMINAL_SESSIONS
    gate,       \* where a dispatcher is in handle_terminal_request
    stage,      \* where a session's thread is
    ptsname,    \* the C library's static buffer
    shellOn,    \* the terminal a session's shell has opened
    overdue,    \* last_activity is SESSION_IDLE_TIMEOUT ago
    abandoned   \* environment: nobody types and the shell is silent from now on

sessionVars == <<stage, shellOn, overdue, abandoned>>
tmVars == <<slots, gate, ptsname, sessionVars>>

Copying == {"top", "ws", "pty"}
Stages == {"none", "dial", "open", "named", "closing"} \cup Copying

Running == {s \in Sessions : stage[s] # "none"}

TmTypeOK ==
    /\ slots \in 0..(MaxTerminals + Cardinality(Dispatchers))
    /\ gate \in [Dispatchers -> {"free", "refusing", "spawning"}]
    /\ stage \in [Sessions -> Stages]
    /\ ptsname \in Sessions \cup {NoPty}
    /\ shellOn \in [Sessions -> Sessions \cup {NoPty}]
    /\ overdue \in [Sessions -> BOOLEAN]
    /\ abandoned \in [Sessions -> BOOLEAN]

TmInit ==
    /\ slots = 0
    /\ gate = [d \in Dispatchers |-> "free"]
    /\ stage = [s \in Sessions |-> "none"]
    /\ ptsname = NoPty
    /\ shellOn = [s \in Sessions |-> NoPty]
    /\ overdue = [s \in Sessions |-> FALSE]
    /\ abandoned = [s \in Sessions |-> FALSE]

(***************************************************************************)
(* The gate.                                                               *)
(***************************************************************************)

\* A request takes a slot first and looks at what it found after.
Request(d) ==
    /\ gate[d] = "free"
    /\ slots' = slots + 1
    /\ gate' = [gate EXCEPT ![d] = IF slots >= MaxTerminals THEN "refusing" ELSE "spawning"]
    /\ UNCHANGED <<ptsname, sessionVars>>

Refuse(d) ==
    /\ gate[d] = "refusing"
    /\ slots' = slots - 1
    /\ gate' = [gate EXCEPT ![d] = "free"]
    /\ UNCHANGED <<ptsname, sessionVars>>

SpawnThread(d, s) ==
    /\ gate[d] = "spawning"
    /\ stage[s] = "none"
    /\ gate' = [gate EXCEPT ![d] = "free"]
    /\ stage' = [stage EXCEPT ![s] = "dial"]
    /\ overdue' = [overdue EXCEPT ![s] = FALSE]
    /\ abandoned' = [abandoned EXCEPT ![s] = FALSE]
    /\ UNCHANGED <<slots, ptsname, shellOn>>

\* Mutant: a thread that could not be started keeps its slot.
SpawnFailsKeepsSlot(d) ==
    /\ gate[d] = "spawning"
    /\ gate' = [gate EXCEPT ![d] = "free"]
    /\ UNCHANGED <<slots, ptsname, sessionVars>>

SpawnFails(d) ==
    /\ gate[d] = "spawning"
    /\ slots' = slots - 1
    /\ gate' = [gate EXCEPT ![d] = "free"]
    /\ UNCHANGED <<ptsname, sessionVars>>

(***************************************************************************)
(* A session's thread.                                                     *)
(***************************************************************************)

\* The thread ends; its guard gives the slot back.
Leave(s) ==
    /\ stage' = [stage EXCEPT ![s] = "none"]
    /\ shellOn' = [shellOn EXCEPT ![s] = NoPty]
    /\ slots' = slots - 1

\* The dial fails, terminals are switched off, or no terminal can be opened,
\* named or forked into.
SetupFails(s) ==
    /\ stage[s] \in {"dial", "open", "named"}
    /\ Leave(s)
    /\ UNCHANGED <<gate, ptsname, overdue, abandoned>>

OpenPty(s) ==
    /\ stage[s] = "dial"
    /\ stage' = [stage EXCEPT ![s] = "open"]
    /\ UNCHANGED <<slots, gate, ptsname, shellOn, overdue, abandoned>>

\* ptsname writes the terminal's name where it wrote the last one.
NamePty(s) ==
    /\ stage[s] = "open"
    /\ stage' = [stage EXCEPT ![s] = "named"]
    /\ ptsname' = s
    /\ UNCHANGED <<slots, gate, shellOn, overdue, abandoned>>

\* The child gets a copy of the memory, and opens the terminal named in it.
ForkShell(s) ==
    /\ stage[s] = "named"
    /\ stage' = [stage EXCEPT ![s] = "top"]
    /\ shellOn' = [shellOn EXCEPT ![s] = ptsname]
    /\ UNCHANGED <<slots, gate, ptsname, overdue, abandoned>>

Goto(s, st) ==
    /\ stage' = [stage EXCEPT ![s] = st]
    /\ UNCHANGED <<slots, gate, ptsname, shellOn, abandoned>>

\* A turn of the copy loop begins with a look at the clock.
CopyTop(s) ==
    /\ stage[s] = "top"
    /\ Goto(s, IF overdue[s] THEN "closing" ELSE "ws")
    /\ UNCHANGED overdue

\* Something was typed: written to the terminal, or the terminal refuses it,
\* which ends the session.
Typed(s) ==
    /\ stage[s] = "ws"
    /\ ~abandoned[s]
    /\ Goto(s, "pty") \/ Goto(s, "closing")
    /\ overdue' = [overdue EXCEPT ![s] = FALSE]

\* Mutant: a keepalive counts as activity.
KeptAliveCounts(s) ==
    /\ stage[s] = "ws"
    /\ Goto(s, "pty")
    /\ overdue' \in {overdue, [overdue EXCEPT ![s] = FALSE]}

\* A ping (answered), a pong, or nothing within 50 ms.
KeptAlive(s) ==
    /\ stage[s] = "ws"
    /\ Goto(s, "pty")
    /\ UNCHANGED overdue

\* The server closes, or the connection fails.
Disconnected(s) ==
    /\ stage[s] = "ws"
    /\ Goto(s, "closing")
    /\ UNCHANGED overdue

\* The shell printed something; sending it may fail.
Printed(s) ==
    /\ stage[s] = "pty"
    /\ ~abandoned[s]
    /\ Goto(s, "top") \/ Goto(s, "closing")
    /\ overdue' = [overdue EXCEPT ![s] = FALSE]

\* Nothing to read, or the shell is gone.
Silent(s) ==
    /\ stage[s] = "pty"
    /\ Goto(s, "top") \/ Goto(s, "closing")
    /\ UNCHANGED overdue

\* The terminal and the connection are closed and the thread ends.
CloseTerminal(s) ==
    /\ stage[s] = "closing"
    /\ Leave(s)
    /\ UNCHANGED <<gate, ptsname, overdue, abandoned>>

(***************************************************************************)
(* The clock and the people.                                               *)
(***************************************************************************)

IdleLong(s) ==
    /\ stage[s] \in Copying
    /\ ~overdue[s]
    /\ overdue' = [overdue EXCEPT ![s] = TRUE]
    /\ UNCHANGED <<slots, gate, ptsname, stage, shellOn, abandoned>>

Abandon(s) ==
    /\ stage[s] # "none"
    /\ ~abandoned[s]
    /\ abandoned' = [abandoned EXCEPT ![s] = TRUE]
    /\ UNCHANGED <<slots, gate, ptsname, stage, shellOn, overdue>>

SessionStep(s) ==
    \/ SetupFails(s) \/ OpenPty(s) \/ NamePty(s) \/ ForkShell(s)
    \/ CopyTop(s) \/ Typed(s) \/ KeptAlive(s) \/ Disconnected(s)
    \/ Printed(s) \/ Silent(s) \/ CloseTerminal(s)

TmNext ==
    \/ \E d \in Dispatchers :
          \/ Request(d) \/ Refuse(d) \/ SpawnFails(d)
          \/ \E s \in Sessions : SpawnThread(d, s)
    \/ \E s \in Sessions : SessionStep(s) \/ IdleLong(s) \/ Abandon(s)

TmSpec == TmInit /\ [][TmNext]_tmVars

(***************************************************************************)
(* Properties.                                                             *)
(***************************************************************************)

Asking(state) == {d \in Dispatchers : gate[d] = state}

\* There are never more terminals than the limit ("At most 2 sessions"), though
\* two threads pass the gate at once; and no slot is lost, whatever fails, or
\* after a while there would be no more terminals at all.
SlotsAccounted ==
    /\ Cardinality(Running) <= MaxTerminals
    /\ slots = Cardinality(Running) + Cardinality(Asking("spawning"))
                 + Cardinality(Asking("refusing"))

\* A terminal nobody uses is closed, also when the browser keeps the connection
\* alive ("Prevents abandoned browser tabs from holding a root shell forever").
AbandonedEnds == \A s \in Sessions : abandoned[s] ~> stage[s] = "none"

\* The shell of a session is on that session's own terminal ("forks a child,
\* opens the PTY slave"), and no other session types into it.
OwnTerminal == \A s \in Sessions : shellOn[s] \in {s, NoPty}

=============================================================================
