----------------------------- MODULE MCMachines -----------------------------
(***************************************************************************)
(* Seventeen machines that do not interact, for TLC: the WebSocket reader, *)
(* the subprocess runner, the terminal sessions, and those of              *)
(* MCConnections, MCCommands and MCMeasures.  A behaviour is one of one    *)
(* machine; the others stay as they began.                                 *)
(***************************************************************************)
EXTENDS FrameReader, Subprocess, TerminalSessions, MCConnections, MCCommands, MCMeasures

VARIABLE machine

vars == <<machine, frVars, spVars, tmVars, conVars, cmdVars, meaVars>>

Init ==
    /\ machine \in {"frames", "process", "terminals"}
                   \cup ConnectionMachines \cup CommandMachines \cup MeasureMachines
    /\ FrInit
    /\ SpInit
    /\ TmInit
    /\ ConInit(machine)
    /\ CmdInit(machine)
    /\ MeaInit(machine)

FrameMachine == machine = "frames" /\ UNCHANGED <<machine, spVars, tmVars, conVars, cmdVars, meaVars>>
ProcessMachine == machine = "process" /\ UNCHANGED <<machine, frVars, tmVars, conVars, cmdVars, meaVars>>
TerminalMachine == machine = "terminals" /\ UNCHANGED <<machine, frVars, spVars, conVars, cmdVars, meaVars>>
ConnectionMachine == UNCHANGED <<machine, frVars, spVars, tmVars, cmdVars, meaVars>>
CommandMachine == UNCHANGED <<machine, frVars, spVars, tmVars, conVars, meaVars>>
MeasureMachine == UNCHANGED <<machine, frVars, spVars, tmVars, conVars, cmdVars>>

Next ==
    \/ FrameMachine /\ FrNext
    \/ ProcessMachine /\ SpNext
    \/ TerminalMachine /\ TmNext
    \/ ConNext(machine) /\ ConnectionMachine
    \/ CmdNext(machine) /\ CommandMachine
    \/ MeaNext(machine) /\ MeasureMachine

Spec == Init /\ [][Next]_vars

\* The machine under way keeps the types of its variables; the others do not move.
TypeOK ==
    /\ machine = "frames" => FrTypeOK
    /\ machine = "process" => SpTypeOK
    /\ machine = "terminals" => TmTypeOK
    /\ machine \in ConnectionMachines => ConTypeOK
    /\ machine \in CommandMachines => CmdTypeOK
    /\ machine \in MeasureMachines => MeaTypeOK

(***************************************************************************)
(* What is read is what was written.  The token of a WebSocket arrives     *)
(* whatever its characters (ws.rs).  What the writer of json.rs closed     *)
(* without an error is the document it was told to write, however much did *)
(* not fit before, and both readers take the same texts; what gzip.rs      *)
(* deflated inflates to the same bytes, while a damaged stream is refused. *)
(* An address is one that a page or an interface gave (ip/linux.rs).       *)
(***************************************************************************)
TextsSound ==
    /\ machine = "handshake" => TokenArrives
    /\ machine = "json" => JsonReadsBack
    /\ machine = "deflate" => DeflateSound
    /\ machine = "address" => AddressesFound

(***************************************************************************)
(* The frames the server of the run sends: one of every kind the reader    *)
(* tells apart.                                                            *)
(***************************************************************************)
Text(fin, len) ==
    [op |-> "text", fin |-> fin, rsv1 |-> FALSE, ext |-> 0, len |-> len, inflates |-> TRUE]
Deflated(fin, len, inflates) ==
    [op |-> "text", fin |-> fin, rsv1 |-> TRUE, ext |-> 1, len |-> len, inflates |-> inflates]
Cont(fin, len) ==
    [op |-> "cont", fin |-> fin, rsv1 |-> FALSE, ext |-> 0, len |-> len, inflates |-> TRUE]
Ctrl(op, len) ==
    [op |-> op, fin |-> TRUE, rsv1 |-> FALSE, ext |-> 0, len |-> len, inflates |-> TRUE]

SomeFrames ==
    {Text(TRUE, 1), Text(TRUE, 3), Deflated(FALSE, 2, TRUE), Deflated(FALSE, 1, FALSE),
     Cont(FALSE, 0), Cont(TRUE, 1),
     Ctrl("ping", 1), Ctrl("ping", 2), Ctrl("close", 0), Ctrl("reserved", 0)}

=============================================================================
