----------------------------- MODULE MCTransport -----------------------------
(***************************************************************************)
(* What must come to an end under fairness, for TLC: the reconnection loop *)
(* and, beside it, the subprocess runner and the terminal sessions, which  *)
(* do not interact with it.  A behaviour is one of one of the three; the   *)
(* others stay as they began.                                              *)
(***************************************************************************)
EXTENDS Transport, Subprocess, TerminalSessions

VARIABLE underWay

allVars == <<underWay, vars, spVars, tmVars>>

LoopUnderWay == underWay = "loop" /\ UNCHANGED <<underWay, spVars, tmVars>>
CommandUnderWay == underWay = "command" /\ UNCHANGED <<underWay, vars, tmVars>>
TerminalUnderWay == underWay = "terminal" /\ UNCHANGED <<underWay, vars, spVars>>

AllInit ==
    /\ underWay \in {"loop", "command", "terminal"}
    /\ underWay = "loop" \/ httpOnly = FALSE
    /\ Init /\ SpInit /\ TmInit

AllNext ==
    \/ LoopUnderWay /\ Next
    \/ CommandUnderWay /\ SpNext
    \/ TerminalUnderWay /\ TmNext

(***************************************************************************)
(* The reconnection loop runs on, connects and operations end (each has a  *)
(* time limit) and sleeps run out: neither success nor failure of anything *)
(* is assumed.  The thread of run and the clock move on; so do the threads *)
(* of terminals.                                                           *)
(***************************************************************************)
AllFairSpec ==
    /\ AllInit
    /\ [][AllNext]_allVars
    /\ WF_allVars(LoopUnderWay /\ LoopTop)
    /\ WF_allVars(LoopUnderWay /\ (ConnectOk \/ ConnectFail))
    /\ WF_allVars(LoopUnderWay /\ (SessionYield \/ SessionGoesOn))
    /\ WF_allVars(LoopUnderWay /\ (SessionRound \/ SessionFail))
    /\ WF_allVars(LoopUnderWay /\ WakeUp)
    /\ WF_allVars(LoopUnderWay /\ phase = "sleeping" /\ Tick)
    /\ WF_allVars(CommandUnderWay /\ RunStep)
    /\ WF_allVars(CommandUnderWay /\ Deadline)
    /\ \A s \in Sessions :
          /\ WF_allVars(TerminalUnderWay /\ SessionStep(s))
          /\ WF_allVars(TerminalUnderWay /\ IdleLong(s))

\* FlappingFallsBack, of the reconnection loop: a WebSocket that connects and
\* dies at once is given up.
LoopFallsBack == underWay = "loop" => FlappingFallsBack

\* DowngradeNotPinned, of the reconnection loop: from HTTP it returns to the
\* WebSocket.
LoopReturns == underWay = "loop" => DowngradeNotPinned

\* RunReturns, of the subprocess runner.
RunAlwaysReturns == underWay = "command" => RunReturns

=============================================================================
