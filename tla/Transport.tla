------------------------------ MODULE Transport ------------------------------
(***************************************************************************)
(* run_reconnection_loop (server/reconnection.rs) with the transport state *)
(* machine ProtocolFsm (protocol/fsm.rs) and Backoff (server/backoff.rs):  *)
(* connect over the current transport, stay in the session, count the      *)
(* failure, sleep, try again; three strikes against the WebSocket select   *)
(* HTTP, and a re-probe returns to the preferred transport.                *)
(*                                                                         *)
(* Time advances in units while the loop is blocked in a connect, in an    *)
(* operation of the session, or in a sleep.  Ages saturate where the code  *)
(* stops telling them apart.                                               *)
(***************************************************************************)
EXTENDS Naturals

CONSTANTS
    MinHealthy,       \* MIN_HEALTHY_SESSION
    ReprobeInterval,  \* REPROBE_INTERVAL
    Cap,              \* reconnect_interval, the cap of the backoff
    Threshold,        \* ProtocolFsm::FALLBACK_THRESHOLD
    StrikeMax,        \* where consecutive_failures, a u8, saturates
    FailureMax        \* bound: Backoff::failures is not counted beyond it

ASSUME TransportAssumption ==
    /\ MinHealthy \in Nat \ {0}
    /\ ReprobeInterval \in Nat \ {0}
    /\ Cap \in Nat
    /\ Threshold \in Nat \ {0}
    /\ StrikeMax \in Nat /\ StrikeMax >= Threshold
    /\ FailureMax \in Nat /\ FailureMax >= StrikeMax

VARIABLES
    httpOnly,       \* configuration, fixed at start
    phase,          \* where run_reconnection_loop is
    mode,           \* ProtocolFsm.mode
    strikes,        \* ProtocolFsm.consecutive_failures
    failures,       \* Backoff.failures
    wait,           \* what is left of the current sleep
    reprobeAge,     \* last_reprobe.elapsed()
    sessionAge,     \* session_start.elapsed()
    compression,    \* ~disable_compression
    tried           \* ghost: the current transport has been used since it was selected

fsmVars == <<mode, strikes>>
vars == <<httpOnly, phase, fsmVars, failures, wait, reprobeAge, sessionAge,
          compression, tried>>

Phases == {"top", "connecting", "check", "work", "sleeping"}

\* ProtocolFsm::initial_mode
InitialMode == IF httpOnly THEN "http" ELSE "ws"

UpTo(n, max) == IF n < max THEN n ELSE max

TypeOK ==
    /\ httpOnly \in BOOLEAN
    /\ phase \in Phases
    /\ mode \in {"ws", "http"}
    /\ strikes \in 0..StrikeMax
    /\ mode = "ws" => strikes < Threshold
    /\ failures \in 0..FailureMax
    /\ wait \in 0..Cap
    /\ reprobeAge \in 0..ReprobeInterval
    /\ sessionAge \in 0..MinHealthy
    /\ compression \in BOOLEAN
    /\ tried \in BOOLEAN

Init ==
    /\ httpOnly \in BOOLEAN
    /\ phase = "top"
    /\ mode = InitialMode
    /\ strikes = 0
    /\ failures = 0
    /\ wait = 0
    /\ reprobeAge = 0
    /\ sessionAge = 0
    /\ compression \in BOOLEAN
    /\ tried = FALSE

(***************************************************************************)
(* ProtocolFsm and Backoff.                                                *)
(***************************************************************************)

ReprobeDue == mode # InitialMode /\ reprobeAge >= ReprobeInterval

\* Mutants: the switch comes one strike late; three HTTP failures switch back.
OnFailureLate(n) ==
    LET count == UpTo(n + 1, StrikeMax)
        falls == mode = "ws" /\ count > Threshold
    IN  /\ mode' = IF falls THEN "http" ELSE mode
        /\ strikes' = IF falls THEN 0 ELSE count
        /\ tried' = (tried /\ ~falls)
OnFailureBothWays(n) ==
    LET count == UpTo(n + 1, StrikeMax)
        falls == count >= Threshold
    IN  /\ mode' = IF falls /\ mode = "ws" THEN "http" ELSE IF falls THEN "ws" ELSE mode
        /\ strikes' = IF falls THEN 0 ELSE count
        /\ tried' = (tried /\ ~falls)

\* on_failure, with the count of failures the session left.
OnFailure(n) ==
    LET count == UpTo(n + 1, StrikeMax)
        falls == mode = "ws" /\ count >= Threshold
    IN  /\ mode' = IF falls THEN "http" ELSE mode
        /\ strikes' = IF falls THEN 0 ELSE count
        /\ tried' = (tried /\ ~falls)

\* on_reconnect
OnReconnect ==
    /\ mode' = InitialMode
    /\ strikes' = 0
    /\ tried' = FALSE

\* next_delay: the count goes up first, so the first delay is two units.
NextDelay(n) ==
    LET count == UpTo(n + 1, FailureMax)
    IN  /\ failures' = count
        /\ wait' = UpTo(2 ^ count, Cap)

(***************************************************************************)
(* run_reconnection_loop.                                                  *)
(***************************************************************************)

\* Mutant: last_reprobe is set to now in every round, due or not.
LoopTopForgetsAge ==
    /\ phase = "top"
    /\ phase' = "connecting"
    /\ IF ReprobeDue THEN OnReconnect ELSE UNCHANGED <<fsmVars, tried>>
    /\ reprobeAge' = 0
    /\ UNCHANGED <<httpOnly, failures, wait, sessionAge, compression>>

\* Top of the loop: a due re-probe selects the preferred transport.
LoopTop ==
    /\ phase = "top"
    /\ phase' = "connecting"
    /\ \/ /\ ReprobeDue
          /\ OnReconnect
          /\ reprobeAge' = 0
       \/ /\ ~ReprobeDue
          /\ UNCHANGED <<fsmVars, tried, reprobeAge>>
    /\ UNCHANGED <<httpOnly, failures, wait, sessionAge, compression>>

\* Mutants: a connect that succeeds clears the strikes, or the backoff.
ConnectOkClearsStrikes ==
    /\ phase = "connecting"
    /\ phase' = "check"
    /\ sessionAge' = 0
    /\ strikes' = 0
    /\ UNCHANGED <<httpOnly, mode, failures, wait, reprobeAge, compression, tried>>
ConnectOkClearsBackoff ==
    /\ phase = "connecting"
    /\ phase' = "check"
    /\ sessionAge' = 0
    /\ failures' = 0
    /\ UNCHANGED <<httpOnly, fsmVars, wait, reprobeAge, compression, tried>>

\* connect_with_fsm succeeds (HTTP always does) and basic info is uploaded,
\* with no consequence if that fails.  No counter is touched.
ConnectOk ==
    /\ phase = "connecting"
    /\ phase' = "check"
    /\ sessionAge' = 0
    /\ UNCHANGED <<httpOnly, fsmVars, failures, wait, reprobeAge, compression, tried>>

\* The WebSocket cannot be opened.
ConnectFail ==
    /\ phase = "connecting"
    /\ mode = "ws"
    /\ phase' = "sleeping"
    /\ OnFailure(strikes)
    /\ NextDelay(failures)
    /\ UNCHANGED <<httpOnly, reprobeAge, sessionAge, compression>>

Healthy == sessionAge >= MinHealthy

\* Top of the tick loop: a due re-probe ends the session without an error and
\* without a sleep; on_success and reset if the session was long enough.
SessionYield ==
    /\ phase = "check"
    /\ ReprobeDue
    /\ phase' = "top"
    /\ strikes' = IF Healthy THEN 0 ELSE strikes
    /\ failures' = IF Healthy THEN 0 ELSE failures
    /\ UNCHANGED <<httpOnly, mode, wait, reprobeAge, sessionAge, compression, tried>>

\* Otherwise the loop turns to the report, the socket and the heartbeat.
SessionGoesOn ==
    /\ phase = "check"
    /\ ~ReprobeDue
    /\ phase' = "work"
    /\ tried' = TRUE
    /\ UNCHANGED <<httpOnly, fsmVars, failures, wait, reprobeAge, sessionAge, compression>>

\* One round of the tick loop is done, its poll delay included.
SessionRound ==
    /\ phase = "work"
    /\ phase' = "check"
    /\ reprobeAge' = UpTo(reprobeAge + 1, ReprobeInterval)
    /\ sessionAge' = UpTo(sessionAge + 1, MinHealthy)
    /\ UNCHANGED <<httpOnly, fsmVars, failures, wait, compression, tried>>

\* The session ends in an error.  A long session clears the old streaks first;
\* an inflate failure also switches compression off for good.
SessionFail ==
    /\ phase = "work"
    /\ phase' = "sleeping"
    /\ OnFailure(IF Healthy THEN 0 ELSE strikes)
    /\ NextDelay(IF Healthy THEN 0 ELSE failures)
    /\ compression' \in IF mode = "ws" THEN {compression, FALSE} ELSE {compression}
    /\ UNCHANGED <<httpOnly, reprobeAge, sessionAge>>

\* The sleep is over.
WakeUp ==
    /\ phase = "sleeping"
    /\ wait = 0
    /\ phase' = "top"
    /\ UNCHANGED <<httpOnly, fsmVars, failures, wait, reprobeAge, sessionAge,
                   compression, tried>>

\* A unit of time passes in a blocking call.
Tick ==
    /\ phase \in {"connecting", "work", "sleeping"}
    /\ phase = "sleeping" => wait > 0
    /\ wait' = IF phase = "sleeping" THEN wait - 1 ELSE wait
    /\ sessionAge' = IF phase = "work" THEN UpTo(sessionAge + 1, MinHealthy) ELSE sessionAge
    /\ reprobeAge' = UpTo(reprobeAge + 1, ReprobeInterval)
    /\ UNCHANGED <<httpOnly, phase, fsmVars, failures, compression, tried>>

-----------------------------------------------------------------------------
Next ==
    \/ LoopTop
    \/ ConnectOk
    \/ ConnectFail
    \/ SessionYield
    \/ SessionGoesOn
    \/ SessionRound
    \/ SessionFail
    \/ WakeUp
    \/ Tick

Spec == Init /\ [][Next]_vars

(***************************************************************************)
(* Safety.                                                                 *)
(***************************************************************************)

\* ProtocolFsm::on_reconnect: "HTTP-only can never select WS", whatever the
\* sequence of failures, re-probes and sessions.
HttpOnlyStays == httpOnly => mode = "http"

\* Every strike has also lengthened the backoff: a transport is never given up
\* on, nor retried, with less caution than its failures call for (on_success
\* and Backoff::reset go together, and connecting alone resets neither).
StrikesLengthenBackoff == strikes <= failures

\* docs/architecture.md: "Three consecutive WebSocket failures select HTTP", so
\* HTTP is used before the agent returns to the WebSocket.
FallbackIsTried == [][(mode = "http" /\ mode' = "ws") => tried]_vars

(***************************************************************************)
(* Liveness.                                                               *)
(***************************************************************************)

\* A WebSocket that connects and dies at once still accumulates strikes: if no
\* WebSocket session ever lasts, the agent falls back to HTTP ("otherwise the
\* agent flaps forever in a mode that can connect but cannot hold a session").
FlappingFallsBack ==
    [](mode = "ws" /\ phase \in {"check", "work"} => ~Healthy)
        => (mode = "ws" ~> mode = "http")

\* "a historical downgrade does not pin the agent to a fallback forever": from
\* HTTP the agent returns to the WebSocket, be its HTTP sessions stable or not.
DowngradeNotPinned ==
    (~httpOnly /\ mode = "http") ~> (mode = "ws")
=============================================================================
