---------------------------- MODULE Transport_proofs ----------------------------
(***************************************************************************)
(* Theorems about the reconnection loop, for every threshold, interval and *)
(* cap.  The provers know nothing of 2^n; that it is a natural number is   *)
(* taken from the library: it counts the subsets of a set of n elements.   *)
(***************************************************************************)
EXTENDS Transport, FiniteSetTheorems, TLAPS

\* The counters stay in their ranges: consecutive_failures saturates, and it is
\* cleared where the third strike selects HTTP.
CounterTypes ==
    /\ httpOnly \in BOOLEAN
    /\ mode \in {"ws", "http"}
    /\ strikes \in 0..StrikeMax
    /\ failures \in 0..FailureMax

IInv == CounterTypes /\ HttpOnlyStays /\ StrikesLengthenBackoff

\* The loop starts in the configured transport with no failure counted
\* (ProtocolFsm::new, Backoff::new).
LEMMA InitIInv == Init => IInv
  BY TransportAssumption
  DEF Init, IInv, CounterTypes, HttpOnlyStays, StrikesLengthenBackoff, InitialMode

\* on_failure and next_delay, applied to counts that agree, leave counts that
\* agree, and never leave the HTTP transport.
LEMMA FailureKeepsIInv ==
    ASSUME IInv,
           NEW n \in 0..StrikeMax,
           NEW m \in 0..FailureMax,
           n <= m,
           OnFailure(n),
           NextDelay(m),
           httpOnly' = httpOnly
    PROVE  IInv'
<1>1. strikes' \in 0..StrikeMax /\ strikes' <= UpTo(n + 1, StrikeMax)
  BY TransportAssumption DEF OnFailure, UpTo
<1>2. failures' \in 0..FailureMax /\ UpTo(n + 1, StrikeMax) <= failures'
  BY TransportAssumption DEF NextDelay, UpTo
<1>3. strikes' <= failures'
  BY <1>1, <1>2, TransportAssumption DEF UpTo
<1>4. mode' \in {"ws", "http"} /\ (mode = "http" => mode' = "http")
  BY DEF OnFailure, IInv, CounterTypes
<1> QED
  BY <1>1, <1>2, <1>3, <1>4
  DEF IInv, CounterTypes, HttpOnlyStays, StrikesLengthenBackoff

\* on_reconnect returns to the preferred transport, HTTP where only HTTP is
\* allowed, with no strike.
LEMMA ReconnectKeepsIInv ==
    ASSUME IInv, OnReconnect, httpOnly' = httpOnly, failures' = failures
    PROVE  IInv'
  BY TransportAssumption
  DEF IInv, OnReconnect, InitialMode, CounterTypes, HttpOnlyStays, StrikesLengthenBackoff

\* Every step of the loop keeps the counters in agreement.
LEMMA NextIInv == IInv /\ [Next]_vars => IInv'
<1> SUFFICES ASSUME IInv, [Next]_vars PROVE IInv'
  OBVIOUS
<1> USE DEF fsmVars
<1>1. CASE LoopTop
  <2>1. CASE OnReconnect
    BY <1>1, <2>1, ReconnectKeepsIInv DEF LoopTop
  <2>2. CASE ~OnReconnect
    BY <1>1, <2>2
    DEF LoopTop, IInv, CounterTypes, HttpOnlyStays, StrikesLengthenBackoff
  <2> QED
    BY <2>1, <2>2
<1>2. CASE ConnectFail
  BY <1>2, FailureKeepsIInv
  DEF ConnectFail, IInv, CounterTypes, StrikesLengthenBackoff
<1>3. CASE SessionYield
  BY <1>3, TransportAssumption
  DEF SessionYield, IInv, CounterTypes, HttpOnlyStays, StrikesLengthenBackoff
<1>4. CASE SessionFail
  <2>1. CASE Healthy
    <3>1. OnFailure(0) /\ NextDelay(0) /\ httpOnly' = httpOnly
      BY <1>4, <2>1 DEF SessionFail
    <3>2. 0 \in 0..StrikeMax /\ 0 \in 0..FailureMax /\ 0 <= 0
      BY TransportAssumption
    <3> QED
      BY <3>1, <3>2, FailureKeepsIInv
  <2>2. CASE ~Healthy
    <3>1. OnFailure(strikes) /\ NextDelay(failures) /\ httpOnly' = httpOnly
      BY <1>4, <2>2 DEF SessionFail
    <3> QED
      BY <3>1, FailureKeepsIInv DEF IInv, CounterTypes, StrikesLengthenBackoff
  <2> QED
    BY <2>1, <2>2
<1>5. CASE \/ ConnectOk
           \/ SessionGoesOn
           \/ SessionRound
           \/ WakeUp
           \/ Tick
           \/ UNCHANGED vars
  BY <1>5
  DEF ConnectOk, SessionGoesOn, SessionRound, WakeUp, Tick, vars,
      IInv, CounterTypes, HttpOnlyStays, StrikesLengthenBackoff
<1> QED
  BY <1>1, <1>2, <1>3, <1>4, <1>5 DEF Next

\* Powers of two are naturals.
LEMMA PowersAreNat == ASSUME NEW n \in Nat PROVE 2^n \in Nat
<1>1. IsFiniteSet(1..n) /\ Cardinality(1..n) = n
  BY FS_Interval
<1>2. IsFiniteSet(SUBSET (1..n)) /\ Cardinality(SUBSET (1..n)) = 2^n
  BY <1>1, FS_SUBSET
<1> QED
  BY <1>2, FS_CardinalityType

\* A number with a limit does not pass it.
LEMMA UpToBounds ==
    ASSUME NEW n \in Nat, NEW max \in Nat
    PROVE  UpTo(n, max) \in 0..max /\ UpTo(n, max) <= n
  BY DEF UpTo

\* on_failure and next_delay keep every type, with the third strike spent.
LEMMA FailureKeepsTypes ==
    ASSUME TypeOK, NEW n \in 0..StrikeMax, NEW m \in 0..FailureMax,
           mode = "ws" => n < Threshold,
           OnFailure(n), NextDelay(m), phase' \in Phases,
           compression' \in BOOLEAN, UNCHANGED <<httpOnly, reprobeAge, sessionAge>>
    PROVE  TypeOK'
<1>1. /\ mode' \in {"ws", "http"} /\ strikes' \in 0..StrikeMax
      /\ mode' = "ws" => strikes' < Threshold
  BY TransportAssumption DEF OnFailure, UpTo, TypeOK
<1>2. tried' \in BOOLEAN
  BY DEF OnFailure, TypeOK
<1>3. UpTo(m + 1, FailureMax) \in 0..FailureMax
  <2>1. m + 1 \in Nat
    BY TransportAssumption
  <2> QED
    BY <2>1, UpToBounds, TransportAssumption
<1>4. wait' \in 0..Cap /\ failures' \in 0..FailureMax
  BY <1>3, PowersAreNat, UpToBounds, TransportAssumption DEF NextDelay
<1> QED
  BY <1>1, <1>2, <1>4 DEF TypeOK

\* Every step keeps the types.
LEMMA NextTypes == TypeOK /\ [Next]_vars => TypeOK'
<1> SUFFICES ASSUME TypeOK, [Next]_vars PROVE TypeOK'
  OBVIOUS
<1> USE DEF fsmVars
<1>1. CASE LoopTop
  <2>1. phase' \in Phases /\ reprobeAge' \in 0..ReprobeInterval
        /\ UNCHANGED <<httpOnly, failures, wait, sessionAge, compression>>
    BY <1>1, TransportAssumption DEF LoopTop, TypeOK, Phases
  <2>2. /\ mode' \in {"ws", "http"} /\ strikes' \in 0..StrikeMax /\ tried' \in BOOLEAN
        /\ mode' = "ws" => strikes' < Threshold
    <3>1. CASE OnReconnect
      <4>1. InitialMode \in {"ws", "http"} /\ 0 \in 0..StrikeMax /\ 0 < Threshold
        BY TransportAssumption DEF InitialMode
      <4> QED
        BY <3>1, <4>1 DEF OnReconnect
    <3>2. CASE UNCHANGED <<fsmVars, tried>>
      BY <3>2 DEF TypeOK
    <3> QED
      BY <1>1, <3>1, <3>2 DEF LoopTop
  <2> QED
    BY <2>1, <2>2 DEF TypeOK
<1>2. CASE ConnectOk
  BY <1>2, TransportAssumption DEF ConnectOk, TypeOK, Phases
<1>3. CASE ConnectFail
  <2>1. /\ OnFailure(strikes) /\ NextDelay(failures) /\ phase' \in Phases
        /\ UNCHANGED <<httpOnly, reprobeAge, sessionAge, compression>>
    BY <1>3 DEF ConnectFail, Phases
  <2> QED
    BY <2>1, FailureKeepsTypes DEF TypeOK
<1>4. CASE SessionYield
  BY <1>4, TransportAssumption DEF SessionYield, TypeOK, Phases
<1>5. CASE SessionGoesOn
  BY <1>5 DEF SessionGoesOn, TypeOK, Phases
<1>6. CASE SessionRound
  BY <1>6, UpToBounds, TransportAssumption DEF SessionRound, TypeOK, Phases
<1>7. CASE SessionFail
  <2> DEFINE n == IF Healthy THEN 0 ELSE strikes
             m == IF Healthy THEN 0 ELSE failures
  <2>1. n \in 0..StrikeMax /\ m \in 0..FailureMax /\ (mode = "ws" => n < Threshold)
    BY TransportAssumption DEF TypeOK
  <2>2. /\ OnFailure(n) /\ NextDelay(m) /\ phase' \in Phases /\ compression' \in BOOLEAN
        /\ UNCHANGED <<httpOnly, reprobeAge, sessionAge>>
    BY <1>7 DEF SessionFail, Phases, TypeOK
  <2> QED
    BY <2>1, <2>2, FailureKeepsTypes
<1>8. CASE WakeUp
  BY <1>8 DEF WakeUp, TypeOK, Phases
<1>9. CASE Tick
  <2>1. wait' \in 0..Cap
    <3>1. CASE phase = "sleeping"
      BY <1>9, <3>1, TransportAssumption DEF Tick, TypeOK
    <3>2. CASE phase # "sleeping"
      BY <1>9, <3>2 DEF Tick, TypeOK
    <3> QED
      BY <3>1, <3>2
  <2>2. /\ sessionAge' \in 0..MinHealthy /\ reprobeAge' \in 0..ReprobeInterval
        /\ UNCHANGED <<httpOnly, phase, fsmVars, failures, compression, tried>>
    BY <1>9, UpToBounds, TransportAssumption DEF Tick, TypeOK
  <2> QED
    BY <2>1, <2>2 DEF TypeOK
<1>10. CASE UNCHANGED vars
  BY <1>10 DEF vars, TypeOK
<1> QED
  BY <1>1, <1>2, <1>3, <1>4, <1>5, <1>6, <1>7, <1>8, <1>9, <1>10 DEF Next

\* Every variable of the loop keeps its range: the backoff never sleeps longer
\* than reconnect_interval whatever its count (Backoff::next_delay), and the
\* WebSocket never stands with a third strike (ProtocolFsm::on_failure).
THEOREM TransportTypes == Spec => []TypeOK
<1>1. Init => TypeOK
  <2> SUFFICES ASSUME Init PROVE TypeOK
    OBVIOUS
  <2>1. /\ 0 \in 0..StrikeMax /\ 0 \in 0..FailureMax /\ 0 \in 0..Cap /\ 0 < Threshold
        /\ 0 \in 0..ReprobeInterval /\ 0 \in 0..MinHealthy
    BY TransportAssumption
  <2>2. mode \in {"ws", "http"} /\ phase \in Phases
    BY DEF Init, InitialMode, Phases
  <2> QED
    BY <2>1, <2>2 DEF Init, TypeOK
<1> QED
  BY <1>1, NextTypes, PTL DEF Spec

\* An agent configured with http_only never uses the WebSocket (ProtocolFsm::
\* on_failure, on_reconnect).
THEOREM HttpOnlyForever == Spec => []HttpOnlyStays
<1>1. IInv => HttpOnlyStays
  BY DEF IInv
<1> QED
  BY InitIInv, NextIInv, <1>1, PTL DEF Spec

\* Strikes never outnumber the failures the backoff counts: on_success and
\* Backoff::reset go together and every on_failure is followed by next_delay.
THEOREM BackoffFollowsStrikes == Spec => []StrikesLengthenBackoff
<1>1. IInv => StrikesLengthenBackoff
  BY DEF IInv
<1> QED
  BY InitIInv, NextIInv, <1>1, PTL DEF Spec
=============================================================================
