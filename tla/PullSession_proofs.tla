------------------------- MODULE PullSession_proofs -------------------------
(***************************************************************************)
(* Proofs about PullSession, for every set of events, number of pull       *)
(* threads, SEEN_CAP and number of crashes.                                *)
(***************************************************************************)
EXTENDS PullSession, FiniteSetTheorems, TLAPS

\* The tick loop and the pull threads are the callers of V2EventBus.
LEMMA MainIsCaller == Main \in Callers /\ PullThreads \subseteq Callers
BY DEF Callers

\* V2EventBus::mark_seen: noting an id keeps a list of ids of at most SEEN_CAP.
LEMMA RememberType ==
    ASSUME NEW s \in Seq(Events), NEW e \in Events, Len(s) <= SeenCap
    PROVE  /\ Remember(s, e) \in Seq(Events)
           /\ Len(Remember(s, e)) <= SeenCap
<1>1. CASE Len(s) >= SeenCap
    <2>1. s # <<>> /\ Len(s) = SeenCap
        BY <1>1, PullSessionAssumption
    <2>2. Tail(s) \in Seq(Events) /\ Len(Tail(s)) = SeenCap - 1
        BY <2>1
    <2> QED BY <1>1, <2>2, PullSessionAssumption DEF Remember
<1>2. CASE ~(Len(s) >= SeenCap)
    BY <1>2, PullSessionAssumption DEF Remember
<1> QED BY <1>1, <1>2

\* Noting an id adds no other id to the list.
LEMMA RememberRange ==
    ASSUME NEW s \in Seq(Events), NEW e \in Events
    PROVE  Range(Remember(s, e)) \subseteq Range(s) \cup {e}
<1>1. CASE s = <<>>
    BY <1>1, PullSessionAssumption DEF Remember, Range
<1>2. CASE s # <<>>
    <2>1. Tail(s) \in Seq(Events) /\ \A i \in DOMAIN Tail(s) : Tail(s)[i] = s[i + 1] /\ i + 1 \in DOMAIN s
        BY <1>2
    <2>2. \A q \in Seq(Events) : Range(Append(q, e)) \subseteq Range(q) \cup {e}
        BY DEF Range
    <2>3. Range(Tail(s)) \subseteq Range(s)
        BY <2>1 DEF Range
    <2> QED BY <2>1, <2>2, <2>3 DEF Remember
<1> QED BY <1>1, <1>2

\* The state the program starts in (empty bus, no session) is well typed.
LEMMA InitTypeOK == Init => TypeOK
<1> SUFFICES ASSUME Init PROVE TypeOK
    OBVIOUS
<1>1. pc \in [Callers -> CallStates]
    BY DEF Init, CallStates
<1>2. seen \in Seq(Events) /\ Len(seen) <= SeenCap
    BY PullSessionAssumption DEF Init
<1>3. dispatched \in [Events -> 0..MaxDispatch] /\ crashes \in 0..MaxCrashes
    BY PullSessionAssumption DEF Init
<1> QED BY <1>1, <1>2, <1>3 DEF Init, TypeOK

\* Every step of the server, the network, the tick loop, a pull thread, the bus
\* or a crash keeps the types.
LEMMA NextTypeOK == TypeOK /\ [Next]_vars => TypeOK'
<1> SUFFICES ASSUME TypeOK, [Next]_vars PROVE TypeOK'
    OBVIOUS
<1> USE DEF TypeOK, CallStates, serverVars, sessionVars, busVars, callVars, ghostVars
<1>1. CASE UNCHANGED vars
    BY <1>1 DEF vars
<1>2. ASSUME NEW e \in Events, Publish(e) PROVE TypeOK'
    BY <1>2 DEF Publish
<1>3. ASSUME NEW c \in Callers, Network(c) PROVE TypeOK'
    <2>1. ASSUME NEW B \in SUBSET Events, Serve(c, B) PROVE TypeOK'
        BY <2>1 DEF Serve
    <2>2. CASE Lose(c)
        BY <2>2 DEF Lose
    <2> QED BY <1>3, <2>1, <2>2 DEF Network
<1>4. ASSUME NEW c \in Callers, Process(c) PROVE TypeOK'
    <2>1. CASE SkipBatch(c) BY <2>1 DEF SkipBatch
    <2>2. CASE LockBus(c) BY <2>2 DEF LockBus
    <2>3. ASSUME NEW e \in Events, Mark(c, e) PROVE TypeOK'
        <3>1. seen' \in Seq(Events) /\ Len(seen') <= SeenCap
            BY <2>3, RememberType DEF Mark
        <3>2. pending' \subseteq Events
            BY <2>3 DEF Mark, AcksAfter
        <3> QED BY <2>3, <3>1, <3>2 DEF Mark
    <2>4. CASE UnlockBus(c) BY <2>4 DEF UnlockBus
    <2>5. ASSUME NEW e \in Events, Dispatch(c, e) PROVE TypeOK'
        <3>1. dispatched' \in [Events -> 0..MaxDispatch]
            BY <2>5, PullSessionAssumption DEF Dispatch
        <3> QED BY <2>5, <3>1 DEF Dispatch
    <2>6. CASE EndDispatch(c) BY <2>6 DEF EndDispatch
    <2> QED BY <1>4, <2>1, <2>2, <2>3, <2>4, <2>5, <2>6 DEF Process
<1>5. CASE MainStep
    <2>1. ASSUME NEW m \in {"ws", "http"}, BeginSession(m) PROVE TypeOK'
        BY <2>1 DEF BeginSession
    <2>2. CASE MainReport BY <2>2, MainIsCaller DEF MainReport, Drain
    <2>3. CASE MainReturn BY <2>3, MainIsCaller DEF MainReturn
    <2>4. CASE EndSession BY <2>4, MainIsCaller DEF EndSession
    <2> QED BY <1>5, <2>1, <2>2, <2>3, <2>4 DEF MainStep
<1>6. ASSUME NEW t \in PullThreads, PullStep(t) PROVE TypeOK'
    <2>1. CASE PullOwns(t) BY <2>1, MainIsCaller DEF PullOwns
    <2>2. CASE PullQuits(t) BY <2>2, MainIsCaller DEF PullQuits
    <2>3. CASE PullDrain(t) BY <2>3, MainIsCaller DEF PullDrain, Drain
    <2>4. CASE PullReturn(t) BY <2>4, MainIsCaller DEF PullReturn
    <2>5. CASE PullRetry(t) BY <2>5, MainIsCaller DEF PullRetry
    <2> QED BY <1>6, <2>1, <2>2, <2>3, <2>4, <2>5 DEF PullStep
<1>7. CASE Crash
    <2>1. /\ pc' \in [Callers -> CallStates]
          /\ abandoned' \subseteq Events
          /\ crashes' \in 0..MaxCrashes
        BY <1>7, PullSessionAssumption DEF Crash
    <2>2. seen' \in Seq(Events) /\ Len(seen') <= SeenCap
        BY <1>7, PullSessionAssumption DEF Crash
    <2> QED BY <1>7, <2>1, <2>2 DEF Crash
<1> QED BY <1>1, <1>2, <1>3, <1>4, <1>5, <1>6, <1>7 DEF Next

\* The state of the HTTP control plane keeps its types; in particular the
\* seen list never exceeds SEEN_CAP.
THEOREM TypeCorrect == Spec => []TypeOK
BY InitTypeOK, NextTypeOK, PTL DEF Spec

-----------------------------------------------------------------------------
(* No event is forgotten before it is handled.                             *)

\* At start nothing is acknowledged and nothing is forgotten.
LEMMA InitAccountable == Init => Accountable
BY DEF Init, Accountable, NoneForgottenUnhandled, Handled, Range

\* What has been handled stays handled, also across a crash.
LEMMA HandledGrows == TypeOK /\ [Next]_vars => Handled \subseteq Handled'
<1> SUFFICES ASSUME TypeOK, [Next]_vars, NEW e \in Events,
                    e \in Handled
             PROVE  e \in Handled'
    BY DEF Handled, InHand, TypeOK
<1> USE DEF TypeOK, serverVars, sessionVars, busVars, callVars, ghostVars
<1>1. ASSUME UNCHANGED <<dispatched, fresh, abandoned>> PROVE e \in Handled'
    BY <1>1 DEF Handled, InHand
<1>2. ASSUME NEW c \in Callers, NEW x \in Events, Mark(c, x) PROVE e \in Handled'
    <2>1. \A d \in Callers : fresh[d] \subseteq fresh'[d]
        BY <1>2 DEF Mark
    <2> QED BY <1>2, <2>1 DEF Mark, Handled, InHand
<1>3. ASSUME NEW c \in Callers, NEW x \in Events, Dispatch(c, x) PROVE e \in Handled'
    <2>1. dispatched'[x] > 0
        BY <1>3, PullSessionAssumption DEF Dispatch
    <2>2. CASE e = x
        BY <2>1, <2>2 DEF Handled
    <2>3. CASE e # x
        <3>1. dispatched'[e] = dispatched[e] /\ abandoned' = abandoned
            BY <1>3, <2>3 DEF Dispatch
        <3>2. \A d \in Callers : e \in fresh[d] => e \in fresh'[d]
            BY <1>3, <2>3 DEF Dispatch
        <3> QED BY <3>1, <3>2 DEF Handled, InHand
    <2> QED BY <2>2, <2>3
<1>4. CASE Crash
    BY <1>4 DEF Crash, Handled, InHand
<1> QED
    BY <1>1, <1>2, <1>3, <1>4
    DEF vars, Next, Network, Process, MainStep, PullStep, Publish, Serve, Lose,
        SkipBatch, LockBus, UnlockBus, EndDispatch, BeginSession, MainReport,
        MainReturn, EndSession, PullOwns, PullQuits, PullDrain, PullReturn,
        PullRetry, Drain

\* Every step keeps the invariant that accounts for acknowledgements.
LEMMA NextAccountable ==
    TypeOK /\ Accountable /\ [Next]_vars => Accountable'
<1> SUFFICES ASSUME TypeOK, Accountable, [Next]_vars PROVE Accountable'
    OBVIOUS
<1> USE DEF serverVars, sessionVars, busVars, callVars, ghostVars
<1>0. Handled \subseteq Handled'
    BY HandledGrows
<1>1. ASSUME UNCHANGED <<published, outstanding, pending, seen, acks>>
      PROVE  Accountable'
    BY <1>0, <1>1 DEF Accountable, NoneForgottenUnhandled
<1>2. ASSUME NEW e \in Events, Publish(e) PROVE Accountable'
    <2>1. published' \ outstanding' \subseteq published \ outstanding
        BY <1>2 DEF Publish
    <2> QED BY <1>0, <1>2, <2>1 DEF Publish, Accountable, NoneForgottenUnhandled
<1>3. ASSUME NEW c \in Callers, NEW B \in SUBSET Events, Serve(c, B)
      PROVE  Accountable'
    <2>1. published' \ outstanding' \subseteq (published \ outstanding) \cup acks[c]
        BY <1>3 DEF Serve
    <2>2. NoneForgottenUnhandled'
        BY <1>0, <2>1 DEF Accountable, NoneForgottenUnhandled
    <2>3. \A d \in Callers : acks'[d] \subseteq acks[d]
        BY <1>3 DEF Serve, TypeOK
    <2> QED BY <1>0, <1>3, <2>2, <2>3 DEF Serve, Accountable
<1>4. ASSUME NEW c \in Callers, Lose(c) PROVE Accountable'
    <2>1. \A d \in Callers : acks'[d] \subseteq acks[d]
        BY <1>4 DEF Lose, TypeOK
    <2> QED BY <1>0, <1>4, <2>1 DEF Lose, Accountable, NoneForgottenUnhandled
<1>5. ASSUME NEW c \in Callers, Drain(c) PROVE Accountable'
    <2>1. \A d \in Callers : acks'[d] \subseteq acks[d] \cup pending
        BY <1>5 DEF Drain, TypeOK
    <2> QED BY <1>0, <1>5, <2>1 DEF Drain, Accountable, NoneForgottenUnhandled
<1>6. ASSUME NEW c \in Callers, NEW e \in Events, Mark(c, e) PROVE Accountable'
    <2>1. e \in Handled'
        <3>1. CASE e \in Range(seen)
            BY <1>0, <3>1 DEF Accountable
        <3>2. CASE e \notin Range(seen)
            BY <1>6, <3>2 DEF Mark, IsFresh, TypeOK, Handled, InHand
        <3> QED BY <3>1, <3>2
    <2>2. pending' \subseteq pending \cup {e}
        BY <1>6 DEF Mark, AcksAfter
    <2>3. Range(seen') \subseteq Range(seen) \cup {e}
        BY <1>6, RememberRange DEF Mark, TypeOK
    <2> QED BY <1>0, <1>6, <2>1, <2>2, <2>3 DEF Mark, Accountable, NoneForgottenUnhandled
<1>7. CASE Crash
    <2>1. Range(<<>>) = {}
        BY DEF Range
    <2> QED BY <1>0, <1>7, <2>1 DEF Crash, Accountable, NoneForgottenUnhandled
<1> QED
    BY <1>1, <1>2, <1>3, <1>4, <1>5, <1>6, <1>7, MainIsCaller
    DEF vars, Next, Network, Process, MainStep, PullStep, SkipBatch, LockBus,
        UnlockBus, Dispatch, EndDispatch, BeginSession, MainReport, MainReturn,
        EndSession, PullOwns, PullQuits, PullDrain, PullReturn, PullRetry

\* The server never forgets an event that reached no handler, unless the
\* process died with it: acknowledging before dispatching, dropping a stale
\* response and losing requests lose no event.
THEOREM NoneForgotten == Spec => []NoneForgottenUnhandled
<1>1. Accountable => NoneForgottenUnhandled
    BY DEF Accountable
<1> QED BY <1>1, TypeCorrect, InitAccountable, NextAccountable, PTL DEF Spec

-----------------------------------------------------------------------------
(* A current pull thread belongs to the HTTP session under way.            *)

\* Every step of the tick loop, a pull thread or a crash keeps HTTP_V2_GENERATION
\* tied to the session: run_tick_loop and PullSessionGuard bump it on each exit.
LEMMA NextSessionInv == TypeOK /\ SessionInv /\ [Next]_vars => SessionInv'
<1> SUFFICES ASSUME TypeOK, SessionInv, [Next]_vars PROVE SessionInv'
    OBVIOUS
<1> USE PullSessionAssumption, MainIsCaller
    DEF TypeOK, SessionInv, OwnerInSession,
        serverVars, sessionVars, busVars, callVars, ghostVars
<1>1. CASE UNCHANGED vars
    BY <1>1 DEF vars
<1>2. ASSUME NEW e \in Events, Publish(e) PROVE SessionInv'
    BY <1>2 DEF Publish
<1>3. ASSUME NEW c \in Callers, Network(c) PROVE SessionInv'
    BY <1>3 DEF Network, Serve, Lose
<1>4. ASSUME NEW c \in Callers, Process(c) PROVE SessionInv'
    BY <1>4 DEF Process, SkipBatch, LockBus, Mark, UnlockBus, Dispatch, EndDispatch
<1>5. CASE MainStep
    <2>1. ASSUME NEW m \in {"ws", "http"}, BeginSession(m) PROVE SessionInv'
        BY <2>1 DEF BeginSession
    <2>2. CASE MainReport BY <2>2 DEF MainReport, Drain
    <2>3. CASE MainReturn BY <2>3 DEF MainReturn
    <2>4. CASE EndSession BY <2>4 DEF EndSession
    <2> QED BY <1>5, <2>1, <2>2, <2>3, <2>4 DEF MainStep
<1>6. ASSUME NEW t \in PullThreads, PullStep(t) PROVE SessionInv'
    BY <1>6 DEF PullStep, PullOwns, PullQuits, PullDrain, Drain, PullReturn, PullRetry
<1>7. CASE Crash
    BY <1>7 DEF Crash
<1> QED BY <1>1, <1>2, <1>3, <1>4, <1>5, <1>6, <1>7 DEF Next

\* HTTP_V2_GENERATION names a live thread only inside the session that spawned
\* it, however that session and earlier ones ended.
THEOREM OwnerHasSession == Spec => []OwnerInSession
<1>1. Init => SessionInv
    BY PullSessionAssumption, MainIsCaller DEF Init, SessionInv, OwnerInSession
<1>2. SessionInv => OwnerInSession
    BY DEF SessionInv
<1> QED BY <1>1, <1>2, TypeCorrect, NextSessionInv, PTL DEF Spec

-----------------------------------------------------------------------------
(* While no more ids are about than V2EventBus remembers, none is          *)
(* dispatched twice.                                                       *)

Ids == Events \ Anonymous
FewIds == Cardinality(Ids) <= SeenCap

\* The pigeonhole behind SEEN_CAP: a list of distinct ids that lacks one of
\* them has room, so mark_seen evicts nothing.
LEMMA RoomToRemember ==
    ASSUME FewIds, NEW s \in Seq(Events), NEW e \in Ids,
           Range(s) \subseteq Ids \ {e},
           \A i, j \in 1..Len(s) : s[i] = s[j] => i = j
    PROVE  Len(s) < SeenCap
<1>1. /\ IsFiniteSet(Ids)
      /\ Cardinality(Ids) \in Nat
    BY PullSessionAssumption, FS_Difference, FS_CardinalityType DEF Ids
<1>2. /\ IsFiniteSet(Ids \ {e})
      /\ Cardinality(Ids \ {e}) < SeenCap
      /\ Cardinality(Ids \ {e}) \in Nat
    <2>1. /\ IsFiniteSet(Ids \ {e})
          /\ Cardinality(Ids \ {e}) = Cardinality(Ids) - 1
        BY <1>1, FS_RemoveElement, Zenon
    <2>2. Cardinality(Ids \ {e}) \in Nat
        BY <2>1, FS_CardinalityType
    <2> QED BY <1>1, <2>1, <2>2, PullSessionAssumption DEF FewIds
<1>3. /\ IsFiniteSet(1..Len(s))
      /\ Cardinality(1..Len(s)) = Len(s)
    <2>1. 1 \in Int /\ Len(s) \in Int /\ Len(s) >= 0
        OBVIOUS
    <2>2. /\ IsFiniteSet(1..Len(s))
          /\ Cardinality(1..Len(s)) = IF 1 > Len(s) THEN 0 ELSE Len(s) - 1 + 1
        BY <2>1, FS_Interval
    <2> QED BY <2>1, <2>2
<1>4. s \in [1..Len(s) -> Ids \ {e}]
    BY DEF Range
<1>5. ASSUME Len(s) >= SeenCap PROVE FALSE
    <2>1. Cardinality(Ids \ {e}) < Cardinality(1..Len(s))
        BY <1>2, <1>3, <1>5, PullSessionAssumption
    <2>2. \E x, y \in 1..Len(s) : x # y /\ s[x] = s[y]
        BY <1>2, <1>3, <1>4, <2>1, FS_PigeonHole
    <2> QED BY <2>2
<1> QED BY <1>5, PullSessionAssumption

\* Noting a new id while there is room appends it.
LEMMA RememberAppends ==
    ASSUME FewIds, NEW s \in Seq(Events), NEW e \in Ids \ Range(s),
           Range(s) \cap Anonymous = {},
           \A i, j \in 1..Len(s) : s[i] = s[j] => i = j
    PROVE  /\ Range(Remember(s, e)) = Range(s) \cup {e}
           /\ \A i, j \in 1..Len(Remember(s, e)) :
                 Remember(s, e)[i] = Remember(s, e)[j] => i = j
<1>1. Range(s) \subseteq Ids \ {e}
    BY DEF Ids, Range
<1>2. Len(s) < SeenCap
    BY <1>1, RoomToRemember
<1>3. Remember(s, e) = Append(s, e)
    BY <1>2, PullSessionAssumption DEF Remember
<1>4. Range(Append(s, e)) = Range(s) \cup {e}
    <2>1. DOMAIN Append(s, e) = DOMAIN s \cup {Len(s) + 1}
        OBVIOUS
    <2>2. /\ \A i \in DOMAIN s : Append(s, e)[i] = s[i]
          /\ Append(s, e)[Len(s) + 1] = e
        OBVIOUS
    <2> QED BY <2>1, <2>2 DEF Range
<1>5. \A i \in 1..Len(s) : s[i] # e
    BY DEF Range
<1> QED BY <1>3, <1>4, <1>5

\* At start no event was dispatched and mark_seen has noted none.
LEMMA InitDispatchOnce == Init => DispatchOnceInv
BY PullSessionAssumption DEF Init, DispatchOnceInv, AtMostOnce, InHand, Range

\* Every step keeps the invariant behind AtMostOnce.
LEMMA NextDispatchOnce ==
    ASSUME FewIds
    PROVE  TypeOK /\ DispatchOnceInv /\ [Next]_vars => DispatchOnceInv'
<1> SUFFICES ASSUME TypeOK, DispatchOnceInv, [Next]_vars PROVE DispatchOnceInv'
    OBVIOUS
<1> USE DEF serverVars, sessionVars, busVars, callVars, ghostVars
<1>1. ASSUME UNCHANGED <<seen, fresh, dispatched, crashes>>
      PROVE  DispatchOnceInv'
    BY <1>1 DEF DispatchOnceInv, AtMostOnce, InHand
<1>2. ASSUME NEW c \in Callers, NEW e \in Events, Mark(c, e)
      PROVE  DispatchOnceInv'
    <2>0. /\ dispatched' = dispatched
          /\ crashes' = crashes
          /\ AtMostOnce'
        BY <1>2 DEF Mark, DispatchOnceInv, AtMostOnce
    <2>1. CASE e \in Range(seen)
        <3>1. UNCHANGED <<seen, fresh>>
            BY <1>2, <2>1 DEF Mark, IsFresh
        <3> QED BY <1>1, <2>0, <3>1
    <2>2. CASE e \in Anonymous
        <3>1. seen' = seen
            BY <1>2, <2>2 DEF Mark
        <3>2. fresh' \in [Callers -> SUBSET Events]
            BY <1>2 DEF Mark, TypeOK
        <3>3. \A d \in Callers : fresh'[d] \ Anonymous = fresh[d] \ Anonymous
            BY <1>2, <2>2 DEF Mark, TypeOK
        <3>4. \A x \in Ids : x \in InHand' => x \in InHand
            BY <3>3 DEF InHand, Ids
        <3> QED BY <2>0, <3>1, <3>3, <3>4 DEF DispatchOnceInv, Ids
    <2>3. CASE e \notin Anonymous \cup Range(seen)
        <3>1. /\ Range(seen') = Range(seen) \cup {e}
              /\ \A i, j \in 1..Len(seen') : seen'[i] = seen'[j] => i = j
            BY <1>2, <2>3, RememberAppends DEF Mark, TypeOK, DispatchOnceInv, Ids
        <3>2. fresh' = [fresh EXCEPT ![c] = @ \cup {e}]
            BY <1>2, <2>3 DEF Mark, IsFresh
        <3>3. dispatched[e] <= crashes /\ \A d \in Callers : e \notin fresh[d]
            BY <2>3 DEF DispatchOnceInv, InHand
        <3>4. \A x \in Events \ Anonymous :
                 x \notin Range(seen') => dispatched'[x] <= crashes' /\ x \notin InHand'
            BY <2>0, <3>1, <3>2 DEF DispatchOnceInv, InHand, TypeOK
        <3>5. \A b \in Callers : \A x \in fresh'[b] \ Anonymous :
                 /\ dispatched'[x] <= crashes'
                 /\ \A d \in Callers \ {b} : x \notin fresh'[d]
            BY <2>0, <3>2, <3>3 DEF DispatchOnceInv, TypeOK
        <3> QED BY <2>0, <2>3, <3>1, <3>4, <3>5 DEF DispatchOnceInv
    <2> QED BY <2>1, <2>2, <2>3
<1>3. ASSUME NEW c \in Callers, NEW e \in Events, Dispatch(c, e)
      PROVE  DispatchOnceInv'
    <2>1. /\ seen' = seen
          /\ crashes' = crashes
          /\ \A d \in Callers : fresh'[d] \subseteq fresh[d]
          /\ e \notin fresh'[c]
          /\ \A x \in Events \ {e} : dispatched'[x] = dispatched[x]
        BY <1>3 DEF Dispatch, TypeOK
    <2>2. dispatched'[e] <= dispatched[e] + 1 /\ dispatched[e] \in Nat /\ crashes \in Nat
        BY <1>3 DEF Dispatch, TypeOK
    <2>3. e \notin Anonymous =>
             /\ dispatched[e] <= crashes
             /\ \A d \in Callers : e \notin fresh'[d]
             /\ e \in Range(seen)
        BY <1>3, <2>1 DEF Dispatch, DispatchOnceInv, InHand
    <2>4. AtMostOnce'
        <3>1. \A x \in Events \ Anonymous : dispatched[x] <= 1 + crashes
            BY DEF DispatchOnceInv, AtMostOnce
        <3>2. e \notin Anonymous => dispatched'[e] <= 1 + crashes
            <4>1. \A m, n, k \in Nat : m <= n + 1 /\ n <= k => m <= 1 + k
                OBVIOUS
            <4>2. dispatched'[e] \in Nat
                BY <1>3, PullSessionAssumption DEF Dispatch, TypeOK
            <4> QED BY <2>2, <2>3, <4>1, <4>2
        <3>3. \A x \in Events \ Anonymous : dispatched'[x] <= 1 + crashes'
            BY <2>1, <3>1, <3>2
        <3> QED BY <3>3 DEF AtMostOnce
    <2>5. \A x \in Events \ Anonymous :
             x \notin Range(seen') => dispatched'[x] <= crashes' /\ x \notin InHand'
        BY <2>1, <2>3 DEF DispatchOnceInv, InHand
    <2>6. \A b \in Callers : \A x \in fresh'[b] \ Anonymous :
             /\ dispatched'[x] <= crashes'
             /\ \A d \in Callers \ {b} : x \notin fresh'[d]
        BY <2>1, <2>3 DEF DispatchOnceInv, TypeOK
    <2> QED BY <2>1, <2>4, <2>5, <2>6 DEF DispatchOnceInv
<1>4. CASE Crash
    <2>1. /\ crashes' = crashes + 1
          /\ dispatched' = dispatched
          /\ seen' = <<>>
          /\ \A c \in Callers : fresh'[c] = {}
        BY <1>4 DEF Crash
    <2>2. \A x \in Events \ Anonymous : dispatched'[x] <= crashes'
        BY <2>1 DEF DispatchOnceInv, AtMostOnce, TypeOK
    <2>3. AtMostOnce'
        <3>1. /\ \A x \in Events : dispatched[x] \in Nat
              /\ crashes \in Nat
            BY DEF TypeOK
        <3>2. \A x \in Events \ Anonymous : dispatched'[x] <= 1 + crashes'
            BY <2>1, <2>2, <3>1
        <3> QED BY <3>2 DEF AtMostOnce
    <2> QED BY <2>1, <2>2, <2>3 DEF DispatchOnceInv, InHand, Range
<1> QED
    BY <1>1, <1>2, <1>3, <1>4
    DEF vars, Next, Network, Process, MainStep, PullStep, Publish, Serve, Lose,
        SkipBatch, LockBus, UnlockBus, EndDispatch, BeginSession, MainReport,
        MainReturn, EndSession, PullOwns, PullQuits, PullDrain, PullReturn,
        PullRetry, Drain

\* With at most SEEN_CAP ids, an event reaches its handler at most once in the
\* life of the process, however often it is re-sent and by whichever path.
THEOREM DispatchedAtMostOnce ==
    ASSUME FewIds
    PROVE  Spec => []AtMostOnce
<1>1. DispatchOnceInv => AtMostOnce
    BY DEF DispatchOnceInv
<1>2. TypeOK /\ DispatchOnceInv /\ [Next]_vars => DispatchOnceInv'
    BY NextDispatchOnce
<1> QED BY <1>1, <1>2, TypeCorrect, InitDispatchOnce, PTL DEF Spec

-----------------------------------------------------------------------------
(* The bus implements EventDelivery as long as the process lives and every *)
(* event has an id.                                                        *)

NoCrash == MaxCrashes = 0 /\ Anonymous = {}

\* A response holds events the server has queued, and only a crash abandons.
RefinementInv ==
    /\ \A c \in Callers : batch[c] \subseteq published
    /\ crashes = 0 => abandoned = {}

\* At start no response is in hand and no crash has happened.
LEMMA InitRefinementInv == Init => RefinementInv
BY DEF Init, RefinementInv

\* A response only carries events the server has queued, and only a crash takes
\* events that process_v2_response_events accepted.
LEMMA NextRefinementInv == TypeOK /\ RefinementInv /\ [Next]_vars => RefinementInv'
<1> SUFFICES ASSUME TypeOK, RefinementInv, [Next]_vars PROVE RefinementInv'
    OBVIOUS
<1> USE DEF serverVars, sessionVars, busVars, callVars, ghostVars
<1>1. ASSUME published \subseteq published', UNCHANGED <<crashes, abandoned>>,
             \A c \in Callers : batch'[c] \subseteq batch[c]
      PROVE  RefinementInv'
    BY <1>1 DEF RefinementInv
<1>2. ASSUME NEW c \in Callers, NEW B \in SUBSET Events, Serve(c, B)
      PROVE  RefinementInv'
    <2>1. B \subseteq published
        BY <1>2 DEF Serve, TypeOK
    <2> QED BY <1>2, <2>1 DEF Serve, RefinementInv, TypeOK
<1>3. CASE Crash
    BY <1>3 DEF Crash, RefinementInv, TypeOK
<1>4. ASSUME NEW c \in Callers, Lose(c) \/ (\E e \in Events : Mark(c, e))
      PROVE  RefinementInv'
    BY <1>1, <1>4 DEF Lose, Mark, TypeOK
<1>5. ASSUME NEW t \in PullThreads, PullQuits(t) PROVE RefinementInv'
    BY <1>1, <1>5, MainIsCaller DEF PullQuits, TypeOK
<1> QED
    BY <1>1, <1>2, <1>3, <1>4, <1>5
    DEF vars, Next, Network, Process, MainStep, PullStep, Publish,
        SkipBatch, LockBus, UnlockBus, Dispatch, EndDispatch, BeginSession,
        MainReport, MainReturn, EndSession, PullOwns, PullDrain, PullReturn,
        PullRetry, Drain

\* Each step of the bus is a step of EventDelivery or leaves its state alone:
\* the server queues, mark_seen accepts, dispatch_v2_event executes, and the
\* server forgets what a request acknowledges.
LEMMA StepRefines ==
    ASSUME FewIds, NoCrash, TypeOK, Accountable, DispatchOnceInv, RefinementInv,
           [Next]_vars
    PROVE  [ED!Next]_(ED!adVars)
<1> DEFINE Accepted == Executed \cup InHand
<1> USE DEF serverVars, sessionVars, busVars, callVars, ghostVars
<1>0. crashes = 0 /\ abandoned = {} /\ Handled = Accepted
    BY DEF NoCrash, TypeOK, RefinementInv, Handled, Executed
<1>1. ASSUME UNCHANGED <<published, outstanding, dispatched, fresh>>
      PROVE  UNCHANGED ED!adVars
    BY <1>1 DEF ED!adVars, Executed, InHand
<1>2. ASSUME NEW e \in Events, Publish(e) PROVE ED!Queue(e)
    BY <1>2 DEF Publish, ED!Queue, Executed, InHand
<1>3. ASSUME NEW c \in Callers, NEW B \in SUBSET Events, Serve(c, B)
      PROVE  ED!Forget(acks[c]) /\ acks[c] \in SUBSET Events
    <2>1. acks[c] \subseteq Accepted
        BY <1>0 DEF Accountable
    <2> QED BY <1>3, <2>1 DEF Serve, ED!Forget, Executed, InHand, TypeOK
<1>4. ASSUME NEW c \in Callers, NEW e \in Events, Mark(c, e)
      PROVE  ED!Accept(e) \/ UNCHANGED ED!adVars
    <2>1. CASE e \in Range(seen)
        BY <1>1, <1>4, <2>1 DEF Mark, IsFresh
    <2>2. CASE e \notin Range(seen)
        <3>1. e \in published
            BY <1>4 DEF Mark, RefinementInv
        <3>2. e \notin InHand /\ e \notin Executed
            BY <1>0, <2>2 DEF NoCrash, DispatchOnceInv, Executed, TypeOK
        <3>3. fresh' = [fresh EXCEPT ![c] = @ \cup {e}] /\ dispatched' = dispatched
            BY <1>4, <2>2 DEF Mark, IsFresh
        <3>4. InHand' = InHand \cup {e} /\ Executed' = Executed
            BY <3>3 DEF InHand, Executed, TypeOK
        <3> QED BY <1>4, <3>1, <3>2, <3>4 DEF Mark, ED!Accept
    <2> QED BY <2>1, <2>2
<1>5. ASSUME NEW c \in Callers, NEW e \in Events, Dispatch(c, e)
      PROVE  ED!Execute(e)
    <2>1. /\ e \in InHand
          /\ dispatched[e] = 0
          /\ \A d \in Callers \ {c} : e \notin fresh[d]
        BY <1>0, <1>5 DEF Dispatch, InHand, DispatchOnceInv, NoCrash, TypeOK
    <2>2. e \notin Executed
        BY <2>1 DEF Executed
    <2>3. Executed' = Executed \cup {e}
        <3>1. dispatched'[e] > 0
            BY <1>5, <2>1, PullSessionAssumption DEF Dispatch, TypeOK
        <3>2. \A x \in Events \ {e} : dispatched'[x] = dispatched[x]
            BY <1>5 DEF Dispatch, TypeOK
        <3> QED BY <3>1, <3>2 DEF Executed
    <2>4. InHand' = InHand \ {e}
        <3>1. fresh' = [fresh EXCEPT ![c] = @ \ {e}]
            BY <1>5 DEF Dispatch
        <3> QED BY <2>1, <3>1 DEF InHand, TypeOK
    <2>5. Accepted' = Accepted
        BY <2>1, <2>3, <2>4
    <2> QED BY <1>5, <2>1, <2>2, <2>3, <2>5 DEF Dispatch, ED!Execute
<1>6. ~Crash
    BY <1>0 DEF Crash, NoCrash
<1> QED
    BY <1>1, <1>2, <1>3, <1>4, <1>5, <1>6
    DEF vars, Next, Network, Process, MainStep, PullStep, Lose, SkipBatch, LockBus,
        UnlockBus, EndDispatch, BeginSession, MainReport, MainReturn, EndSession,
        PullOwns, PullQuits, PullDrain, PullReturn, PullRetry, Drain, ED!Next

\* V2EventBus, its pull threads and its sessions implement exactly-once
\* acceptance, execution and safe forgetting.
THEOREM BusImplementsEventDelivery ==
    ASSUME FewIds, NoCrash
    PROVE  Spec => ImplementsEventDelivery
<1>1. Init => ED!Init
    BY DEF Init, ED!Init, Executed, InHand
<1>2. TypeOK /\ Accountable /\ DispatchOnceInv /\ RefinementInv /\ [Next]_vars
         => [ED!Next]_(ED!adVars)
    BY StepRefines
<1>3. TypeOK /\ DispatchOnceInv /\ [Next]_vars => DispatchOnceInv'
    BY NextDispatchOnce
<1> QED
    BY <1>1, <1>2, <1>3, TypeCorrect, InitAccountable, NextAccountable,
       InitDispatchOnce, InitRefinementInv, NextRefinementInv, PTL
    DEF Spec, ED!Spec, ImplementsEventDelivery
=============================================================================
