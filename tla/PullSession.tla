----------------------------- MODULE PullSession -----------------------------
(***************************************************************************)
(* The HTTP control plane of the agent (server/reconnection.rs): the tick  *)
(* loop posts reports, a pull thread long-polls agent.pull, and both carry *)
(* acknowledgements out and events in through one V2EventBus.  A session   *)
(* generation decides which pull thread may act.                           *)
(*                                                                         *)
(* HTTP_V2_GENERATION is only ever compared with the value a thread got    *)
(* when it was spawned, and each bump yields a value no thread has (a      *)
(* 64-bit counter); "owner" keeps exactly that: the thread whose value is  *)
(* current, if it is any thread's.                                         *)
(***************************************************************************)
EXTENDS Naturals, Sequences, FiniteSets, Functions

CONSTANTS
    Events,        \* events the server may queue for this agent
    Anonymous,     \* those that carry no id (mark_seen("") is always fresh)
    PullThreads,   \* slots for pull threads; bounds how many are alive at once
    Main,          \* the thread that runs run_tick_loop
    NoOwner,       \* the generation is no live thread's
    SeenCap,       \* V2EventBus::SEEN_CAP
    MaxCrashes,    \* bound: how often the agent process may die
    MaxDispatch    \* bound: where the ghost count of dispatches saturates

ASSUME PullSessionAssumption ==
    /\ Anonymous \subseteq Events
    /\ IsFiniteSet(Events)
    /\ Main \notin PullThreads
    /\ NoOwner \notin PullThreads
    /\ SeenCap \in Nat \ {0}
    /\ MaxCrashes \in Nat
    /\ MaxDispatch \in Nat
    /\ MaxDispatch >= MaxCrashes + 2

VARIABLES
    published,     \* server: every event ever queued
    outstanding,   \* server: events not yet acknowledged, offered again and again
    session,       \* the connection the main loop is in: "off", "ws" or "http"
    pullStarted,   \* local pull_started of run_tick_loop
    owner,         \* HTTP_V2_GENERATION, see above
    pending,       \* V2EventBus.pending_acks; repetitions do not matter
    seen,          \* V2EventBus.seen, oldest first
    pc,            \* what each caller of the bus is doing
    acks,          \* the acknowledgements in a caller's request
    batch,         \* the events of a caller's response, not yet noted in the bus
    fresh,         \* the events a caller has still to dispatch
    dispatched,    \* ghost: how often an event reached its handler
    abandoned,     \* ghost: events a crash took before they were dispatched
    crashes        \* ghost: how often the process died

serverVars  == <<published, outstanding>>
sessionVars == <<session, pullStarted, owner>>
busVars     == <<pending, seen>>
callVars    == <<pc, acks, batch, fresh>>
ghostVars   == <<dispatched, abandoned, crashes>>
vars == <<serverVars, sessionVars, busVars, callVars, ghostVars>>

Callers == PullThreads \cup {Main}

CallStates == {"none", "top", "drain", "posting", "answered", "failed",
               "apply", "marking", "dispatching"}

TypeOK ==
    /\ published \subseteq Events
    /\ outstanding \subseteq published
    /\ session \in {"off", "ws", "http"}
    /\ pullStarted \in BOOLEAN
    /\ owner \in PullThreads \cup {NoOwner}
    /\ pending \subseteq Events
    /\ seen \in Seq(Events) /\ Len(seen) <= SeenCap
    /\ pc \in [Callers -> CallStates]
    /\ acks \in [Callers -> SUBSET Events]
    /\ batch \in [Callers -> SUBSET Events]
    /\ fresh \in [Callers -> SUBSET Events]
    /\ dispatched \in [Events -> 0..MaxDispatch]
    /\ abandoned \subseteq Events
    /\ crashes \in 0..MaxCrashes

Init ==
    /\ published = {}
    /\ outstanding = {}
    /\ session = "off"
    /\ pullStarted = FALSE
    /\ owner = NoOwner
    /\ pending = {}
    /\ seen = <<>>
    /\ pc = [c \in Callers |-> IF c = Main THEN "top" ELSE "none"]
    /\ acks = [c \in Callers |-> {}]
    /\ batch = [c \in Callers |-> {}]
    /\ fresh = [c \in Callers |-> {}]
    /\ dispatched = [e \in Events |-> 0]
    /\ abandoned = {}
    /\ crashes = 0

(***************************************************************************)
(* The server.                                                             *)
(***************************************************************************)

\* The server queues an event for the agent.
Publish(e) ==
    /\ e \notin published
    /\ published' = published \cup {e}
    /\ outstanding' = outstanding \cup {e}
    /\ UNCHANGED <<sessionVars, busVars, callVars, ghostVars>>

\* A report or pull reaches the server: it forgets what the request
\* acknowledges and answers with some of what it still holds, perhaps nothing.
Serve(c, B) ==
    /\ pc[c] = "posting"
    /\ B \subseteq outstanding \ acks[c]
    /\ outstanding' = outstanding \ acks[c]
    /\ batch' = [batch EXCEPT ![c] = B]
    /\ acks' = [acks EXCEPT ![c] = {}]
    /\ pc' = [pc EXCEPT ![c] = "answered"]
    /\ UNCHANGED <<published, fresh, sessionVars, busVars, ghostVars>>

\* The request or its answer is lost, times out, or is refused (transport
\* error, status other than 200, JSON-RPC error): the drained
\* acknowledgements are gone with it.
Lose(c) ==
    /\ pc[c] \in {"posting", "answered"}
    /\ acks' = [acks EXCEPT ![c] = {}]
    /\ batch' = [batch EXCEPT ![c] = {}]
    /\ pc' = [pc EXCEPT ![c] = "failed"]
    /\ UNCHANGED <<fresh, serverVars, sessionVars, busVars, ghostVars>>

(***************************************************************************)
(* The event bus, called by the tick loop and by pull threads.             *)
(***************************************************************************)

\* The bus mutex is held only by a caller that is noting a batch.
BusFree == \A c \in Callers : pc[c] # "marking"

\* drain_acks: the whole list moves into the request that is about to leave.
Drain(c) ==
    /\ BusFree
    /\ acks' = [acks EXCEPT ![c] = pending]
    /\ pending' = {}
    /\ pc' = [pc EXCEPT ![c] = "posting"]
    /\ UNCHANGED <<seen, batch, fresh, serverVars, sessionVars, ghostVars>>

\* Mutants: the eviction comes one entry too early, or one too late.
RememberTooFew(s, e) ==
    Append(IF Len(s) + 1 >= SeenCap /\ s # <<>> THEN Tail(s) ELSE s, e)
RememberTooMany(s, e) ==
    Append(IF Len(s) > SeenCap THEN Tail(s) ELSE s, e)

\* V2EventBus::seen after an unknown id is noted: at the cap the oldest goes.
Remember(s, e) ==
    Append(IF Len(s) >= SeenCap THEN Tail(s) ELSE s, e)

\* An empty or unreadable batch is dropped before the lock is asked for.
SkipBatch(c) ==
    /\ pc[c] = "apply"
    /\ batch[c] = {}
    /\ pc' = [pc EXCEPT ![c] = "top"]
    /\ UNCHANGED <<acks, batch, fresh, serverVars, sessionVars, busVars, ghostVars>>

LockBus(c) ==
    /\ pc[c] = "apply"
    /\ batch[c] # {}
    /\ BusFree
    /\ pc' = [pc EXCEPT ![c] = "marking"]
    /\ UNCHANGED <<acks, batch, fresh, serverVars, sessionVars, busVars, ghostVars>>

\* mark_seen says whether an event was sighted before; an empty id never was.
\* Mutants: its result is ignored; its result is negated.
IsFreshAlways(e) == TRUE
IsFreshInverted(e) == e \in Range(seen)
IsFresh(e) == e \notin Range(seen)

\* pending_acks after a sighting: every sighting of an id is acknowledged.
\* Mutant: the push comes after mark_seen, so that only the first one is.
AcksAfterFirst(e) ==
    IF e \in Anonymous \cup Range(seen) THEN pending ELSE pending \cup {e}
AcksAfter(e) ==
    IF e \in Anonymous THEN pending ELSE pending \cup {e}

\* One event of the batch is noted under the lock.  The order of a response
\* matters to no property; any is allowed.
Mark(c, e) ==
    /\ pc[c] = "marking"
    /\ e \in batch[c]
    /\ batch' = [batch EXCEPT ![c] = @ \ {e}]
    /\ pending' = AcksAfter(e)
    /\ seen' = IF e \in Anonymous \cup Range(seen) THEN seen ELSE Remember(seen, e)
    /\ fresh' = IF IsFresh(e) THEN [fresh EXCEPT ![c] = @ \cup {e}] ELSE fresh
    /\ UNCHANGED <<pc, acks, serverVars, sessionVars, ghostVars>>

\* Mutant: the generation is read once more here, and a stale batch, already
\* acknowledged, is thrown away.
UnlockBusDropsStale(c) ==
    /\ pc[c] = "marking"
    /\ batch[c] = {}
    /\ pc' = [pc EXCEPT ![c] = "dispatching"]
    /\ fresh' = IF c \in {Main, owner} THEN fresh ELSE [fresh EXCEPT ![c] = {}]
    /\ UNCHANGED <<acks, batch, serverVars, sessionVars, busVars, ghostVars>>

UnlockBus(c) ==
    /\ pc[c] = "marking"
    /\ batch[c] = {}
    /\ pc' = [pc EXCEPT ![c] = "dispatching"]
    /\ UNCHANGED <<acks, batch, fresh, serverVars, sessionVars, busVars, ghostVars>>

\* dispatch_v2_event: the handler of one fresh event runs, without the lock
\* and without another look at the generation.
Dispatch(c, e) ==
    /\ pc[c] = "dispatching"
    /\ e \in fresh[c]
    /\ fresh' = [fresh EXCEPT ![c] = @ \ {e}]
    /\ dispatched' = [dispatched EXCEPT ![e] = IF @ < MaxDispatch THEN @ + 1 ELSE @]
    /\ UNCHANGED <<pc, acks, batch, abandoned, crashes, serverVars, sessionVars, busVars>>

\* Mutant: the rest of the fresh events is thrown away.
EndDispatchEarly(c) ==
    /\ pc[c] = "dispatching"
    /\ pc' = [pc EXCEPT ![c] = "top"]
    /\ fresh' = [fresh EXCEPT ![c] = {}]
    /\ UNCHANGED <<acks, batch, serverVars, sessionVars, busVars, ghostVars>>

EndDispatch(c) ==
    /\ pc[c] = "dispatching"
    /\ fresh[c] = {}
    /\ pc' = [pc EXCEPT ![c] = "top"]
    /\ UNCHANGED <<acks, batch, fresh, serverVars, sessionVars, busVars, ghostVars>>

(***************************************************************************)
(* The tick loop.                                                          *)
(***************************************************************************)

\* run_tick_loop is entered: no pull thread of an earlier session stays current.
BeginSession(m) ==
    /\ session = "off"
    /\ session' = m
    /\ pullStarted' = FALSE
    /\ owner' = NoOwner
    /\ UNCHANGED <<serverVars, busVars, callVars, ghostVars>>

\* A report is due in an HTTP session: it carries every pending
\* acknowledgement.
MainReport ==
    /\ session = "http"
    /\ pc[Main] = "top"
    /\ Drain(Main)

\* The report was answered.  The first answered report of a session spawns its
\* pull thread, which becomes the current one; when the thread cannot be
\* created the generation has moved on all the same.
MainReturn ==
    /\ pc[Main] = "answered"
    /\ pullStarted' = TRUE
    /\ \/ /\ pullStarted
          /\ pc' = [pc EXCEPT ![Main] = "apply"]
          /\ owner' = owner
       \/ /\ ~pullStarted
          /\ \E t \in PullThreads :
                /\ pc[t] = "none"
                /\ pc' = [pc EXCEPT ![Main] = "apply", ![t] = "top"]
                /\ owner' = t
       \/ /\ ~pullStarted
          /\ pc' = [pc EXCEPT ![Main] = "apply"]
          /\ owner' = NoOwner
    /\ UNCHANGED <<acks, batch, fresh, session, serverVars, busVars, ghostVars>>

\* Mutant: no PullSessionGuard, so a session that ends leaves its thread current.
EndSessionKeepsOwner ==
    /\ session # "off"
    /\ pc[Main] = "failed" \/ pc[Main] = "top"
    /\ session' = "off"
    /\ pc' = [pc EXCEPT ![Main] = "top"]
    /\ UNCHANGED <<owner, pullStarted, acks, batch, fresh, serverVars,
                   busVars, ghostVars>>

\* run_tick_loop returns: its report failed, the WebSocket ended, or a
\* re-probe is due.  PullSessionGuard moves the generation on in every case.
EndSession ==
    /\ session # "off"
    /\ pc[Main] = "failed" \/ pc[Main] = "top"
    /\ session' = "off"
    /\ owner' = NoOwner
    /\ pc' = [pc EXCEPT ![Main] = "top"]
    /\ UNCHANGED <<pullStarted, acks, batch, fresh, serverVars, busVars, ghostVars>>

(***************************************************************************)
(* The pull thread.                                                        *)
(***************************************************************************)

\* Top of the loop: a thread whose generation is current goes on to pull...
PullOwns(t) ==
    /\ pc[t] = "top"
    /\ owner = t
    /\ pc' = [pc EXCEPT ![t] = "drain"]
    /\ UNCHANGED <<acks, batch, fresh, serverVars, sessionVars, busVars, ghostVars>>

\* ...and any other thread returns.  The generation is read again after the
\* POST, whatever its outcome, and a response of an old session is dropped.
PullQuits(t) ==
    /\ pc[t] \in {"top", "answered", "failed"}
    /\ owner # t
    /\ pc' = [pc EXCEPT ![t] = "none"]
    /\ batch' = [batch EXCEPT ![t] = {}]
    /\ UNCHANGED <<acks, fresh, serverVars, sessionVars, busVars, ghostVars>>

\* The drain is a step of its own: the session may end after the check.
PullDrain(t) ==
    /\ pc[t] = "drain"
    /\ Drain(t)

PullReturn(t) ==
    /\ pc[t] = "answered"
    /\ owner = t
    /\ pc' = [pc EXCEPT ![t] = "apply"]
    /\ UNCHANGED <<acks, batch, fresh, serverVars, sessionVars, busVars, ghostVars>>

\* A failed pull is retried after reconnect_interval seconds.
PullRetry(t) ==
    /\ pc[t] = "failed"
    /\ owner = t
    /\ pc' = [pc EXCEPT ![t] = "top"]
    /\ UNCHANGED <<acks, batch, fresh, serverVars, sessionVars, busVars, ghostVars>>

(***************************************************************************)
(* The process dies and is started again: every thread and the bus are     *)
(* gone, and with them whatever was accepted and not dispatched.           *)
(***************************************************************************)
Crash ==
    /\ crashes < MaxCrashes
    /\ crashes' = crashes + 1
    /\ abandoned' = abandoned \cup UNION {fresh[c] : c \in Callers}
    /\ session' = "off"
    /\ pullStarted' = FALSE
    /\ owner' = NoOwner
    /\ pending' = {}
    /\ seen' = <<>>
    /\ pc' = [c \in Callers |-> IF c = Main THEN "top" ELSE "none"]
    /\ acks' = [c \in Callers |-> {}]
    /\ batch' = [c \in Callers |-> {}]
    /\ fresh' = [c \in Callers |-> {}]
    /\ UNCHANGED <<serverVars, dispatched>>

-----------------------------------------------------------------------------
\* process_v2_response_events, the part tick loop and pull threads share.
Process(c) ==
    \/ SkipBatch(c)
    \/ LockBus(c)
    \/ \E e \in Events : Mark(c, e)
    \/ UnlockBus(c)
    \/ \E e \in Events : Dispatch(c, e)
    \/ EndDispatch(c)

MainStep ==
    \/ \E m \in {"ws", "http"} : BeginSession(m)
    \/ MainReport
    \/ MainReturn
    \/ EndSession

\* Mutant: the pull loop never looks at the generation.
PullStepUnchecked(t) ==
    \/ /\ \/ pc[t] = "top" /\ pc' = [pc EXCEPT ![t] = "drain"]
          \/ pc[t] = "answered" /\ pc' = [pc EXCEPT ![t] = "apply"]
          \/ pc[t] = "failed" /\ pc' = [pc EXCEPT ![t] = "top"]
       /\ UNCHANGED <<acks, batch, fresh, serverVars, sessionVars, busVars, ghostVars>>
    \/ PullDrain(t)

PullStep(t) ==
    \/ PullOwns(t)
    \/ PullQuits(t)
    \/ PullDrain(t)
    \/ PullReturn(t)
    \/ PullRetry(t)

Network(c) ==
    \/ \E B \in SUBSET Events : Serve(c, B)
    \/ Lose(c)

Next ==
    \/ \E e \in Events : Publish(e)
    \/ \E c \in Callers : Network(c) \/ Process(c)
    \/ MainStep
    \/ \E t \in PullThreads : PullStep(t)
    \/ Crash

Spec == Init /\ [][Next]_vars

(***************************************************************************)
(* Fairness.  The agent's threads are never descheduled for good and every *)
(* request ends (the HTTP client has time limits), so their steps are      *)
(* weakly fair; nothing makes a healthy session end, so EndSession is fair *)
(* only after a failure.  The network may lose requests for ever, but not  *)
(* all those that could carry a given event or acknowledgement: strong     *)
(* fairness of each, the usual fair-lossy link.                            *)
(***************************************************************************)
Delivers(c, e) == \E B \in SUBSET Events : e \in B /\ Serve(c, B)
Acknowledges(c, e) == e \in acks[c] /\ \E B \in SUBSET Events : Serve(c, B)

ThreadFairness ==
    /\ WF_vars(MainReport)
    /\ WF_vars(MainReturn)
    /\ WF_vars(pc[Main] = "failed" /\ EndSession)
    /\ \A t \in PullThreads : WF_vars(PullStep(t))
    /\ \A c \in Callers : WF_vars(Network(c)) /\ WF_vars(Process(c))

NetworkFairness ==
    \A c \in Callers, e \in Events :
        SF_vars(Delivers(c, e)) /\ SF_vars(Acknowledges(c, e))

FairSpec == Spec /\ ThreadFairness /\ NetworkFairness

(***************************************************************************)
(* Safety.                                                                 *)
(***************************************************************************)

\* mark_seen: an event with an id reaches its handler at most once in the life
\* of the process, although the server re-sends it until it is acknowledged and
\* the tick loop and pull threads receive it independently.  Holds as long as
\* no more than SEEN_CAP ids are about (V2EventBus::SEEN_CAP).
AtMostOnce ==
    \A e \in Events \ Anonymous : dispatched[e] <= 1 + crashes

InHand == UNION {fresh[c] : c \in Callers}
Handled == {e \in Events : dispatched[e] > 0} \cup InHand \cup abandoned

\* process_v2_response_events acknowledges before it dispatches, and a pull
\* thread's answer is dropped when its session is over: still the server never
\* forgets an event that did not reach its handler, except one that the
\* process held when it died.
NoneForgottenUnhandled ==
    published \ outstanding \subseteq Handled

\* Why that holds: whatever may still become an acknowledgement, in the bus or
\* in a request that is under way, was noted by mark_seen, and whatever
\* mark_seen noted went to a handler's queue.
Accountable ==
    /\ NoneForgottenUnhandled
    /\ pending \subseteq Handled
    /\ Range(seen) \subseteq Handled
    /\ \A c \in Callers : acks[c] \subseteq Handled

\* Why AtMostOnce holds: only the seen list stands between a re-sent event and
\* its handler, so an id that is not in it has not been dispatched by this
\* process and waits in no queue, and an id waits in one queue at most.
DispatchOnceInv ==
    /\ AtMostOnce
    /\ \A e \in Events \ Anonymous :
          e \notin Range(seen) => /\ dispatched[e] <= crashes
                                 /\ e \notin InHand
    /\ \A c \in Callers : \A e \in fresh[c] \ Anonymous :
          /\ dispatched[e] <= crashes
          /\ \A d \in Callers \ {c} : e \notin fresh[d]
    /\ \A i, j \in 1..Len(seen) : seen[i] = seen[j] => i = j
    /\ Range(seen) \cap Anonymous = {}

\* HTTP_V2_GENERATION and PullSessionGuard: a pull thread is current only while
\* the tick loop is in the HTTP session that spawned it, whatever way earlier
\* sessions ended.
OwnerInSession ==
    owner # NoOwner =>
        /\ session = "http"
        /\ pullStarted
        /\ pc[owner] # "none"

\* Why that holds: the tick loop calls the server only in an HTTP session, so it
\* is in one when it spawns a thread.
SessionInv ==
    /\ OwnerInSession
    /\ pc[Main] # "top" => session = "http"
    /\ pc[Main] \notin {"none", "drain"}

\* spawn_pull_thread: "A response from an obsolete session must not execute
\* tasks after the main loop has recovered WS or reconnected HTTP": no handler
\* runs on a pull thread whose session is over.
NoStaleDispatch ==
    [][\A t \in PullThreads :
          (fresh'[t] # fresh[t] /\ dispatched' # dispatched) => owner = t]_vars

(***************************************************************************)
(* Liveness.                                                               *)
(***************************************************************************)

\* The agent keeps reporting while a session lasts, and a lost answer is made
\* good by the server re-sending: a queued event reaches its handler unless the
\* HTTP session ends first.
EventuallyDispatched ==
    \A e \in Events :
        (session = "http" /\ e \in outstanding)
            ~> (dispatched[e] > 0 \/ session # "http")

\* "Re-ack on every sighting": acknowledgements drained into a lost request
\* are regenerated, so the server stops offering the event in the end.
EventuallyAcknowledged ==
    \A e \in Events \ Anonymous :
        (session = "http" /\ e \in outstanding)
            ~> (e \notin outstanding \/ session # "http")

\* A pull thread whose session is over leaves, also when it is in the middle of
\* a long poll or of a batch: old sessions do not pile up threads.
ObsoleteThreadExits ==
    \A t \in PullThreads :
        (pc[t] # "none" /\ owner # t) ~> pc[t] = "none"

(***************************************************************************)
(* Refinement: without crashes and anonymous events the bus delivers as    *)
(* EventDelivery promises.                                                 *)
(***************************************************************************)
Executed == {e \in Events : dispatched[e] > 0}

ED == INSTANCE EventDelivery WITH
        remembered <- outstanding,
        accepted <- Executed \cup InHand,
        executed <- Executed

\* The bus and its sessions implement the delivery promise: an event is
\* accepted once (mark_seen), executed once (dispatch_v2_event) and forgotten
\* by the server only after it was accepted (pending_acks).
ImplementsEventDelivery == ED!Spec
=============================================================================
