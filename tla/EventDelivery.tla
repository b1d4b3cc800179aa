---------------------------- MODULE EventDelivery ----------------------------
(***************************************************************************)
(* What the HTTP control plane promises for one run of the agent: a queued *)
(* event is accepted once, executed once, and the server may forget it     *)
(* only after the agent has accepted it.  Nothing is said of sessions,     *)
(* threads, locks, requests or acknowledgements.                           *)
(***************************************************************************)
CONSTANT Events           \* the events the server may queue for this agent

VARIABLES
    published,            \* events the server has ever queued
    remembered,           \* events the server still offers
    accepted,             \* events the agent has taken for execution
    executed              \* events whose handler has been called

adVars == <<published, remembered, accepted, executed>>

Init ==
    /\ published = {}
    /\ remembered = {}
    /\ accepted = {}
    /\ executed = {}

\* The server queues a new event.
Queue(e) ==
    /\ e \notin published
    /\ published' = published \cup {e}
    /\ remembered' = remembered \cup {e}
    /\ UNCHANGED <<accepted, executed>>

\* The agent takes an event it has not taken before.
Accept(e) ==
    /\ e \in published \ accepted
    /\ accepted' = accepted \cup {e}
    /\ UNCHANGED <<published, remembered, executed>>

\* An accepted event is handed to its handler, once.
Execute(e) ==
    /\ e \in accepted \ executed
    /\ executed' = executed \cup {e}
    /\ UNCHANGED <<published, remembered, accepted>>

\* The server drops events the agent is known to have accepted.
Forget(S) ==
    /\ S \subseteq accepted
    /\ remembered' = remembered \ S
    /\ UNCHANGED <<published, accepted, executed>>

Next ==
    \/ \E e \in Events : Queue(e) \/ Accept(e) \/ Execute(e)
    \/ \E S \in SUBSET Events : Forget(S)

Spec == Init /\ [][Next]_adVars
=============================================================================
