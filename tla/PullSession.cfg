SPECIFICATION FairSpec
CONSTANTS
    e1 = e1
    e2 = e2
    t1 = t1
    t2 = t2
    Main = Main
    NoOwner = NoOwner
    Events <- OneEvent
    Anonymous = {}
    PullThreads <- TwoThreads
    SeenCap = 2
    MaxCrashes = 0
    MaxDispatch = 2
INVARIANTS
    AtMostOnce
    OwnerInSession
PROPERTIES
    ImplementsEventDelivery
    EventuallyDispatched
    EventuallyAcknowledged
    ObsoleteThreadExits
