SPECIFICATION Spec
CONSTANTS
    e1 = e1
    e2 = e2
    t1 = t1
    t2 = t2
    Main = Main
    NoOwner = NoOwner
    Events <- TwoEvents
    Anonymous = {}
    PullThreads <- OneThread
    SeenCap = 1
    MaxCrashes = 1
    MaxDispatch = 3
INVARIANTS
    TypeOK
    NoneForgottenUnhandled
