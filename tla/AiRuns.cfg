SPECIFICATION RunsSpec
CONSTANTS
    d1 = d1
    d2 = d2
    r1 = r1
    None = None
    Deliveries <- TwoDeliveries
    Requests <- OneRequest
    Faults <- RemovableDisk
    p1 = p1
    p2 = p2
    p3 = p3
    c1 = c1
    c2 = c2
    k1 = k1
    k2 = k2
    b1 = b1
    b2 = b2
    Nothing = Nothing
    Malformed = Malformed
    PostRequests <- ThreeRequests
    Clients <- TwoClients
    Keys <- TwoKeys
    Bodies <- TwoBodies
    MaximumAcceptedCount = 1
    WindowLength = 0
    ClockLimit = 1
    AcceptanceFaults <- AnyFault
SYMMETRY LaterRequests
CHECK_DEADLOCK FALSE
INVARIANTS
    OneTruthfulCallback
    CopyHasARemover
    OneRunPerKey
    AnswerNamesItsRun
    OvershootNeedsOverlap
    AcceptedRunReachesAWorker
PROPERTIES
    ImplementsRecord
