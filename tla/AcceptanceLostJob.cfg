SPECIFICATION AcceptanceSpec
CONSTANTS
    p1 = p1
    p2 = p2
    p3 = p3
    c1 = c1
    c2 = c2
    k1 = k1
    k2 = k2
    b1 = b1
    b2 = b2
    Nothing = Nothing
    Malformed = Malformed
    PostRequests <- TwoRequests
    Clients <- OneClient
    Keys <- OneKey
    Bodies <- OneBody
    MaximumAcceptedCount = 2
    WindowLength = 0
    ClockLimit = 0
    AcceptanceFaults <- QueueFaults
SYMMETRY Interchangeable
CHECK_DEADLOCK FALSE
INVARIANTS
    NoRunIsAcceptedWithoutAJob
