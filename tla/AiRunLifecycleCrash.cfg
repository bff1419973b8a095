SPECIFICATION Spec
CONSTANTS
    d1 = d1
    d2 = d2
    r1 = r1
    None = None
    Deliveries <- TwoDeliveries
    Requests <- NoRequest
    Faults <- CrashFaults
CHECK_DEADLOCK FALSE
INVARIANTS
    SettledRunHasCalledBack
