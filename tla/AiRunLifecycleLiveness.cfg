SPECIFICATION LivenessSpec
CONSTANTS
    d1 = d1
    d2 = d2
    r1 = r1
    None = None
    Deliveries <- TwoDeliveries
    Requests <- OneRequest
    Faults <- WorkFaults
CHECK_DEADLOCK FALSE
PROPERTIES
    RunSettles
    SettledRunCallsBack
    CanceledInQueueEndsCanceled
