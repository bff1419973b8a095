SPECIFICATION ReadingSpec
CONSTANTS
    Askers = {"asker"}
    Works <- TwoCallsAndTheirStep
    Nothing = Nothing
INVARIANTS
    SpendingStandsAtTheStop
CHECK_DEADLOCK FALSE
