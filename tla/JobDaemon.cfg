SPECIFICATION DaemonSpec
CONSTANTS
    AttemptLimit = 2
    StallLimit = 1
    RedirectLimit = 1
    None = None
    Faults <- AnyFault
    Schedulers = {"content", "trace"}
    RetiredIds = {}
    MaximumScriptCount = 1
    MaximumSilenceCount = 1
    Untold = Untold
CHECK_DEADLOCK FALSE
INVARIANTS
    EndIsAccountedFor
    AcceptedIsLast
PROPERTIES
    NoCallAfterWithdrawal
    CallbackEnds
    EveryBootIsTold
