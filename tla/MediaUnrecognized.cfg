SPECIFICATION Spec
CONSTANTS
    None = None
    MaximumRedirectCount = 2
    MaximumReadByteSize = 2
    MaximumReadChunkCount = 2
    CancelsMayRaise = TRUE
    DeclaredMedia <- Requests
    MaximumMediaCount = 3
    MaximumByteSize = 2
    MediaBudget = 3
    MediumTimeout = 2
    MediaFaults <- NoFault
CHECK_DEADLOCK FALSE
INVARIANT
    UnrecognizedKindIsRefusedByName
