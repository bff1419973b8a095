SPECIFICATION Spec
CONSTANTS
    Nil = Nil
    TraceTables = {"ai_model_calls"}
    Sweepers = {"first", "second"}
    ContentDayCount = 0
    TraceDayCount = 1
    AiRunCountPerBatch = 1
    MaximumBatchCount = 1
    MaximumAiRunCount = 2
    MaximumDay = 2
    MaximumSweepFaultCount = 1
    NoValue = NoValue
    ApiClients = {"own", "other"}
    Caller = "own"
    DefaultRunCount = 1
    MaximumRunCount = 2
    Queries <- FourQueries
    FirstCursors <- NoneOrSecond
    MaximumListedCount = 3
    LastStep = 1
    Askers = {"asker"}
    Works <- UnsuggestibleOrWhole
    Nothing = Nothing
    Recordings = {"first"}
    Unstated = Unstated
    Absent = Absent
    JobDispatcherCtors = {"extraction", "callback"}
    Asks = {"a1", "a2", "a3"}
    MaximumBuildCount = 3
    Unset = Unset
    Operators = {"o1", "o2"}
    MaximumSecretCount = 3
    EncryptionKeys = {"first", "second"}
    RegistrationKey = "first"
    Requests = {"r1"}
    Forms = {"whole", "bodiless", "unparsed", "unnamed", "misnamed", "undated", "unsigned"}
    AllowedDeviationSeconds = 0
    MaximumSecond = 1
    SessionClients = {"s1", "s2"}
    MaximumTokenCount = 3
    NoToken = NoToken
CHECK_DEADLOCK FALSE
INVARIANTS
    WalkIsComplete
    CleanExitLeavesNoConnection
    RefusalNeedsACause
    OneHeirPerToken
    SettledRowStands
    AnswersAreOneStory
    RetentionIsKept
PROPERTIES
    ExpiredRunIsPurged
