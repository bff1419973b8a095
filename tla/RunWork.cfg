SPECIFICATION RunWorkSpec
CONSTANTS
    None = None
    Absent = Absent
    MaximumRedirectCount = 2
    MaximumReadByteSize = 2
    MaximumReadChunkCount = 2
    CancelsMayRaise = TRUE
    DeclaredMedia <- Requests
    MaximumMediaCount = 3
    MaximumByteSize = 2
    MediaBudget = 3
    MediumTimeout = 2
    MediaFaults <- EveryFault
    Under <- FourPrefixes
    CallbackUrl = "asked"
    HopLimit = 2
    Nothing = Nothing
    p = p
    q = q
    elsewhere = elsewhere
    m1 = m1
    m2 = m2
    unsent = unsent
    Failed = Failed
    Unit = 2
    NumberSpan = 2
    EvidenceKindNames <- ThreeKinds
    Draws <- SixDraws
    StubText <- StubTexts
    WholeNumberText <- WholeNumberTexts
    ReadingCount = 3
    Agents <- SevenAgents
    AttachedFiles <- TwoFiles
    Answers <- SixteenAnswers
    Schemas <- AllSchemas
    NumberText <- NumberTexts
    NumberOf <- Numbers
    LengthOf <- Lengths
    RecordablePaths <- ThreePaths
    Weight <- ThreeWeights
    FieldState <- ThreeStates
    Wordings = {plain, polite}
    Writers = {w1, w2}
    Asks = {run}
    ModelNames = {"gemini", "retired"}
    DriverNames <- TwoDrivers
    LatestInstant = 3
    NoRow = NoRow
SYMMETRY NamesAreAlike
CHECK_DEADLOCK FALSE
INVARIANTS
    EveryResponseIsDisposedOf
    BudgetIsKept
    PreparedRunIsComplete
    RefusalIsTruthful
    EveryCallIsRecorded
    SettledIffMajority
    AgreedEvidence
    EveryFieldIsAccountedFor
    ModelFailsNoRun
    StubReadingsSettle
    VersionNamesWhatWasSent
    CallbackStaysWithItsClient
PROPERTY
    ImplementsDelivery
