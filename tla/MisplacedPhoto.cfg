SPECIFICATION ReadingSpec
CONSTANTS
    p = p
    q = q
    elsewhere = elsewhere
    m1 = m1
    m2 = m2
    unsent = unsent
    Failed = Failed
    Absent = Absent
    Unit = 2
    NumberSpan = 2
    EvidenceKindNames <- ThreeKinds
    Draws <- SixDraws
    StubText <- StubTexts
    WholeNumberText <- WholeNumberTexts
    ReadingCount = 3
    Agents <- SevenAgents
    AttachedFiles <- FirstWithoutUri
    Answers <- SixteenAnswers
    Schemas <- AllSchemas
    NumberText <- NumberTexts
    NumberOf <- Numbers
    LengthOf <- Lengths
    RecordablePaths <- ThreePaths
    Weight <- ThreeWeights
    FieldState <- ThreeStates
INVARIANTS
    PhotosAreAttachedAsListed
CHECK_DEADLOCK FALSE
