SPECIFICATION FairSpec
CONSTANTS
    f1 = f1
    f2 = f2
    f3 = f3
    r1 = r1
    r2 = r2
    s1 = s1
    None = None
    Files <- ThreeFiles
    RunOf <- TwoRuns
    Stuck <- OneStuck
    Sweeps <- OneSweep
    FileCountPerBatch = 2
    MaximumBatchCount = 2
    UnstatedExpiryDayCount = 1
    RunDayCount = 1
    ClockLimit = 2
    Expiries <- DayOneOrNone
    Faults <- AnyFault
INVARIANTS
    StampedCopyIsGone
    OutageCostsOneBatch
PROPERTIES
    CopyStaysForItsRun
    RipeCopyIsTakenBack
