\* A SearchBeamWidth above 1, as the default and Samples/Server.conf have it, and the test
\* before insertion, as by default.
CONSTANTS
    N = 4
    CandidateTables <- Tables
    RuleState = {"a", "b"}
    RootState = "root"
    ContextCost <- Context
    HardReorderingJumpLimit = 3
    MaximumJumpWidth = 1
    DoComputePositionSpecificRestCosts = TRUE
    PositionBits = 8
    Infinity = 1000
    NULL = NULL
    DoPrunePreInsertion = TRUE
    MaxCardinalityContainerSize = 2
    PrimaryCoverageShare = 0
    LogBeamWidth <- WideBeam
SPECIFICATION MCSpec
INVARIANTS EmptyOnlyByTraining
