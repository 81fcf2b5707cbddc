\* Four words, two hypotheses a cardinality, a beam of two cost units; and fewer tables unpruned.
CONSTANTS
    N = 4
    CandidateTables <- Tables
    RuleState = {"a", "b"}
    RootState = "root"
    ContextCost <- Context
    HardReorderingJumpLimit = 2
    MaximumJumpWidth = 1
    DoComputePositionSpecificRestCosts = TRUE
    PositionBits = 8
    Infinity = 1000
    NULL = NULL
    DoPrunePreInsertion = TRUE
    MaxCardinalityContainerSize = 2
    PrimaryCoverageShare = 0
    LogBeamWidth <- NarrowBeam
SPECIFICATION MCSpec
INVARIANTS TypeOK CoverageIsPartition PrevNodeStays NoDeadEnd EmptyOnlyByTraining UnprunedGoalIsOptimal RestCostNeverExceeds
