\* A beam of two cost units, no primary share, pruning before insertion.
CONSTANTS
    Coverage = {v1, v2}
    State = {s1, s2, s3}
    Cost = {1, 2, 3, 4}
    Infinity = 100
    NULL = NULL
    MaxCardinalityContainerSize = 2
    PrimaryCoverageShare = 0
    LogBeamWidth <- NarrowBeam
    DoPrunePreInsertion = TRUE
    MaxOffers = 6
SYMMETRY Symmetry
SPECIFICATION Spec
INVARIANTS TypeOK NoDanglingPointer CachedCosts BestSurvives NoEmptyCoverage CountedIsStored
