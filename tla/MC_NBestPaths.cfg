\* Three words with 32 translations, in 256 lattices; up to four paths.
CONSTANTS
    Layers = 3
    State <- States
    Label <- Labels
    CostTables <- Tables
    MaxPathCount = 4
    ExpansionFactors = {0, 2}
SPECIFICATION Spec
INVARIANTS TypeOK CheapestFirst NothingTwice
