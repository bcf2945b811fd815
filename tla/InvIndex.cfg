\* Every index of up to three documents, both searches.
SPECIFICATION FairSpec
CONSTANTS
    Words = {a, b}
    Weights = {1, 2}
    MaxDocs = 3
    MaxLen = 2
INVARIANT
    BinarySafe
    SearchComplete
PROPERTY
    QueryEnds
