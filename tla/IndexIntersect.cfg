\* Is what CDlgIndex finds the intersection of the lists?
SPECIFICATION Spec
CONSTANTS
    Words = {a, b}
    Weights = {1}
    MaxDocs = 2
    MaxLen = 2
INVARIANT
    AllWordsHeld
