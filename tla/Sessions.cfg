CONSTANTS
    c1 = c1
    c2 = c2
    Calls = {c1, c2}
    AccessLife = 2
    RefreshLife = 2
    MaxTime = 2
SPECIFICATION Spec
SYMMETRY Interchangeable
VIEW Matters
INVARIANTS
    SignedOutForGood
    SpentStaysSpent
    EndedStaysEnded
PROPERTY ImplementsSessionRecord
