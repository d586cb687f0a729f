SPECIFICATION Spec
CONSTANTS
    b1 = b1
    b2 = b2
    i1 = i1
    i2 = i2
    u1 = u1
    Batch <- MCBatch
    Url = {u1}
    Slot <- MCSlot
    NoPage = NoPage
    Concurrency = 1
    MaxFaults = 1
SYMMETRY ScraperSymmetry
INVARIANTS PermitsConserved OrphansOnlyAfterRaise ReturnMeansAllPages
PROPERTIES SettledForGood OnlyARaceShadows
