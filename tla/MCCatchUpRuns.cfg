SPECIFICATION Spec
CONSTANTS
    a = a
    b = b
    None = None
    Device = {a, b}
    Rank <- Ranks
    Entry <- HoleAndTail
    Locked <- NoEntries
    Foreign <- Crowded
    Run = {r1, r2}
    Limit = 1
    MaxSeq = 1
    MinEpochs = 2
    Epochs = 2
    MaxLate = 1
SYMMETRY Symmetry
INVARIANTS
    OneRunPerConnection
PROPERTIES
    AllClearIsComplete
    HolesAreConfirmed
    NoFinalSkip
