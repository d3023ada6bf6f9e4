SPECIFICATION FairSpec
CONSTANTS
    a = a
    b = b
    None = None
    Device = {a, b}
    Rank <- Ranks
    Entry <- HoleAndTail
    Locked <- Crowded
    Foreign <- NoEntries
    Run = {r1}
    Limit = 1
    MaxSeq = 1
    MinEpochs = 2
    Epochs = 2
    MaxLate = 0
PROPERTIES
    Converges
