SPECIFICATION FairSpec
CONSTANTS
    r1 = r1
    r2 = r2
    None = None
    Did = {m, o}
    Owner = o
    Run = {r1}
    MaxGen = 3
    MaxMint = 5
    MaxFaults = 1
    MaxForeign = 1
    MaxReInvites = 1
PROPERTIES
    RemovalEnds
CHECK_DEADLOCK FALSE
