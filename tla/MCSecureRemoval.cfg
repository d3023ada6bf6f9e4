SPECIFICATION Spec
CONSTANTS
    r1 = r1
    r2 = r2
    None = None
    Did = {m, o}
    Owner = o
    Run = {r1, r2}
    MaxGen = 2
    MaxMint = 5
    MaxFaults = 1
    MaxForeign = 1
    MaxReInvites = 0
SYMMETRY Symmetry
INVARIANTS
    RecordedIsEnforced
    ConfirmedIsInstalled
    LeftIsHandedBack
PROPERTIES
    NoRemovalForgotten
CHECK_DEADLOCK FALSE
