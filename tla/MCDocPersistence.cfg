SPECIFICATION Spec
CONSTANTS
    Own = {e1,e2}
    Remote = {r}
    Setups <- OneStore
    Flight = {f1, f2}
    MaxFaults = 1
    MaxForeign = 1
    MaxForeignSeq = 1
INVARIANTS
    NothingOverlooked
    SkippedIsKnown
    EditOnItsWay
PROPERTIES
    KeptUntilLogged
SYMMETRY Symmetry
