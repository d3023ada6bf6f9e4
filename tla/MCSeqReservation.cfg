SPECIFICATION Spec
CONSTANTS
    d1 = d1 d2 = d2 d3 = d3 t1 = t1 t2 = t2 w1 = w1 w2 = w2 u1 = u1 u2 = u2 u3 = u3
    None = None
    Device = {d1, d2, d3}
    Tab = {t1, t2}
    Writer = {w1, w2}
    TabOf <- MCTabOf
    Update = {u1, u2, u3}
    WebLocks = FALSE
    MaxRetries = 2
    MaxOpens = 3
    MaxRebinds = 2
SYMMETRY Symmetry
INVARIANTS
    NonceUnique
    OwnLogContiguous
CHECK_DEADLOCK FALSE
