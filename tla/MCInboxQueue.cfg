SPECIFICATION FairSpec
CONSTANTS
    a = a b = b a1 = a1 b1 = b1 b2 = b2 m1 = m1 m2 = m2 e1 = e1 e2 = e2
    None = None
    Did = {b}
    Device = {b1, b2}
    Msg = {m1}
    Env = {e1, e2}
    DidOf <- TwoDidOf
    Ttl = 1
    Inactive = 2
    MaxTime = 3
    MaxFaults = 2
INVARIANTS
    ActiveDevicesTracked
    PendingIsOffered
PROPERTIES
    NoSilentLoss
    PendingIsResolved
    CompletedIsRemoved
CHECK_DEADLOCK FALSE
