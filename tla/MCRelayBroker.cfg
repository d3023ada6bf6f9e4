SPECIFICATION Spec
CONSTANTS
    a = a b = b x = x y = y s1 = s1 s2 = s2 k1 = k1 k2 = k2 h1 = h1 h2 = h2
    None = None
    Did = {a, b}
    Device = {x}
    Socket = {s1, s2}
    Key = {k1, k2}
    Content = {h1, h2}
    MaxGen = 1
    MaxSeq = 0
    Grants <- ReadWrite
    Kinds <- AllFrames
SYMMETRY Symmetry
INVARIANTS
    OneEntryPerCoordinate
    AuthorOwnsDevice
PROPERTIES
    NoStaleIngest
    RotationIsMaterialBound
    OwnerDecidesPromotion
    RevocationIsFinal
CHECK_DEADLOCK FALSE
