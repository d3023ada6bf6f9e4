SPECIFICATION LiveSpec
CONSTANTS
    att = att
    upd = upd
    bad = bad
    inv = inv
    rot1 = rot1
    rot2 = rot2
    far = far
    fake = fake
    Delivery = {att, bad}
    Update = {upd}
    Invite = {inv}
    Rotation = {rot1, rot2, far, fake}
    Gen <- Generation
    Invalid = {bad, fake}
    Loads <- SmallLoads
    Task = {t1, t2}
    Elsewhere = {inv, rot2}
    Pass = pass
    None = None
    MaxFaults = 1
INVARIANTS
    
    CanWrite
CHECK_DEADLOCK FALSE
PROPERTIES
    Settles
