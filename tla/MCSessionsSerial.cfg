SPECIFICATION Spec
CONSTANTS
    None = None
    d1 = d1
    d2 = d2
    d3 = d3
    alice = alice
    bob = bob
    r1 = r1
    Devices <- ThreeDevices
    Families = {f1, f2}
    Tokens = {t1, t2, t3}
    Requests = {r1, r2}
    MaxPerDevice = 1
    LossyNetwork = FALSE
    Enabled <- AllOps
    DBFaults = FALSE
    Users <- TwoUsers
    UserOf <- TwoAndOne
SYMMETRY Interchangeable
INVARIANTS
    RevokedForCause
    NoSpuriousSignOut
    CausedSessionsEnd

