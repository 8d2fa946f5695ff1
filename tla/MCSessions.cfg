SPECIFICATION FairSpec
CONSTANTS
    None = None
    d1 = d1
    d2 = d2
    d3 = d3
    alice = alice
    bob = bob
    r1 = r1
    Devices <- OneDevice
    Families = {f1}
    Tokens = {t1, t2, t3}
    Requests = {r1, r2}
    MaxPerDevice = 2
    LossyNetwork = TRUE
    Enabled <- Faulty
    DBFaults = TRUE
    Users <- OneUser
    UserOf <- OnlyAlice
INVARIANTS
    OneLiveToken
    CredentialsNameSession
PROPERTIES
    SpentOnce
    StoreImplemented
    RequestsFinish
