SPECIFICATION FairSpec
CONSTANTS
    c1 = c1
    c2 = c2
    NoClient = NoClient
    Clients <- TwoClients
    WordMax = 4
    MaxLeases = 4
    MaxLoads = 2
INVARIANTS
    LeaseIsWatched
PROPERTIES
    KeepsPromise
    DeadHolderLosesLease
