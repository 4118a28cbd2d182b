CONSTANTS
    d1 = d1
    Digests = {d1, d2, d3}
    Size <- MCSize
    Names = {n1}
    Clients = {c1, c2}
    MaxBlobSize = 2
    MaxCommittedBytes = 3
    MaxLeases = 1
    MaxRestarts = 1
    SyncCanFail = TRUE
    Nobody = Nobody
    AnyBlob = AnyBlob
SYMMETRY MCSymmetry
SPECIFICATION Spec
INVARIANTS
    TypeOK
    AccountingExact
    RootsBacked
PROPERTIES
    QuotaRespected
    RootsNeverCollected
