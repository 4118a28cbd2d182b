CONSTANTS
    Digests = {g1, r1, r2, r3}
    Size <- MCSize
    Names = {graphPin, recordPin}
    Clients = {persister, collector}
    MaxBlobSize = 1
    MaxCommittedBytes = 5
    MaxLeases = 3
    MaxRestarts = 0
    SyncCanFail = TRUE
    Nobody = Nobody
    AnyBlob = AnyBlob
    Persister = persister
    Collector = collector
    Graph = {g1}
    Records = {r1, r2, r3}
    GraphPin = graphPin
    RecordPin = recordPin
    NoRecord = NoRecord
SYMMETRY MCSymmetry
SPECIFICATION ImageSpec
INVARIANTS
    LocatorIsCommitPoint
