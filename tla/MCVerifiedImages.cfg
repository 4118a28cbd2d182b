CONSTANTS
    Digests = {g1, g2, r1, r2, r3}
    Size <- MCSize
    Names = {graphPin, recordPin}
    Clients = {persister, collector}
    MaxBlobSize = 1
    MaxCommittedBytes = 5
    MaxLeases = 2
    MaxRestarts = 1
    SyncCanFail = TRUE
    Nobody = Nobody
    AnyBlob = AnyBlob
    Persister = persister
    Collector = collector
    Graph = {g1, g2}
    Records = {r1, r2, r3}
    GraphPin = graphPin
    RecordPin = recordPin
    NoRecord = NoRecord
SYMMETRY MCSymmetry
SPECIFICATION ImageSpec
PROPERTIES
    RefinesContentStore
INVARIANTS
    SelectedRecordReopens
    AtMostTwoRecords
    RollbackIsComplete
