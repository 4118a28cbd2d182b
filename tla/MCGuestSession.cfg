CONSTANTS
    Requesters = {r1, r2}
    CommandCap = 1
    MaxQuanta = 2
    Loads <- MCLoads
    MaxAdvances = 3
    MaxFrames = 4
    HostCap = 3
    UartCap = 2
    MaxConcurrent = 2
SPECIFICATION GuestSpec
INVARIANTS
    GuestTypeOK
    FiredTokenEndsRuns
    WaitingIsServed
    OutcomeFaithful
    StdinStaysWithItsCall
PROPERTIES
    VmSpec
    ShutdownIsAccepted
    CallsReturn
    WorkerEnds
CHECK_DEADLOCK FALSE
