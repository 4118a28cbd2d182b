\* Both directions, closing included: frames shed, windows that close, numbers that wrap;
\* as many channel slots as payloads, so that nothing is held.
CONSTANTS
    M = 32
    OurIsn = 30
    GuestIsn = 31
    ChannelCap = 2
    PendingCap = 1
    OutCap = 2
    Mss = 2
    MaxUnacked = 2
    MaxRetransmits = 1
    Windows <- MCWindows
    HostBytes = 3
    GuestBytes = 2
SPECIFICATION FairSpec
INVARIANTS TypeOK DownstreamFaithful InFlightIsTimed UpstreamFaithful
PROPERTIES ClosesAfterHostEof
CHECK_DEADLOCK FALSE
