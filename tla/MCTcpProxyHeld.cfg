\* Guest to host with a channel of one payload: a full channel holds a segment.
CONSTANTS
    M = 32
    OurIsn = 30
    GuestIsn = 31
    ChannelCap = 1
    PendingCap = 2
    OutCap = 2
    Mss = 2
    MaxUnacked = 2
    MaxRetransmits = 2
    Windows <- MCWindow
    HostBytes = 0
    GuestBytes = 3
SPECIFICATION Spec
INVARIANTS UpstreamFaithful
CHECK_DEADLOCK FALSE
