\* Three dials as in the code; a replay cap that five bytes exceed.
CONSTANTS
    MaxDials = 3
    ReplayCap = 3
    ChannelCap = 1
    GuestBytes = 5
    MaxData = 2
SPECIFICATION FairSpec
INVARIANTS TypeOK SocketSeesWholeStream EventOrder
PROPERTIES DroppedThreadEnds
CHECK_DEADLOCK FALSE
