SPECIFICATION FairSpec
CONSTANTS
    MaxSeq = 3
    MaxTransient = 2
    MaxFaults = 1
    MaxBuffered = 2
    SocketBuffer = 1
    DedupWindow = 3
INVARIANTS
    NoGapNoRepeat
PROPERTIES
    PageCatchesUp
    ImplementsOrderedFeed
CHECK_DEADLOCK FALSE
