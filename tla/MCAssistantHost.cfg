SPECIFICATION FairSpec
CONSTANTS
    p1 = p1
    p2 = p2
    p3 = p3
    c1 = c1
    c2 = c2
    None = None
    Host = Host
    Post <- MCPost
    Command <- MCCommand
    MaxBrains = 6
    MaxFaults = 1
    MaxBoots = 2
INVARIANTS OnePostListens StatusIsLive
PROPERTY PostsEnd
CHECK_DEADLOCK FALSE
