SPECIFICATION FairSpec
CONSTANTS
    s1 = s1
    s2 = s2
    f1 = f1
    f2 = f2
    v1 = v1
    v2 = v2
    Null = Null
    Sockets <- TwoSockets
    Fetches <- TwoFetches
    Values <- TwoValues
    MaxHeaders = 2
    MaxPoints = 3
    MaxSent = 4
    MaxInbox = 1
INVARIANTS OneLifeline HeadersInOrder ChartFollowsHeaders
PROPERTIES Reconnects StatusCatchesUp
