SPECIFICATION FairSpec
CONSTANTS
    c1 = c1
    b1 = b1
    b2 = b2
    Clients <- OneClient
    Broadcasters <- TwoBroadcasters
    BufSize = 2
    MaxMsgs = 2
CHECK_DEADLOCK FALSE
INVARIANTS NoSendOnClosed ClosedOnlyAfterPump
PROPERTIES ImplementsLossyFeed BroadcastsFinish DepartedAreUnregistered BufferedIsDelivered
