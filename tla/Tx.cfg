SPECIFICATION FairSpec
CONSTANTS
    MinReward = 2
    MaxAccrued = 4
    MaxHeartbeats = 2
    MaxTxs = 4
    CanSign = TRUE
    KeyAtStart = {TRUE, FALSE}
    Decimal = TRUE
CHECK_DEADLOCK FALSE
INVARIANT RecordedWasClaimed
PROPERTY HeartbeatsGoOn
