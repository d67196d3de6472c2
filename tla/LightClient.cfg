SPECIFICATION FairSpec
CONSTANTS
    MaxHeight = 2
    MaxRuns = 2
    Limit = 1
    r1 = r1
    Readers <- OneReader
    FaultyNode = TRUE
    ReadFaults = FALSE
CHECK_DEADLOCK FALSE
INVARIANTS ReportedHeightsAreDurable HighestSyncedThisRun NetworkCoversStatus
PROPERTIES HeightsOnlyRise CatchesUp StopsWhenCancelled SyncingIsReset
