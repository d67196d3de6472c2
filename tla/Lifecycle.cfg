SPECIFICATION FairSpec
CONSTANTS
    d1 = d1
    c1 = c1
    g1 = g1
    g2 = g2
    g3 = g3
    headers = headers
    rewards = rewards
    Daemons <- OneDaemon
    Dashboards <- OneDaemon
    Commands <- OneCommand
    Collectors <- TwoCollectors
    Loops <- OneLoop
    Tables <- TwoTables
INVARIANTS TypeOK SchemaIsWhole OpenedHasTables CollectorsEndBeforeClose
PROPERTIES SignalsEnd ComesUp FailedDashboardIsReported
