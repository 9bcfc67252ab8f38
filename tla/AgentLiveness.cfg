SPECIFICATION FairSpec
CONSTANTS
    Goroutines = {g1, g2}
    DefaultConcurrency = 1
    MaxConcurrency = 1
    ConfiguredLimit = 1
    Tasks = {t1}
    NoID = noid
    TombstoneTTL = 1
    MaxTombstones = 1
    UpgradeTasks = {t1}
    UpgradeMode = "container"
    DeliveredIds = {t1}
    LimitRequests = {0}
INVARIANTS
    RestartOnlyAfterReport
PROPERTIES
    ShutdownCompletes
    DeliveriesSettle
