SPECIFICATION Spec
CONSTANTS
    Goroutines = {g1}
    DefaultConcurrency = 1
    MaxConcurrency = 1
    ConfiguredLimit = 1
    Tasks = {t1}
    NoID = noid
    TombstoneTTL = 1
    MaxTombstones = 1
    UpgradeTasks = {t1}
    UpgradeMode = "request_file"
    DeliveredIds = {t1}
    LimitRequests = {0}
INVARIANTS
    RestartOnlyAfterReport
