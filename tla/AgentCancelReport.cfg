SPECIFICATION Spec
CONSTANTS
    Goroutines = {g1}
    DefaultConcurrency = 1
    MaxConcurrency = 1
    ConfiguredLimit = 1
    Tasks = {t1}
    NoID = noid
    TombstoneTTL = 5
    MaxTombstones = 1
    UpgradeTasks = {}
    UpgradeMode = "disabled"
    DeliveredIds = {t1}
    LimitRequests = {0}
INVARIANTS
    CancelReportIsTrue
