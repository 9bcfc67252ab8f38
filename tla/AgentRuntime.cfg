SPECIFICATION Spec
CONSTANTS
    Goroutines = {g1, g2, g3}
    DefaultConcurrency = 1
    MaxConcurrency = 2
    ConfiguredLimit = 1
    Tasks = {t1}
    NoID = noid
    TombstoneTTL = 1
    MaxTombstones = 1
    UpgradeTasks = {t1}
    UpgradeMode = "request_file"
    DeliveredIds = {t1, noid}
    LimitRequests = {1, 3}
SYMMETRY GoroutineSymmetry
INVARIANTS
    TypeOK
    SlotsAccounted
    NoLostWakeup
PROPERTIES
    NoAddAfterWait
    RefinesSemaphore
