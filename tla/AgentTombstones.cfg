SPECIFICATION Spec
CONSTANTS
    Goroutines = {g1, g2}
    DefaultConcurrency = 1
    MaxConcurrency = 2
    ConfiguredLimit = 2
    Tasks = {t1, t2, t3}
    NoID = noid
    TombstoneTTL = 2
    MaxTombstones = 2
    UpgradeTasks = {}
    UpgradeMode = "disabled"
    DeliveredIds = {t1, t2, t3, noid}
    LimitRequests = {0}
SYMMETRY Symmetry
VIEW WithoutReports
INVARIANTS
    RegistryMatchesTasks
PROPERTIES
    NoStartWhileRemembered
