\* Three versions of each kind of material, two faults; two updaters of each
\* kind, one request for the systemd ones, two for the docker ones, one crash.
SPECIFICATION Spec
SYMMETRY Alike
CONSTANTS
    Versions = {1, 2, 3}
    PublishedAt <- MCPublishedAt
    MaxFaults = 2
    Anchors = {1, 2, 3}
    Good = {1, 2}
    MaxAnchorFaults = 2
    TTL = 3
    CollectTimeout = 2
    MaxTime = 8
    MaxGeneration = 3
    MaxIDs = 4
    MaxTokens = 3
    MaxKills = 3
    Releases <- MCReleases
    Sources <- MCSources
    Policies <- MCPolicies
    Updaters = {u1, u2}
    Asked <- MCAsked
    Installed <- MCInstalled
    SoundSets <- MCSoundSets
    MaxRequests = 1
    MaxStarts = 2
    MaxUpdaterKills = 1
    Images = {1, 2}
    Scripts = {s1, s2}
    Repositories <- MCRepositories
    Containers <- MCContainers
    WorkingSets <- MCWorkingSets
    RuntimeChoices <- MCRuntimeChoices
    Wanted <- MCWanted
    AllowDowngrade = FALSE
    MaxMails = 2
    MaxScripts = 2
    MaxDeaths = 1
INVARIANTS
    StateNamesIntactHints
    IntactHintsAreServed
    LiveAnchorIsSelected
    AnchorSurvivesOneFault
    StaleReadinessExpires
    RunningIdentityIsStored
    OutcomeIsTrue
    FailedUpdateIsUndone
    DowngradeNeedsConsent
    RequestsAreAnswered
    RollbackRestores
PROPERTIES
    HintsNeverGoBack
    AgentKeepsItsID
CHECK_DEADLOCK FALSE
