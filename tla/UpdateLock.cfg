\* Two updaters, one of which may be killed while it owns the lock.
SPECIFICATION SystemdSpec
CONSTANTS
    Releases <- MCReleases
    Sources <- MCSources
    Policies <- MCPolicies
    Updaters = {1, 2}
    Asked <- MCAsked
    Installed <- MCInstalled
    SoundSets <- MCSoundSets
    MaxRequests = 1
    MaxStarts = 2
    MaxUpdaterKills = 1
INVARIANT OneUpdaterAtATime
CHECK_DEADLOCK FALSE
