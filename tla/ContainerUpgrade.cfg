SPECIFICATION FairSpec
CONSTANTS
    Releases = {1, 2, 3}
INVARIANTS
    NeverStranded
    BackupIsProven
PROPERTIES
    ActivatedStays
    ExpectedCandidatesAreOnProbation
    ProbationEnds
