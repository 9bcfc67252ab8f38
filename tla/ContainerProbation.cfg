SPECIFICATION Spec
CONSTANTS
    Releases = {1, 2}
PROPERTIES
    CandidatesAreOnProbation
