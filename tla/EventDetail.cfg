SPECIFICATION Spec
CONSTANTS
    Revisions <- MCRevisions
    MaxCommits = 2
INVARIANTS
    BestOfEachType
    QuietReadsAreWhole
    ShownSolutionMatches
    CatalogAndDetailAgree
