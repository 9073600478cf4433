SPECIFICATION FairSpec
CONSTANTS
    MaxAge = 1
    Tolerance = 0
    Slugs <- AllSlugs
    Parents = {"p"}
    Seeds <- ChainSeeds
    Families <- OneFamily
    Editorial <- ChainNotes
    ParentStand <- StandFour
    Versions <- Fixed
    InTOC = {"v3", "v4", "v5", "v6"}
    Gesetze = {"v6"}
    Amendments <- AmendFound
    Requests <- Rechecks
    Ingestors = {ing}
    Evals = {rec}
    MaxPerCycle = 0
    MaxDay = 2
    MaxIssue = 5
    MaxFailures = 0
    MaxRestarts = 0
INVARIANTS
    ProofHasChild
    OneCurrentPerSection
    ProofIsInBundle
PROPERTIES
    AmendedChildEndsCurrent
