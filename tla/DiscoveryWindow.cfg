SPECIFICATION Spec
CONSTANTS
    MaxAge = 1
    Tolerance = 0
    Slugs <- OneSlug
    Parents = {"p"}
    Seeds <- NoSeeds
    Families <- NoFamilies
    Editorial <- NoNotes
    ParentStand <- StandFour
    Versions <- Fixed
    InTOC = {"v3"}
    Gesetze = {}
    Amendments <- AmendFound
    Requests <- Rechecks
    Ingestors = {ing}
    Evals = {rec}
    MaxPerCycle = 0
    MaxDay = 1
    MaxIssue = 5
    MaxFailures = 0
    MaxRestarts = 0
INVARIANTS
    LinkedParentNeedsProof
