SPECIFICATION Spec
CONSTANTS
    MaxAge = 1
    Tolerance = 0
    Slugs <- TwoSlugs
    Parents = {"p", "q"}
    Seeds <- NoSeeds
    Families <- NoFamilies
    Editorial <- NoNotes
    ParentStand <- StandFour
    Versions <- Moving
    InTOC = {"v2", "v3"}
    Gesetze = {}
    Amendments <- AmendFound
    Requests <- AllRequests
    Ingestors = {ing}
    Evals = {}
    MaxPerCycle = 1
    MaxDay = 1
    MaxIssue = 5
    MaxFailures = 1
    MaxRestarts = 1
INVARIANTS
    TypeOK
    NoMixedAttribution
