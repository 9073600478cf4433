SPECIFICATION FairSpec
CONSTANTS
    MaxAge = 9
    Tolerance = 0
    Items <- GIIItems
    JobFeed <- GIIJob
    Jobs <- GIIJobNames
    Evals = {rec, request}
    Reconcilers = {rec}
    Laws <- OneLaw
    NoLaw = "none"
    TitleLaw <- ResolveL1
    FirstStand <- StandOne
    StandDate <- Undated
    Grace = 0
    MaxTime = 1
    MaxRefreshes = 0
    MaxFailures = 1
    MaxRestarts = 0
INVARIANTS
    StampMeansLinked
    MatchedHasLink
    ReconcileMissesNothing
    StaleIsBacked
PROPERTIES
    AmendmentEndsCurrent
    EvaluatesAtomically
