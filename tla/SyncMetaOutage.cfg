SPECIFICATION FairSpec
CONSTANTS
    MaxAge = 1
    Tolerance = 0
    Runs <- BGBlRuns
    RunSource <- BGBlSource
    Evals = {rec}
    Reconcilers = {rec}
    Laws = {l1, l2}
    InitialMeta <- WarmStart
    InitialCatalogs <- GrowingCatalog
    MaxTime = 3
    MayJumpBack = FALSE
    MaxInterrupts = 1
INVARIANTS
    TypeOK
    FailedFeedBlocksCurrent
    ReconcileCoversAll
PROPERTIES
    OutageEndsClaims
