SPECIFICATION Spec
CONSTANTS
    MaxAge = 0
    Tolerance = 0
    Runs <- LoopRuns
    RunSource <- LoopSource
    Evals = {req}
    Reconcilers = {}
    Laws = {l1}
    InitialMeta <- WarmStart
    InitialCatalogs <- FullCatalog
    MaxTime = 2
    MayJumpBack = TRUE
    MaxInterrupts = 0
INVARIANTS
    CurrentIsBacked
PROPERTIES
    StampsNeverMoveBackwards
