SPECIFICATION Spec
CONSTANTS
    MaxAge = 9
    Tolerance = 0
    Items <- GIIItems
    JobFeed <- GIIJob
    Jobs <- GIIJobNames
    Evals = {request}
    Reconcilers = {}
    Laws <- OneLaw
    NoLaw = "none"
    TitleLaw <- ResolveNone
    FirstStand <- StandOne
    StandDate <- Undated
    Grace = 0
    MaxTime = 1
    MaxRefreshes = 0
    MaxFailures = 0
    MaxRestarts = 0
INVARIANTS
    RequestMissesNothing
