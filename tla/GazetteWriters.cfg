SPECIFICATION Spec
CONSTANTS
    MaxAge = 9
    Tolerance = 0
    Items <- WriterItems
    JobFeed <- AllJobs
    Jobs <- AllJobsNames
    Evals = {}
    Reconcilers = {}
    Laws <- OneLaw
    NoLaw = "none"
    TitleLaw <- ResolveNone
    FirstStand <- StandOne
    StandDate <- Undated
    Grace = 0
    MaxTime = 2
    MaxRefreshes = 1
    MaxFailures = 0
    MaxRestarts = 1
INVARIANTS
    TypeOK
    HighIffFeed
