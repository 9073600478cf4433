SPECIFICATION Spec
CONSTANTS
    MaxAge = 1
    Tolerance = 0
    Slugs <- TwoSlugs
    Parents = {"p"}
    Members <- BundleOfP
    Cites <- ChangingNotes
    Versions <- ChangingTexts
    KnownStands <- SomeStands
    Amendments <- AmendV1
    RefuseStale = TRUE
    MaxMembers = 2
    CacheMax = 1
    Exporters = {exp}
    Recheckers = {rec}
INVARIANTS
    TypeOK
    CacheNotOlder
    CacheBounded
    StaleIsNotSafe
    StaleIsRefused
    
