SPECIFICATION Spec
CONSTANTS
    MaxAge = 1
    Tolerance = 0
    Slugs <- OneSlug
    Parents = {}
    Members <- BundleOfP
    Cites <- NoNotes
    Versions <- ChangingOrdinance
    KnownStands <- SomeStands
    Amendments <- AmendV1
    RefuseStale = TRUE
    MaxMembers = 2
    CacheMax = 2
    Exporters = {exp}
    Recheckers = {rec}
INVARIANTS
    LabelMatchesText
