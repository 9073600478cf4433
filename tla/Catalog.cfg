SPECIFICATION Spec
CONSTANTS
    Name <- Names
    Key <- KeyTable
    Folded <- NoFolds
    Book <- Books
    BookKeys <- KeysOfBook
    Guess <- Guesses
    Likeness <- Alike
    TitleLike <- AlikeTitles
    Documents <- Tocs
    VariantFile <- Variants
    FeedItems <- FeedNews
    Children <- LinkedSlugs
    Queries <- Questions
    Threshold = 75
    Requests = {r1, r2}
    MaxFaults = 1
INVARIANTS
    TypeOK
    IndexIsStored
    IndexKeepsCatalog
    NameBeatsLikeness
PROPERTIES
    FeedNamesTheLaw
    RecordsKept
    PublishedIsFound
