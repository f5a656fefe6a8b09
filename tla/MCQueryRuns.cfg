SPECIFICATION Spec
CONSTANTS
    u1 = u1
    r1 = r1
    r2 = r2
    r3 = r3
    User <- MCUser
    Request <- MCRequest
    NoUser = NoUser
    Fail = Fail
    AnyText <- MCAnyText
    Batches <- MCBatches
    Texts <- MCTexts
    Limits <- MCLimits
    Cap = 1
    Earlier = 1
    MaxFaults = 1
SYMMETRY Symmetry
INVARIANTS
    TypeOK
    RawResultsRight
    ResultsMatchStatements
    ErrorsAreOwn
    CountersExact
    LogTellsResults
    CapExceededOnlyByOverlap
PROPERTIES
    FavouriteLossNeedsRace
CHECK_DEADLOCK FALSE
