CONSTANTS
    t1 = t1
    t2 = t2
    a = a
    b = b
    c = c
    d = d
    f1 = f1
    f2 = f2
    f3 = f3
    s1 = s1
    s2 = s2
    plain = plain
    mixed = mixed
    tied = tied
    NoName = NoName
    Unlimited = 99
    NoPage = NoPage
    Threads = {t1, t2}
    Scopes = {s1, s2}
    Queries = {plain, mixed, tied}
    Names <- MCNames
    Files <- MCFiles
    FileOf <- MCFileOf
    Large <- MCLarge
    HitIds <- MCHitIds
    Quality <- MCQuality
    LineOf <- MCLineOf
    Heading <- MCHeading
    InScope <- MCInScope
    Ignored = {d}
    Holds <- MCHolds
    Relevance <- MCRelevance
    Boost = 2
    PathRank <- MCPathRank
    Preference <- MCPreference
    Cap = 2
    DefQuit = 1
    UseQuit = 1
    BatchQuit = 1
    Requests <- MCRequests
    FirstLimit = 2
INIT SearchInit
NEXT Next
SYMMETRY MCSymmetry
INVARIANTS
    SearchTypeOK
    EstimateIsTrue
    LowerBoundInOneScope
    PageIsSlice
    NothingSkipped
CHECK_DEADLOCK FALSE
