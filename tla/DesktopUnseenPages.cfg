SPECIFICATION DesktopSpec
CONSTANTS
    Parts = {"review"}
    t1 = t1
    t2 = t2
    t3 = t3
    m1 = m1
    m2 = m2
    Last = 2
    Term = {t1, t2, t3}
    NoWork = NoWork
    Written <- MCWritten
    Bold <- MCBold
    General = {t3}
    Hostile = {1}
    PerPage = 2
    Samples = 2
    Modes = {"off", "model", "research"}
    Box <- MCBox
    Prepared = 1003
    Original = 3157
    MinArea = 200
    MaxArea = 8500
    MinWide = 5
    MinHigh = 3
    Pad = 6
    MinPixels = 32
    MinScaled = 16
    MaxDiagrams = 4
    Query = {t1, t2, t3}
    NoQuery = NoQuery
    TooLong = {t3}
    Settings <- MCSettings
    Limit = 2
    MaxAge = 1
    MaxEntries = 1
    MaxDay = 2
    Note = {n1}
    File = {f1}
    Job = {j1, j2}
    MaxCrashes = 1
    Window = {w1, w2}
    NoPhrase = NoPhrase
    MaxPhrases = 2
    OldPhrases = {1}
    MaxKills = 1
    Wizard = {w1}
    Model = {m1, m2}
    Tokens <- MCTokens
    Contexts = {2, 8}
    Headroom = 2
    l1 = l1
    l2 = l2
    Reader = {r1}
    Photo = {1, 2, 3}
    MaxApprovals = 1
    TakenIn <- MCTakenIn
    NoLecture = NoLecture
    MaxRecords = 2
    Earlier <- MCEarlier
    MaxUploads = 2
INVARIANT
    NothingUnseenIsWritten
CHECK_DEADLOCK FALSE
