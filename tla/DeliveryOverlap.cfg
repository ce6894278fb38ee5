SPECIFICATION ScenarioSpec
CONSTANTS
    Scenarios = {"overlap", "batch", "rivals"}
    Page = {p1, p2}
    Session = {s1}
    Title = {t1, t2}
    Device = {d1, d2}
    Loop = {l1, l2}
    Job = {j1, j2}
    SessionOf <- OneSession
    NoPage = NoPage
    NoDevice = NoDevice
    NoSession = NoSession
    NoTitle = NoTitle
    Nothing = Nothing
    NoLoop = NoLoop
    MaxFaults = 2
SYMMETRY Symmetry
CHECK_DEADLOCK FALSE
INVARIANTS
    TypeOK
    NoPageLost
    DraftsAreAccountedFor
    OneNotePerPath
PROPERTIES
    ImplementsCourier
    ReleasedOnlyWhenCommitted
