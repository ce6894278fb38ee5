SPECIFICATION ScenarioLiveSpec
CONSTANTS
    Scenarios = {"owner", "lecture", "alone", "runs"}
    Page = {p1, p2}
    Session = {s1}
    Title = {t1, t2}
    Device = {d1, d2}
    Loop = {l1, l2}
    Job = {j1}
    SessionOf <- OneSession
    NoPage = NoPage
    NoDevice = NoDevice
    NoSession = NoSession
    NoTitle = NoTitle
    Nothing = Nothing
    NoLoop = NoLoop
    MaxFaults = 1
PROPERTIES
    RefreshEnds
    UploadEnds
    OwnerGetsEveryPage
