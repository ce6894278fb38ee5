SPECIFICATION ScenarioSpec
CONSTANTS
    Scenarios = {"all"}
    Page = {p1}
    Session = {s1}
    Title = {t1}
    Device = {d1}
    Loop = {l1}
    Job = {j1}
    SessionOf <- OneSession
    NoPage = NoPage
    NoDevice = NoDevice
    NoSession = NoSession
    NoTitle = NoTitle
    Nothing = Nothing
    NoLoop = NoLoop
    MaxFaults = 1
SYMMETRY Symmetry
CHECK_DEADLOCK FALSE
PROPERTIES
    NoDraftOfDiscardedPages
