SPECIFICATION Spec
CONSTANTS
    Page = {p1, p2}
    Small = p1
    PageBytes <- SmallAndLarge
    Session = {s1, s2}
    Run = {r1}
    Slot = {c1, c2}
    NoPage = NoPage
    NoSession = NoSession
    NoRun = NoRun
    NoPhoto = NoPhoto
    NoChange = NoChange
    MaxBytes = 1
    Cutoffs = {}
    MaxFaults = 0
PROPERTIES
    CapturesStayListed
CHECK_DEADLOCK FALSE
