SPECIFICATION Spec
CONSTANTS
    Account = {a1, a2}
    Device = {d1, d2, d3}
    Key = {k1, k2, k3}
    ContentKey = {c1}
    Token = {t1, t2}
    Blob = {b1, b2}
    NoDevice = NoDevice
    NoPairing = NoPairing
    NoRow = NoRow
    NoFile = NoFile
    NoKey = NoKey
    MaxBlobBytes = 2
    MaxBytesPerDevice = 3
    Retention = 1
    Ttl = {1}
    MaxClock = 2
SYMMETRY Symmetry
CHECK_DEADLOCK FALSE
INVARIANTS
    TypeOK
    RowHasItsFile
    RowHasItsDevice
    PhoneHasItsDesktop
    TokenBuysOneDevice
    RegistryInv
    QuotaHolds
PROPERTIES
    PagesLeaveLawfully
    ImplementsMailBox
