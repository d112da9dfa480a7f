SPECIFICATION Spec
CONSTANTS
    Users = {u1}
    IPs = {a, b}
    p1 = p1
    p2 = p2
    Secrets = {p1}
    Null = Null
    Window = 2
    Conns = {c1, c2}
    BootstrapUser = u1
    BootstrapPass = p1
    MaxWait = 1
    MaxTime = 5
    MaxBytes = 0
    MaxQuota = 0
    MaxUsed = 0
    ExpiryInputs = {0}
    QuotaInputs = {0}
    TopUpInputs <- NoInputs
    UsageInputs <- NoInputs
    DeviceInputs = {1, 2}
    StatusInputs <- NoInputs
    LegacyRows <- DeviceLegacy
SYMMETRY SymmetryBoth
INVARIANT TypeOK
INVARIANT GrantedDeviceIsCounted
PROPERTY DevicesWithinLimit
PROPERTY ImplementsLedger
