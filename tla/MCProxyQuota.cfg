SPECIFICATION Spec
CONSTANTS
    Users = {u1}
    IPs = {a}
    p1 = p1
    p2 = p2
    Secrets = {p1, p2}
    Null = Null
    Window = 2
    Conns = {c1, c2}
    BootstrapUser = u1
    BootstrapPass = p1
    MaxWait = 1
    MaxTime = 3
    MaxBytes = 1
    MaxQuota = 2
    MaxUsed = 4
    ExpiryInputs = {0, 1}
    QuotaInputs = {0, 1}
    TopUpInputs = {1}
    UsageInputs = {1}
    DeviceInputs = {0}
    StatusInputs = {0, 1}
    LegacyRows <- QuotaLegacy
SYMMETRY SymmetryConns

INVARIANT QuotaOvershootBounded
PROPERTY GrantsAreEntitled
PROPERTY ImplementsLedger
