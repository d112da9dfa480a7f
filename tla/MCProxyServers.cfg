SPECIFICATION Spec
CONSTANTS
    c1 = c1
    c2 = c2
    SocksConns = {c1}
    HTTPConns = {c2}
    MaxBytes = 1
INVARIANTS
    TypeOK
    ChargedInFull
PROPERTIES
    TunnelsEnd
    ShutdownCompletes
