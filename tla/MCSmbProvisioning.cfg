SPECIFICATION Spec
CONSTANTS
    u1 = u1
    r1 = r1
    r2 = r2
    r3 = r3
    Users = {u1}
    Requests <- MCRequests
    p1 = p1
    p2 = p2
    Secrets <- MCSecrets
    Null = Null
SYMMETRY Symmetry
INVARIANTS
    TypeOK
    ProvisionedIffEnabled
    AccountInStep
