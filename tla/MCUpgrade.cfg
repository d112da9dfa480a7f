SPECIFICATION Spec
CONSTANTS
    u1 = u1
    root = root
    ops = ops
    k1 = k1
    k2 = k2
    old = old
    fresh = fresh
    long = long
    l1 = l1
    l2 = l2
    Users = {u1}
    Secrets = {old, fresh, long}
    Long = {long}
    Logins <- MCLogins
    Admins = {root, ops}
    Changes <- MCChanges
    BootPasswords <- MCBoot
    UpdateFails = FALSE
    Null = Null
SYMMETRY Symmetry
INVARIANTS
    UpgradedByLogin
