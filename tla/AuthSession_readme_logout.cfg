SPECIFICATION Spec
CONSTANTS
    Requests = {r1, r2, r3, r4}
    Users = {u1}
    Tenants = {}
    NoTenant = NoTenant
    None = None
    RefreshTTL = 1
    MaxTime = 1
SYMMETRY Symmetry
INVARIANTS
    LogoutInvalidatesToken
