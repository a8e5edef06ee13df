SPECIFICATION FairSpec
CONSTANTS
    Requests = {r1, r2, r3}
    Users = {u1}
    Tenants = {t1}
    NoTenant = NoTenant
    None = None
    RefreshTTL = 1
    MaxTime = 1
INVARIANTS
    TypeOK
    NoLateSpend
    RotationAtomic
    NoTokenAfterRemoval
    NoOrphanSession
    LogoutEndsTheSession
PROPERTIES
    ImplementsSessions
    RequestsAnswered
