SPECIFICATION Spec
CONSTANTS
    Slots = {s1, s2}
    Users = {u1, u2}
    Tenants = {t1}
    Invitations = {i1}
    Roles = {"tenant_admin", "user"}
    AdminRoles = {"tenant_admin"}
    None = None
SYMMETRY Symmetry
INVARIANTS
    TypeOK
    TenantHasOwner
    NoStaleEffect
PROPERTIES
    DeactivationIsFinal
    AbandonmentIsFinal
    ImplementsDirectory
