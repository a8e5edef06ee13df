SPECIFICATION FairSpec
CONSTANTS
    Slots = {s1, s2}
    Users = {u1, u2}
    Tenants = {t1}
    Invitations = {i1}
    Roles = {"tenant_admin"}
    AdminRoles = {"tenant_admin"}
    None = None
PROPERTIES
    RequestsAnswered
