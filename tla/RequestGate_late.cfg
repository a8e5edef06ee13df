SPECIFICATION Spec
CONSTANTS
    Requests = {r1}
    Tenants = {t1, t2}
    Users = {u1, u2}
    Invitations = {i1}
    None = None
    Malformed = Malformed
SYMMETRY Symmetry
CHECK_DEADLOCK FALSE
INVARIANTS
    TypeOK
    LateStaysOut
    ContextHasStood
