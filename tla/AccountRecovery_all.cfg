SPECIFICATION Spec
CONSTANTS
    Requests = {r1, r2, r3, r4}
    Emails = {e1}
    None = None
    Gone = Gone
    VerifyTTL = 2
    ResetTTL = 2
    MaxTime = 2
SYMMETRY Symmetry
INVARIANTS
    TypeOK
    VerifiableInTime
    DeadTokenIsRefused
PROPERTIES
    StrandedIsFinal
    ImplementsAccounts
