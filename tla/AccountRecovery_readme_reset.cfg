SPECIFICATION Spec
CONSTANTS
    Requests = {r1, r2, r3, r4}
    Emails = {e1}
    None = None
    Gone = Gone
    VerifyTTL = 1
    ResetTTL = 1
    MaxTime = 0
SYMMETRY Symmetry
INVARIANTS
    ResetTokensAreOneTime
