SPECIFICATION Spec
CONSTANTS
    Requests = {r1, r2, r3}
    Slugs = {a, b}
    Public = Public
    None = None
SYMMETRY Symmetry
INVARIANTS
    CreatedIsProvisioned
