SPECIFICATION Spec
CONSTANTS
    Clients = {c1, c2}
    Burst = 2
    Cost = 3
    NoBucket = NoBucket
    MaxTime = 7
    MaxRequests = 4
    MaxRestarts = 1
INVARIANTS
    TypeOK
    WindowBound
    RestartsAreBursts
PROPERTIES
    RefusalHasCause
    ImplementsArrivalCurve
