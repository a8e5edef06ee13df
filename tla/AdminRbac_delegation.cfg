SPECIFICATION Spec
CONSTANTS
    boss = boss
    clerk = clerk
    Slots = {s1, s2}
    Users = {boss, clerk}
    Roles = {"super_admin", "user"}
    Permissions = {"roles.manage", "users.write", "users.delete", "users.read"}
    Root = {boss}
    Pairs <- PairsOfRun
    None = None
SYMMETRY Symmetry
INVARIANTS
    TypeOK
    NothingOfTheDeleted
PROPERTIES
    ImplementsDelegation
    ImplementsDirectory
    LockoutIsFinal
