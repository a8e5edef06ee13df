SPECIFICATION FairSpec
CONSTANTS
    Requests = {r1, r2, r3}
    Slugs = {a, b}
    Public = Public
    None = None
INVARIANTS
    TypeOK
    SchemaIffTenant
    MigrationFindsSchema
    SlugIsUnique
    ServedWhenMigrated
PROPERTIES
    Answered
