SPECIFICATION EvolutionSpec
CONSTANTS
    Definitions <- MCDefinitions
    Policies <- MCPolicies
    Position <- MCPosition
    Values <- MCValues
    Trimmed <- MCTrimmed
    Owners <- MCOwners
    Envelope = 3
    MaxRows = 3
    MaxMigrations = 3
INVARIANTS
    DatabaseFollows
    SafeNeverFails
PROPERTY RowsKept
CHECK_DEADLOCK FALSE
