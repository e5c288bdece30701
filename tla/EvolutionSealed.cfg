SPECIFICATION EvolutionSpec
CONSTANTS
    Definitions <- MCDefinitions
    Policies <- MCPolicies
    Position <- MCPosition
    Values <- MCValues
    Trimmed <- MCTrimmed
    Owners <- MCOwners
    Envelope = 3
    MaxRows = 2
    MaxMigrations = 3
INVARIANTS
    EncryptedStaysSealed
CHECK_DEADLOCK FALSE
