CONSTANTS
    Surfaces <- MCSurfaces
    GeneratorOf <- MCGeneratorOf
    UserFiles <- MCUserFiles
    Traces <- MCTraces
    Builders = {b1, b2}
    Nobody = Nobody
    MaxGeneration = 2
    MaximumAttempts = 3
    MaxEdits = 1
    MaxCrashes = 1
SPECIFICATION FairSpec
INVARIANTS
    RegeneratesOnlyProven
PROPERTIES
    SuccessVerified
    KeepsPromise
    BuildsEnd
CHECK_DEADLOCK FALSE
