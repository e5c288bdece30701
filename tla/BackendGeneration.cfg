SPECIFICATION Spec
CONSTANTS
    Modules <- MCModules
    LayerCount = 2
    Files = {trusted, application}
    Trusted = {trusted}
    MaxVersion = 2
    Unparsable <- MCUnparsable
    Graphs <- MCGraphs
INVARIANT GeneratedFromSource
INVARIANT ValidatedAlone
INVARIANT FailedLeavesAsFound
CHECK_DEADLOCK FALSE
