SPECIFICATION FairSpec
CONSTANTS
    Paths = {1, 2}
    Generated = {a, b}
    UserContent = u
    Absent = absent
    Claims = {{1}}
    MaxPlans = 1
    MaxCrashes = 2
    LiveEdits = FALSE
INVARIANT AllOrNothing
PROPERTY UserWorkKept
PROPERTY RecoveryCompletes
