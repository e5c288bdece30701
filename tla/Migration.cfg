SPECIFICATION FairSpec
CONSTANTS
    Executors = {e1}
    Schemas = {v1, v2, v3}
    v1 = v1
    v2 = v2
    v3 = v3
    None = None
    MaxCrashes = 3
    CallersRepeat = TRUE
    Revs <- ChainRevs
    Root <- MCRoot
    Parent <- MCParent
    SchemaOf <- MCSchemaOf
    Reversible <- MCReversible
INVARIANT DbAcceptedAgree
INVARIANT OneCrashRecoverable
PROPERTY AtomicSpec
PROPERTY ApplySettles
CHECK_DEADLOCK FALSE
