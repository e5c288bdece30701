SPECIFICATION Spec
CONSTANTS
    Executors = {e1, e2}
    Schemas = {v1, v2, v3}
    v1 = v1
    v2 = v2
    v3 = v3
    None = None
    MaxCrashes = 0
    CallersRepeat = TRUE
    Revs <- SingleRevs
    Root <- MCRoot
    Parent <- MCParent
    SchemaOf <- MCSchemaOf
    Reversible <- MCReversible
INVARIANT DbAcceptedAgree
CHECK_DEADLOCK FALSE
