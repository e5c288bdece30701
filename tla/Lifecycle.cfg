SPECIFICATION Spec
CONSTANTS
    Questions <- MCQuestions
    Blocking <- MCBlocking
    Values <- MCValues
    Wordings = {"plain", "removes"}
    Plain = "plain"
    Destructive = {"removes"}
    Contradicting = {"bad"}
    None = None
    MaxHistory = 4
    Inputs <- MCInputs
    PlanQuestions <- MCPlan
    ScopeBreaking = {"y"}
    ArchitectureQuestions <- MCArchitecture
    Scope <- MCScope
    Fold <- MCFold
    ForeignArea <- MCForeign
    ModelQuestions <- MCModel
    ModelClaims <- MCModelClaims
    Independent = "independent"
    Mirror <- MCMirror
    FrozenModelClash <- MCFrozenModelClash
    Unidentified = {"build"}
    BackendQuestions <- MCBackend
    BackendClaims <- MCBackendClaims
INVARIANT DecisionsCompatible
INVARIANT FrozenAuthority
PROPERTY ConflictsHold
CHECK_DEADLOCK FALSE
