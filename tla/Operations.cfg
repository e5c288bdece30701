SPECIFICATION Spec
CONSTANTS
    Callers = {c1, c2}
    Tenants = {"t1", "t2"}
    Keys = {"k"}
    Uploads = {"u", "v"}
    Principals <- MCPrincipals
    Policy <- MCPolicy
    MaxCalls = 2
    MaxRestarts = 1
    Events <- MCEvents
    Fields <- MCFields
    TenantScoped = {"created"}
    Handlers <- MCHandlers
    MaximumDepth = 2
    MaximumAttempts = 3
    WindowSeconds = 1
    MaxTime = 2
    MaxReceiverRestarts = 1
    Commits = {"a", "b"}
    Trees = {"clean", "dirty"}
    TestContracts <- MCContracts
    Runs <- MCRuns
    Reviews <- MCReviews
    Evidence <- MCEvidence
    NoEvidence <- MCNoEvidence
    RequiredChecks = {"postgresql"}
    MaxEdits = 2
    Requests = {q1, q2}
    Members <- MCMembers
    RowIds = {1, 2}
    RowValues = {7, 8}
    NoRef = 0
    ServiceContracts <- MCServiceContracts
    ServicePolicy <- MCPolicy
    FieldNames = {"author_id", "parent_id", "parent"}
    BadNames = {"class"}
    TargetOf <- MCTargetOf
    Modifiers <- MCModifiers
    NewFields <- MCNewFields
    Contexts <- MCContexts
    Options <- MCOptions
    ModuleName = "note"
    ModuleTable = "notes"
    TrustedValidators = {"rules.f", "rules.g"}
    LinearPatterns <- MCLinearPatterns
    MaxFields = 2
    MaxModifiers = 3
    IntakeFields <- MCIntakeFields
    Utterances <- MCUtterances
    Texts <- MCTexts
    Technologies = {"sql"}
    Exclusions = {"none"}
    IdeaCandidates <- MCCandidates
    MaxResolutions = 2
    MaxProjectBytes = 10000
    MaxSessionBytes = 30000
    MaxIntakeBytes = 15000
    Parents <- MCParents
    Declarations <- MCDeclarations
    Downstream <- MCDownstream
    Norm <- MCNorm
    Credentials = {"token"}
    Executable = {"powershell"}
    Proposed <- MCProposed
INVARIANTS NeverStuck RevisionKeepsParent OrderIrrelevant RelationshipNamesDistinct WholeObjects ActedOnOnce CompleteIsReviewed WrittenIsReadable GroundedInWords SavedReadsBack
PROPERTIES DeletedStaysAsItWas RowsOfTheirTenant
CHECK_DEADLOCK FALSE
