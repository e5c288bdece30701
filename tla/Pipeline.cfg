SPECIFICATION PipelineSpec
CONSTANTS
    Assets = {"manage assets"}
    Building = {"build games"}
    Publishing = {}
    NoAuthentication = {"No authentication"}
    NoIntegration = {"No integrations"}
    NoNeed = {"No integrations", "No authentication"}
    SyncedBy = {"GitHub"}
    CapabilityOf <- MCCapabilityOf
    Managed = {"manage tasks", "manage labels", "manage assets", "manage tickets"}
    WebPlatforms = {"web"}
    Isolating = {"isolated builds"}
    LabelledFor <- MCLabelledFor
    KnownFor <- MCKnownFor
    FieldOf <- MCFieldOf
    RuleOf <- MCRuleOf
    Lifecycled = {"build games"}
    Deleting = {}
    Standard = {"manage tasks", "manage labels"}
    StandardAuthority = "local account"
    Timestamps = "timestamps"
    Postgres = "PostgreSQL"
    LocalRuntime = "local runtime"
    KnownConstraints = {"Local API", "local account", "Local", "timestamps", "PostgreSQL"}
    Ideas <- MCIdeas
    PlanProposals <- MCPlanProposals
    ArchitectureProposals <- MCArchitectureProposals
    ModelProposals <- MCModelProposals
    BackendProposals <- MCBackendProposals
    PlanAnswers <- MCPlanAnswers
    ArchitectureAnswers <- MCArchitectureAnswers
    ModelAnswers <- MCModelAnswers
INVARIANTS CapabilitiesOperated StateKept GroupingKeepsAuthority EligibleIsComplete
CHECK_DEADLOCK FALSE
