------------------------ MODULE SpecificationPipeline ------------------------
(***************************************************************************)
(* From an approved IDEA to a request for generation: each stage derives   *)
(* its specification from the approved one before it, or accepts one that  *)
(* an adapter proposed; the questions it leaves open are answered, and it  *)
(* is approved.                                                            *)
(*                                                                         *)
(* How a single stage clarifies and approves, with conflicts, rejections   *)
(* and retries, is ArcaDevLifecycle's subject; here a stage is approved in *)
(* one step, with an answer to every blocking question, and what is        *)
(* followed is the content.                                                *)
(***************************************************************************)
EXTENDS BackendSpecification

(***************************************************************************)
(* The request for generation (arcacore_generation_request.py): what of an *)
(* approved backend the public generator can represent, field by field     *)
(* (state_translation.py, state_constraints.py) and responsibility by      *)
(* responsibility, and whether anything is left over.                      *)
(***************************************************************************)
CONSTANTS
    Standard,            \* capability values that ask for the standard module
    StandardAuthority,   \* the one authentication the generated checks provide
    Timestamps,          \* the constraint that allows generated timestamps
    Postgres,            \* the implementation of storage that is generated
    LocalRuntime,        \* the deployment that is only planned
    KnownConstraints     \* constraints the standard module keeps

\* the name of the standard module begins with manage
ASSUME StandardIsManaged == Standard \subseteq Managed

StandardCapabilities(plan) == PlanSources({c \in plan.capabilities : c.value[1] \in Standard})
AuthCapabilities(plan) == PlanSources({c \in plan.capabilities : c.value = <<Authentication>>})

TimestampsAllowed(plan) == <<Timestamps>> \in ItemValues(plan.constraints)

StorageAspects(a) == {x \in a.aspects : x.area = "storage"}

PostgresEverywhere(a) ==
    StorageAspects(a) # {} /\ \A x \in StorageAspects(a) : x.technology = Postgres

AuthenticationStandard(idea) == idea.authentication = {StandardAuthority}

(***************************************************************************)
(* A field, and an entity, as a declaration of the public generator.       *)
(***************************************************************************)
TimestampNames == {"created_at", "updated_at"}

TimestampAsGenerated(f) ==
    /\ f.type = "datetime" /\ ~f.required /\ ~f.unique /\ ~f.collection
    /\ f.mutable = (f.name = "updated_at") /\ f.default = "none"

ScalarTypes == {"string", "text", "integer", "boolean", "date", "datetime", "uuid", "json"}

DefaultFits(f) ==
    \/ f.default = "none"
    \/ f.default = "null" /\ ~f.required /\ f.type # "json"
    \/ f.default = f.type /\ f.type \in {"string", "text", "integer", "boolean", "enum"}

FieldTranslates(f, primary) ==
    /\ ~f.collection
    /\ f.type \in ScalarTypes \cup {"enum"}
    /\ f.mutable = ~primary
    /\ f.unique => f.required /\ f.type # "json"
    /\ primary => /\ f.required /\ f.type \in {"string", "integer"}
                  /\ f.type = "integer" => f.default # "none"
    /\ f.type = "enum" => f.domain # {}
    /\ DefaultFits(f)

\* the claims on an entity that the standard module keeps as they are
ClaimRepresented(e, c) ==
    \/ c.area = "uniqueness" /\ c.values = {"identity_only"}
    \/ c.area = "lookup" /\ c.values = {"identity"}
    \/ c.area = "relationship" /\ c.values = {"independent"}
    \/ c.area = "lifecycle" /\ \E f \in e.fields : f.field.domain = c.values
    \/ /\ c.area = "principal_reference" /\ c.values = {"external_principal_id"}
       /\ \E f \in e.fields : f.field.name = "external_principal_id" /\ f.field.type = "string"

RuleTranslates(e, r) ==
    CASE r.rule.kind = "constraint" ->
           \A n \in r.rule.fields : \E f \in e.fields :
              f.field.name = n /\ (IF r.rule.bound THEN f.field.type = "integer"
                                                   ELSE f.field.required /\ f.field.type # "json")
      [] r.rule.kind = "access" -> r.rule.fields = e.identity
      [] OTHER -> FALSE

EntityTranslates(plan, rm, e) ==
    /\ e.fields # {} /\ Cardinality(e.identity) = 1
    /\ \A c \in rm.claims : c.entity = e.owned => ClaimRepresented(e, c)
    /\ TimestampsAllowed(plan) /\ TimestampNames \subseteq {f.field.name : f \in e.fields}
    /\ \A f \in e.fields :
          IF f.field.name \in TimestampNames THEN TimestampAsGenerated(f.field)
          ELSE FieldTranslates(f.field, f.field.name \in e.identity)
    /\ \A r \in rm.rules : e.owned \in r.entities => RuleTranslates(e, r)

ModuleFor(rm, e) ==
    [entity       |-> e.owned,
     declarations |-> {f.field : f \in {g \in e.fields : g.field.name \notin TimestampNames}},
     managed      |-> {f.field : f \in {g \in e.fields : g.field.name \in TimestampNames}},
     rules        |-> {r \in rm.rules : e.owned \in r.entities},
     decisions    |-> {f.evidence : f \in e.fields}
                         \cup {r.evidence : r \in {s \in rm.rules : e.owned \in s.entities}}]

Modules(plan, rm) ==
    {ModuleFor(rm, e) : e \in {f \in rm.entities : EntityTranslates(plan, rm, f)}}

(***************************************************************************)
(* Every responsibility is mapped; one that is not supported blocks.       *)
(***************************************************************************)
Supported == "SUPPORTED"
Uncertified == "REQUIRES_CERTIFICATION"
Unsupported == "UNSUPPORTED"

Mapping(kind, about, supported, otherwise) ==
    [about |-> <<kind, about>>, status |-> IF supported THEN Supported ELSE otherwise]

\* mutant: an identity boundary is generated whatever it owns
ComponentSupportedAnyIdentity(idea, plan, a, modules, c) ==
    \/ /\ c.owned # {} /\ c.owned \subseteq StandardCapabilities(plan)
       /\ AuthenticationStandard(idea)
       /\ c.entities # {} /\ c.entities \subseteq {m.entity : m \in modules}
       /\ c.role \in {"application_service", "api", "domain_service"}
    \/ c.role = "persistence" /\ c.owned = {} /\ PostgresEverywhere(a)
    \/ c.role = "identity_boundary" /\ AuthenticationStandard(idea)

ComponentSupported(idea, plan, a, modules, c) ==
    \/ /\ c.owned # {} /\ c.owned \subseteq StandardCapabilities(plan)
       /\ AuthenticationStandard(idea)
       /\ c.entities # {} /\ c.entities \subseteq {m.entity : m \in modules}
       /\ c.role \in {"application_service", "api", "domain_service"}
    \/ c.role = "persistence" /\ c.owned = {} /\ PostgresEverywhere(a)
    \/ /\ c.role = "identity_boundary" /\ AuthenticationStandard(idea)
       /\ c.owned \subseteq AuthCapabilities(plan)

SupportedComponents(idea, plan, a, modules, b) ==
    {c.owners : c \in {d \in b.components : ComponentSupported(idea, plan, a, modules, d)}}

StateMappings(plan, rm, b) ==
    LET represented == {m.entity : m \in Modules(plan, rm)} IN
    {Mapping("logical_state", e.owned, e.owned \in represented, Uncertified) : e \in rm.entities}
        \cup {Mapping("binding", x.entity, x.entity \in represented, Uncertified) : x \in b.bindings}

ComponentMappings(supported, b) ==
    {Mapping("component", c.owners, c.owners \in supported,
             IF c.role \in {"integration_adapter", "publishing_adapter", "external_worker",
                            "background_job", "storage"} THEN Unsupported ELSE Uncertified) :
        c \in b.components}

OperationMappings(idea, plan, supported, b) ==
    {Mapping("operation", o.capability,
             /\ o.capability \in StandardCapabilities(plan) \cup AuthCapabilities(plan)
             /\ o.component \in supported /\ AuthenticationStandard(idea), Uncertified) :
        o \in b.operations}

PolicyMappings(idea, a, supported, b) ==
    {Mapping("policy", p.aspect,
             /\ \/ p.kind = "storage" /\ PostgresEverywhere(a)
                \/ p.kind = "authorization" /\ AuthenticationStandard(idea)
             /\ p.components \subseteq supported,
             IF p.kind \in {"background", "integration"} THEN Unsupported ELSE Uncertified) :
        p \in b.policies}

DecisionMappings(plan, planDecisions, choices, modules) ==
    {Mapping("plan decision", d, FALSE, Uncertified) : d \in planDecisions}
        \cup {Mapping("architecture decision", d,
                 \/ FromChoice(d) \in UNION {m.decisions : m \in modules}
                 \/ /\ StandardCapabilities(plan) # {} /\ d.area = "deployment"
                    /\ d.accepted = {LocalRuntime}, Uncertified) : d \in choices}

ConstraintMappings(plan) ==
    {Mapping("constraint", i.value, i.value[1] \in KnownConstraints, Uncertified) :
        i \in plan.constraints}

\* every question of the backend was answered by the one profile it has
ChoiceMappings(b) ==
    {Mapping("choice", q.area,
             q.area \in {"persistence_mapping", "api_boundary", "implementation_technology"},
             Uncertified) : q \in {r \in b.questions : r.blocking}}

Request(idea, plan, planDecisions, a, choices, rm, b) ==
    LET modules == Modules(plan, rm)
        supported == SupportedComponents(idea, plan, a, modules, b)
        mappings == StateMappings(plan, rm, b) \cup ComponentMappings(supported, b)
                       \cup OperationMappings(idea, plan, supported, b)
                       \cup PolicyMappings(idea, a, supported, b)
                       \cup DecisionMappings(plan, planDecisions, choices, modules)
                       \cup ConstraintMappings(plan) \cup ChoiceMappings(b)
        blockers == {m \in mappings : m.status # Supported}
    IN  [modules |-> modules, blockers |-> blockers,
         eligible |-> modules # {} /\ blockers = {}]
-----------------------------------------------------------------------------
CONSTANTS
    Ideas,                              \* the ideas that are approved
    PlanProposals(_),                   \* what adapters propose
    ArchitectureProposals(_, _, _),
    ModelProposals(_, _),
    BackendProposals(_, _, _),
    PlanAnswers(_), ArchitectureAnswers(_), ModelAnswers(_)
                                        \* the ways users answer a set of questions

VARIABLES
    phase,          \* what is worked on
    idea, plan, planDecisions, architecture, choices, model, claims, backend, request

pipelineVars == <<phase, idea, plan, planDecisions, architecture, choices, model, claims, backend, request>>

Nothing == [none |-> TRUE]

PipelineInit ==
    /\ phase = "PLAN"
    /\ idea \in Ideas
    /\ plan = Nothing /\ planDecisions = {}
    /\ architecture = Nothing /\ choices = {}
    /\ model = Nothing /\ claims = {}
    /\ backend = Nothing /\ request = Nothing

ResolvedState == ResolvedModel(model, claims)

\* the decisions of each way to answer all questions
Deciding(questions, Decide(_, _), answers) ==
    {{Decide(q, f[q]) : q \in questions} : f \in answers}

DecidePlanning(q, accepted) == [topic |-> q.topic, sources |-> q.sources, accepted |-> accepted]

DecideArchitecture(q, accepted) ==
    [slot |-> q.slot, area |-> q.area, sources |-> q.sources, accepted |-> accepted]

(***************************************************************************)
(* PLAN.  Each engine's own result goes through the check of a candidate.  *)
(***************************************************************************)
PlanIs(p) ==
    /\ phase = "PLAN"
    /\ plan' = p
    /\ phase' = "PLAN approval"
    /\ UNCHANGED <<idea, planDecisions, architecture, choices, model, claims, backend, request>>

DerivePlan ==
    /\ phase = "PLAN"
    /\ PlanCandidate(idea, BaselinePlan(idea)) = TRUE
    /\ PlanIs(BaselinePlan(idea))

AcceptPlan ==
    /\ phase = "PLAN"
    /\ \E p \in {q \in PlanProposals(idea) : PlanCandidate(idea, q)} : PlanIs(p)

\* a plan that cannot be approved gives way to the engine's own
ReplacePlan ==
    /\ phase = "PLAN approval"
    /\ ~PlanApprovable(idea, plan)
    /\ plan' = BaselinePlan(idea)
    /\ UNCHANGED <<phase, idea, planDecisions, architecture, choices, model, claims, backend, request>>

ApprovePlan ==
    /\ phase = "PLAN approval"
    /\ PlanApprovable(idea, plan) = TRUE
    /\ planDecisions' \in Deciding(plan.questions, DecidePlanning, PlanAnswers(plan.questions))
    /\ phase' = "ARCHITECTURE"
    /\ UNCHANGED <<idea, plan, architecture, choices, model, claims, backend, request>>

(***************************************************************************)
(* ARCHITECTURE.  The engine fails for a plan that lost what it asks for,  *)
(* and a candidate is compared with what the engine derives.               *)
(***************************************************************************)
ArchitectureBaseline == BaselineArchitecture(idea, plan, planDecisions)

ArchitectureAccepted(candidates) ==
    LET baseline == ArchitectureBaseline IN
    IF ~ArchitectureContract(idea, plan, planDecisions, baseline) THEN {}
    ELSE {a \in candidates : ArchitectureCandidate(idea, plan, planDecisions, baseline, a)}

ArchitectureIs(a) ==
    /\ architecture' = a
    /\ phase' = "ARCHITECTURE approval"
    /\ UNCHANGED <<idea, plan, planDecisions, choices, model, claims, backend, request>>

DeriveArchitecture ==
    /\ phase = "ARCHITECTURE"
    /\ ArchitectureDerivable(idea, plan, planDecisions) = TRUE
    /\ \E a \in ArchitectureAccepted({ArchitectureBaseline}) : ArchitectureIs(a)

AcceptArchitecture ==
    /\ phase = "ARCHITECTURE"
    /\ ArchitectureDerivable(idea, plan, planDecisions) = TRUE
    /\ \E a \in ArchitectureAccepted(ArchitectureProposals(idea, plan, ArchitectureBaseline)) :
          ArchitectureIs(a)

ApproveArchitecture ==
    /\ phase = "ARCHITECTURE approval"
    /\ choices' \in Deciding(architecture.questions, DecideArchitecture,
                              ArchitectureAnswers(architecture.questions))
    /\ phase' = "MODELS"
    /\ UNCHANGED <<idea, plan, planDecisions, architecture, model, claims, backend, request>>

(***************************************************************************)
(* MODELS.                                                                 *)
(***************************************************************************)
ModelBaseline == BaselineModel(architecture, choices)

ModelAccepted(candidates) ==
    LET baseline == ModelBaseline IN
    IF ~ModelContract(architecture, choices, baseline) THEN {}
    ELSE {m \in candidates : ModelCandidate(architecture, choices, baseline, m)}

ModelIs(m) ==
    /\ model' = m
    /\ phase' = "MODELS approval"
    /\ UNCHANGED <<idea, plan, planDecisions, architecture, choices, claims, backend, request>>

DeriveModel ==
    /\ phase = "MODELS"
    /\ \E m \in ModelAccepted({ModelBaseline}) : ModelIs(m)

AcceptModel ==
    /\ phase = "MODELS"
    /\ \E m \in ModelAccepted(ModelProposals(choices, ModelBaseline)) : ModelIs(m)

ApproveModel ==
    /\ phase = "MODELS approval"
    /\ \A q \in model.questions : Answerable(q)
    /\ claims' \in {c \in {UNION cs : cs \in Deciding(model.questions, ClaimsOf,
                                                     ModelAnswers(model.questions))} :
                       ModelApprovable(ResolvedModel(model, c))}
    /\ phase' = "BACKEND"
    /\ UNCHANGED <<idea, plan, planDecisions, architecture, choices, model, backend, request>>

(***************************************************************************)
(* BACKEND, whose questions have one supported profile each, and the       *)
(* request.                                                                *)
(***************************************************************************)
BackendBaseline == BaselineBackend(architecture, ResolvedState)

BackendAccepted(candidates) ==
    LET baseline == BackendBaseline IN
    {b \in candidates : BackendCandidate(architecture, ResolvedState, baseline, b)}

BackendIs(b) ==
    /\ backend' = b
    /\ phase' = "BACKEND approval"
    /\ UNCHANGED <<idea, plan, planDecisions, architecture, choices, model, claims, request>>

DeriveBackend ==
    /\ phase = "BACKEND"
    /\ \E b \in BackendAccepted({BackendBaseline}) : BackendIs(b)

AcceptBackend ==
    /\ phase = "BACKEND"
    /\ \E b \in BackendAccepted(BackendProposals(architecture, ResolvedState, BackendBaseline)) : BackendIs(b)

RequestFor(b) == Request(idea, plan, planDecisions, architecture, choices, ResolvedState, b)

RequestGeneration ==
    /\ phase = "BACKEND approval"
    /\ request' = RequestFor(backend)
    /\ phase' = "REQUESTED"
    /\ UNCHANGED <<idea, plan, planDecisions, architecture, choices, model, claims, backend>>

\* what goes on without an adapter
Engines ==
    DerivePlan \/ ReplacePlan \/ ApprovePlan \/ DeriveArchitecture \/ ApproveArchitecture
        \/ DeriveModel \/ ApproveModel \/ DeriveBackend \/ RequestGeneration

Adapters == AcceptPlan \/ AcceptArchitecture \/ AcceptModel \/ AcceptBackend

PipelineNext == Engines \/ Adapters

PipelineSpec == PipelineInit /\ [][PipelineNext]_pipelineVars

(***************************************************************************)
(* Properties.                                                             *)
(***************************************************************************)
Requested == backend # Nothing

\* the owners of one capability
OwnersOfCapability(c) == OwnersIn(architecture, {PlanSource(c)})

\* Every capability of the approved plan reaches the backend as one operation,
\* run by the component that groups the one that owns it: regrouping,
\* recategorising or merging owners neither loses nor doubles a capability.
CapabilitiesOperated ==
    Requested => \A c \in plan.capabilities :
        \E o \in backend.operations, owner \in OwnersOfCapability(c) :
            /\ {p \in backend.operations : p.capability = PlanSource(c)} = {o}
            /\ OwnersOfCapability(c) = {owner}
            /\ owner.id \in o.component

\* Nothing that the plan says to keep is left without an owner of its state,
\* unless an architecture was approved that calls its owner an identity
\* boundary, whose state is elsewhere.
StateKept ==
    Requested => \A c \in Persistent(plan) :
        \/ \E x \in backend.bindings : PlanSource(c) \in x.entity
        \/ \E o \in OwnersOfCapability(c) : o.category = "identity"

\* Who runs an operation may change with the grouping of the backend; what it
\* may touch, and which policies hold for it, may not.
AuthorityOf(b) ==
    {<<o.capability, o.kind, o.entities, o.authorization>> : o \in b.operations}
        \cup {<<p.aspect, p.kind, p.operations, p.entities, "policy">> : p \in b.policies}

GroupingKeepsAuthority ==
    Requested => AuthorityOf(backend) = AuthorityOf(BaselineBackend(architecture, ResolvedState))

\* A request is eligible only if nothing approved is left out of it: every
\* capability is the standard module's or the sign-in's, every entity is in a
\* module with all its fields and rules, and no decision is without a place: it
\* spells out content of the model, or says that the application runs locally.
EligibleIsComplete ==
    request # Nothing /\ request.eligible =>
        /\ idea.authentication = {StandardAuthority}
        /\ planDecisions = {}
        /\ \A c \in plan.capabilities :
              \/ c.value = <<Authentication>>
              \/ c.value[1] \in Standard /\ \E m \in request.modules : PlanSource(c) \in m.entity
        /\ \A e \in ResolvedState.entities : \E m \in request.modules :
              /\ m.entity = e.owned
              /\ {f.field : f \in e.fields} = m.declarations \cup m.managed
        /\ \A r \in ResolvedState.rules : \A o \in r.entities :
              \E m \in request.modules : m.entity = o /\ r \in m.rules
        /\ \A c \in claims : c.area \notin {"retention", "external_reference", "field"}
        /\ \A d \in choices : d.accepted = {LocalRuntime} \/ d.accepted \subseteq DOMAIN FieldOf \cup DOMAIN RuleOf

=============================================================================
