------------------------ MODULE BackendSpecification ------------------------
(***************************************************************************)
(* BACKEND: the graph a backend must be (backend_specification.py), the    *)
(* deterministic backend, its questions and the check of a candidate       *)
(* (backend_engine.py).                                                    *)
(*                                                                         *)
(* A backend component is named by the architecture components it groups,  *)
(* an operation by its capability, a policy by its architecture aspect.    *)
(***************************************************************************)
EXTENDS DomainModelSpecification

RolesFor ==
    [application |-> {"application_service", "api", "orchestration"},
     service     |-> {"application_service", "api", "orchestration", "domain_service",
                      "publishing_adapter"},
     adapter     |-> {"integration_adapter"},
     identity    |-> {"identity_boundary"},
     worker      |-> {"external_worker", "background_job"},
     storage     |-> {"persistence", "storage"}]

DefaultRole ==
    [application |-> "application_service", service |-> "application_service",
     adapter |-> "integration_adapter", identity |-> "identity_boundary",
     worker |-> "external_worker", storage |-> "persistence"]

PolicyKind ==
    [authentication |-> "authorization", integration |-> "integration",
     storage |-> "storage", background |-> "background"]

BackendOwners(a) == {c \in a.components : c.category # "application" \/ c.owned # {}}

OwnedByIds(a, ids) == OwnedBy({c \in a.components : c.id \in ids})

EntitiesHolding(rm, capabilities) ==
    {e.owned : e \in {f \in rm.entities : f.owned \cap capabilities # {}}}

\* a capability without state of its own uses the entity an outcome was placed in
OperationEntities(rm, id, capability) ==
    LET own == EntitiesHolding(rm, {capability}) IN
    IF own # {} THEN own
    ELSE {c.entity : c \in {d \in rm.claims : d.area = "field" /\ FromComponent(id) \in d.sources}}
            \cap {e.owned : e \in rm.entities}

\* the state of a background boundary belongs to those who call the worker
PolicyEntities(a, rm, x) ==
    IF x.area = "authentication" THEN {e.owned : e \in rm.entities}
    ELSE LET callers == IF x.area # "background" THEN {}
                        ELSE {e.source : e \in {f \in a.interfaces : f.destination \in x.components}}
         IN  EntitiesHolding(rm, OwnedByIds(a, x.components \cup callers))

\* mutant: a policy reaches every operation of the components it is in
PolicyOperationsOfComponents(a, components, x) ==
    LET capabilities == OwnedBy(BackendOwners(a)) IN
    IF x.area = "authentication" THEN capabilities
    ELSE UNION {c.owned : c \in {d \in components : d.owners \cap x.components # {}}}

PolicyOperations(a, components, x) ==
    LET capabilities == OwnedBy(BackendOwners(a)) IN
    IF x.area = "authentication" THEN capabilities
    ELSE OwnedByIds(a, x.components) \cap capabilities

(***************************************************************************)
(* The backend for a grouping of the owners and a role for each group.     *)
(***************************************************************************)
GroupOf(groups, id) == CHOOSE g \in groups : id \in g

GroupComponent(a, rm, groups, role, g) ==
    LET members == {c \in BackendOwners(a) : c.id \in g}
        owned == OwnedBy(members)
    IN  [owners |-> g, role |-> role[g], owned |-> owned,
         entities |-> EntitiesHolding(rm, owned),
         dependencies |-> {GroupOf(groups, d) : d \in (UNION {c.dependencies : c \in members})
                                                      \cap UNION groups} \ {g}]

GroupOperation(a, rm, groups, owner, capability) ==
    [capability |-> capability, component |-> GroupOf(groups, owner.id),
     kind |-> IF owner.category = "adapter" THEN "integration_action" ELSE "workflow_action",
     entities |-> OperationEntities(rm, owner.id, capability),
     authorization |-> {x \in a.aspects : x.area = "authentication"}]

GroupPolicy(a, rm, groups, components, x) ==
    [aspect |-> x, kind |-> PolicyKind[x.area],
     components |-> {GroupOf(groups, i) : i \in x.components \cap UNION groups},
     operations |-> PolicyOperations(a, components, x),
     entities |-> PolicyEntities(a, rm, x)]

AssembleBackend(a, rm, groups, role) ==
    LET owners == BackendOwners(a)
        components == {GroupComponent(a, rm, groups, role, g) : g \in groups}
    IN  [components |-> components,
         bindings   |-> {[entity |-> e.owned,
                          component |-> GroupOf(groups, (CHOOSE c \in owners : c.owned \cap e.owned # {}).id)] :
                            e \in rm.entities},
         operations |-> {GroupOperation(a, rm, groups, p[1], p[2]) :
                            p \in {q \in owners \X OwnedBy(owners) : q[2] \in q[1].owned}},
         policies   |-> {GroupPolicy(a, rm, groups, components, x) :
                            x \in {y \in a.aspects : y.area \in DOMAIN PolicyKind}}]

(***************************************************************************)
(* The questions.  They refine how approved scope is built, never whether. *)
(***************************************************************************)
BackendAsk(area, sources, entities, components, operations) ==
    [area |-> area, sources |-> sources, entities |-> entities,
     components |-> components, operations |-> operations, blocking |-> TRUE]

RelatedState(rm) == UNION {r.entities : r \in {s \in rm.rules : s.rule.kind = "relationship"}}

Releases(a, o) ==
    \E c \in a.components : o.capability \in c.owned
        /\ \E s \in c.sources : s[1] = "plan" /\ s[2].value[1] \in Publishing

ActionQuestions(a, o) ==
    LET sources == {FromComponent(c.id) : c \in OwnersIn(a, {o.capability})}
        AskAction(area) == BackendAsk(area, sources, o.entities, {o.component}, {o.capability})
    IN  {AskAction(area) : area \in
            (IF o.kind = "integration_action"
             THEN {"failure_semantics", "external_integration"} ELSE {})
              \cup (IF o.kind = "integration_action" \/ Releases(a, o)
                    THEN {"idempotency"} ELSE {})}

AsyncQuestions(b) ==
    {BackendAsk("async_execution", {FromAspect(p.aspect)}, p.entities, p.components,
                {o.capability : o \in {q \in b.operations :
                    \E c \in b.components : /\ q.component = c.owners
                                            /\ c.dependencies \cap p.components # {}}}) :
        p \in {q \in b.policies : q.kind = "background"}}

RetentionQuestions(rm, b) ==
    {BackendAsk("storage", {FromComponent(c) : c \in UNION {x.component : x \in
                               {y \in b.bindings : y.entity = e.owned}}},
                {e.owned}, {x.component : x \in {y \in b.bindings : y.entity = e.owned}},
                {o.capability : o \in {q \in b.operations : e.owned \in q.entities}}) :
        e \in {f \in rm.entities : \E c \in rm.claims : c.area = "retention" /\ c.entity = f.owned}}

WholeQuestions(rm, b) ==
    LET everything == {e.owned : e \in rm.entities}
        bound == {x.component : x \in b.bindings}
        Operating(os) == {o.capability : o \in os}
        Performing(os) == {o.component : o \in os}
    IN  {BackendAsk("persistence_mapping", {FromArchitecture}, everything, bound,
                    Operating({o \in b.operations : o.entities # {}})) :
            i \in {1} \cap (IF everything = {} THEN {} ELSE {1})}
        \cup {BackendAsk("api_boundary", {FromArchitecture}, everything, Performing(b.operations),
                         Operating(b.operations)) :
                 i \in {1} \cap (IF b.operations = {} THEN {} ELSE {1})}
        \cup {BackendAsk("transaction", {FromArchitecture}, RelatedState(rm),
                         {x.component : x \in {y \in b.bindings : y.entity \in RelatedState(rm)}},
                         Operating({o \in b.operations : o.entities \cap RelatedState(rm) # {}})) :
                 i \in {1} \cap (IF RelatedState(rm) = {} THEN {} ELSE {1})}
        \cup {BackendAsk("implementation_technology", {FromArchitecture}, everything,
                         {c.owners : c \in b.components}, Operating(b.operations)) :
                 i \in {1} \cap (IF b.components = {} THEN {} ELSE {1})}

QuestionsOfBackend(a, rm, b) ==
    WholeQuestions(rm, b) \cup AsyncQuestions(b) \cup RetentionQuestions(rm, b)
        \cup UNION {ActionQuestions(a, o) : o \in b.operations}

WithQuestions(b, questions) ==
    [components |-> b.components, bindings |-> b.bindings, operations |-> b.operations,
     policies |-> b.policies, questions |-> questions]

Singly(a) == {{c.id} : c \in BackendOwners(a)}

RolesOfOwners(a) ==
    [g \in Singly(a) |-> DefaultRole[(CHOOSE c \in a.components : c.id \in g).category]]

BaselineBackend(a, rm) ==
    LET b == AssembleBackend(a, rm, Singly(a), RolesOfOwners(a))
    IN  WithQuestions(b, QuestionsOfBackend(a, rm, b))

(***************************************************************************)
(* The contract: a grouping of the owners, and everything it implies.      *)
(***************************************************************************)
GroupingSound(a, components) ==
    /\ UNION {c.owners : c \in components} = Identifiers(BackendOwners(a))
    /\ \A c, d \in components : c # d => c.owners \cap d.owners = {}
    /\ \A c \in components : \A o \in BackendOwners(a) :
          o.id \in c.owners => c.role \in RolesFor[o.category]

BackendContract(a, rm, b) ==
    LET groups == {c.owners : c \in b.components}
        role == [g \in groups |-> (CHOOSE c \in b.components : c.owners = g).role]
        implied == AssembleBackend(a, rm, groups, role)
    IN  /\ {} \notin groups
        /\ GroupingSound(a, b.components)
        /\ b.components = implied.components
        /\ b.bindings = implied.bindings
        /\ b.operations = implied.operations
        /\ b.policies = implied.policies
        /\ \A q \in b.questions :
              q.components \subseteq groups
                  /\ q.operations \subseteq {o.capability : o \in b.operations}

(***************************************************************************)
(* A candidate asks the same questions, of the groups of their owners, and *)
(* may only add an advisory review of one of them.                         *)
(***************************************************************************)
Regrouped(q, b) ==
    LET groups == {c.owners : c \in b.components} IN
    BackendAsk(q.area, q.sources, q.entities, {GroupOf(groups, i) : i \in UNION q.components},
               q.operations)

BackendCandidate(a, rm, baseline, b) ==
    LET kept == {Regrouped(q, b) : q \in baseline.questions} IN
    /\ BackendContract(a, rm, b)
    /\ kept \subseteq b.questions
    /\ \A extra \in b.questions \ kept :
          /\ ~extra.blocking
          /\ \E q \in kept :
                /\ extra.area = q.area /\ extra.sources \subseteq q.sources
                /\ extra.entities \subseteq q.entities
                /\ extra.components \subseteq q.components
                /\ extra.operations \subseteq q.operations
          /\ extra.components # {} \/ extra.operations # {}
=============================================================================
