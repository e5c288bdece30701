---------------------- MODULE ArchitectureSpecification ----------------------
(***************************************************************************)
(* ARCHITECTURE: the architecture contract (architecture_specification.py),*)
(* the deterministic engine and the check of a candidate                   *)
(* (architecture_engine.py).                                               *)
(*                                                                         *)
(* A source is a plan item or a planning decision, and a fact is the set   *)
(* of its sources: its wording follows from them.  A component's id is a   *)
(* tuple that names what it stands for.                                    *)
(***************************************************************************)
EXTENDS SoftwarePlan

CONSTANTS
    Managed,        \* the values that speak of state to manage
    WebPlatforms,
    Isolating,      \* accepted values that ask for isolated execution
    LabelledFor,    \* slot |-> the values that name its implementation
    KnownFor        \* slot |-> the bare preferences recognised for it

PlanSource(item) == <<"plan", item>>
DecisionSource(d) == <<"decision", d>>
PlanSources(items) == {PlanSource(i) : i \in items}

SourceCatalog(plan, decisions) ==
    PlanSources(ItemsOfPlan(plan)) \cup {DecisionSource(d) : d \in decisions}

SourcesFor(plan, decisions, v) ==
    PlanSources({i \in ItemsOfPlan(plan) : i.value = <<v>>})
        \cup {DecisionSource(d) : d \in {e \in decisions : v \in e.accepted}}

SourceFor(plan, decisions, v) == CHOOSE s \in SourcesFor(plan, decisions, v) : TRUE

\* the engine asks for the source of each of these, and fails without one
AskedSources(idea, decisions, slots) ==
    idea.platforms \cup idea.deployments
        \cup ((idea.authentication \cup idea.integrations) \ NoNeed)
        \cup UNION {idea.preferences \cap (LabelledFor[s] \cup KnownFor[s]) : s \in slots}

Store == <<"store", "">>

(***************************************************************************)
(* The engine.                                                             *)
(***************************************************************************)
Client == <<"client", "">>
Owner(c) == <<"owner", c.value[1]>>
Worker(d) == <<"worker", d.topic>>
OwnersOf(cs) == {Owner(c) : c \in cs}

Component(id, category, sources, owned, trust) ==
    [id |-> id, category |-> category, sources |-> sources, owned |-> owned,
     dependencies |-> {}, trust |-> trust]

Edge(source, destination, requirements) ==
    [source |-> source, destination |-> destination, requirements |-> requirements]

Aspect(area, sources, components, constraints) ==
    [area |-> area, sources |-> sources, components |-> components,
     constraints |-> constraints, technology |-> "none"]

Slots == {"frontend", "primary persistence", "asset storage", "worker isolation",
          "background job", "publishing", "integration", "deployment topology"}

\* the one value approved for a slot, if there is exactly one
Chosen(idea, decisions, slot) ==
    LET accepted == UNION {d.accepted : d \in decisions}
        labelled == (idea.preferences \cup accepted) \cap LabelledFor[slot]
        known == idea.preferences \cap KnownFor[slot]
    IN  IF Cardinality(labelled) = 1 THEN labelled
        ELSE IF Cardinality(known) = 1 THEN known ELSE {}

Category(idea, plan, c) ==
    CASE c.value = <<Authentication>> /\ idea.authentication \ NoNeed # {} -> "identity"
      [] c.sources \cap ({i.value[1] : i \in plan.integrations} \ NoNeed) # {}
            /\ \E v \in DOMAIN CapabilityOf : c.value = <<CapabilityOf[v]>> -> "adapter"
      [] OTHER -> "service"

Persistent(plan) ==
    {c \in plan.capabilities :
        c.value[1] \in Managed \cup Assets \cup Building \cup Publishing}

Related(plan, d) == {c \in plan.capabilities : c.sources \cap d.sources # {}}
Responsible(plan, d) == OrElse(OwnersOf(Related(plan, d)), {Client})

IsolatesBuild(d) == d.topic = "build" /\ d.accepted \cap Isolating # {}

Workers(decisions) == {d \in decisions : IsolatesBuild(d)}

\* who answers for an approved value: the owners of the capabilities it led to
Answering(plan, v) ==
    OrElse(OwnersOf({c \in plan.capabilities : v \in c.sources}), {Client})

BareComponents(idea, plan, decisions) ==
    {Component(Client, "application",
        OrElse({SourceFor(plan, decisions, p) : p \in idea.platforms},
               {PlanSource(plan.objective)}), {}, "application")}
      \cup {Component(Owner(c), Category(idea, plan, c), {PlanSource(c)}, {PlanSource(c)},
                      "application") : c \in plan.capabilities}
      \cup {Component(Store, "storage", PlanSources(Persistent(plan)), {}, "application") :
               x \in {1} \cap (IF Persistent(plan) = {} THEN {} ELSE {1})}
      \cup {Component(Worker(d), "worker", {DecisionSource(d)}, {}, "isolated") :
               d \in Workers(decisions)}

Interfaces(idea, plan, decisions) ==
    {Edge(Client, Owner(c), {PlanSource(c)}) : c \in plan.capabilities}
      \cup {Edge(Owner(c), Store, {PlanSource(c)}) : c \in Persistent(plan)}
      \cup (UNION {{Edge(o, Worker(d), {DecisionSource(d)}) : o \in Responsible(plan, d)} :
                      d \in Workers(decisions)})
      \cup UNION {LET s == SourceFor(plan, decisions, v) IN
                  {Edge(o, s, {s}) : o \in Answering(plan, v)} :
                     v \in idea.integrations \ NoNeed}

DecisionAspects(plan, d) ==
    LET s == {DecisionSource(d)} IN
    CASE d.topic = "asset" -> {Aspect("storage", s, Responsible(plan, d), {s})}
      [] IsolatesBuild(d) -> {Aspect("background", s, {Worker(d)}, {s}),
                              Aspect("security", s, {Worker(d)}, {s})}
      [] d.topic = "publish" -> {Aspect("component", s, Responsible(plan, d), {s})}
      [] d.topic = "synchronization" -> {Aspect("integration", s, Responsible(plan, d), {s})}
      [] OTHER -> {Aspect("context", s, Responsible(plan, d), {s})}

PlainAspects(idea, plan, decisions) ==
    LET all == {c.id : c \in BareComponents(idea, plan, decisions)}
        capabilities == PlanSources(plan.capabilities)
        For(area, vs) == {LET s == {SourceFor(plan, decisions, v)} IN
                          Aspect(area, s, IF area = "deployment" THEN all ELSE Answering(plan, v), {s}) :
                             v \in vs}
    IN  (UNION {DecisionAspects(plan, d) : d \in decisions})
          \cup (IF Persistent(plan) = {} THEN {}
                ELSE {Aspect("storage", PlanSources(Persistent(plan)), {Store}, {})})
          \cup For("authentication", idea.authentication \ NoNeed)
          \cup For("integration", idea.integrations \ NoNeed)
          \cup For("deployment", idea.deployments)
          \cup {Aspect(a, capabilities, all, IF a = "risk" THEN {capabilities} ELSE {}) :
                   a \in {"security", "observability", "resilience", "risk"}}

\* the choices of implementation the engine looks for, and the boundary of each
SlotUses(idea, plan, decisions) ==
    LET all == {c.id : c \in BareComponents(idea, plan, decisions)}
        Use(slot, area, sources, components) ==
            [slot |-> slot, area |-> area, sources |-> sources, components |-> components]
        OfDecision(d) ==
            LET s == {DecisionSource(d)} IN
            CASE d.topic = "asset" -> {Use("asset storage", "storage", s, Responsible(plan, d))}
              [] IsolatesBuild(d) ->
                   {Use("worker isolation", "background", s, {Worker(d)}),
                    Use("background job", "background",
                        OrElse(PlanSources(Related(plan, d)), s), {Worker(d)})}
              [] d.topic = "publish" -> {Use("publishing", "component", s, Responsible(plan, d))}
              [] d.topic = "synchronization" ->
                   {Use("integration", "integration", s, Responsible(plan, d))}
              [] OTHER -> {}
        client == CHOOSE c \in BareComponents(idea, plan, decisions) : c.id = Client
    IN  (UNION {OfDecision(d) : d \in decisions})
          \cup (IF idea.platforms \cap WebPlatforms = {} THEN {}
                ELSE {Use("frontend", "frontend", client.sources, {Client})})
          \cup (IF Persistent(plan) = {} THEN {}
                ELSE {Use("primary persistence", "storage", PlanSources(Persistent(plan)), {Store})})
          \cup {Use("deployment topology", "deployment", {SourceFor(plan, decisions, v)}, all) :
                   v \in idea.deployments}

Implement(aspect, plan, decisions, v) ==
    [aspect EXCEPT !.technology = v,
                   !.constraints = @ \cup {{SourceFor(plan, decisions, v)}}]

\* an approved implementation is written into its boundary, or gets one
Aspects(idea, plan, decisions) ==
    LET plain == PlainAspects(idea, plan, decisions)
        chosen == {p \in SlotUses(idea, plan, decisions)
                            \X UNION {Chosen(idea, decisions, s) : s \in Slots} :
                      p[2] \in Chosen(idea, decisions, p[1].slot)}
        Same(a, u) == a.area = u.area /\ a.sources = u.sources
        For(a) == {p \in chosen : Same(a, p[1])}
    IN  {IF For(a) = {} THEN a
         ELSE Implement(a, plan, decisions, (CHOOSE p \in For(a) : TRUE)[2]) : a \in plain}
          \cup {Implement(Aspect(p[1].area, p[1].sources, p[1].components, {}),
                          plan, decisions, p[2]) :
                   p \in {q \in chosen : ~\E a \in plain : Same(a, q[1])}}

OpenQuestions(idea, plan, decisions) ==
    {[slot |-> u.slot, area |-> u.area, sources |-> u.sources, blocking |-> TRUE] :
        u \in {w \in SlotUses(idea, plan, decisions) : Chosen(idea, decisions, w.slot) = {}}}

ExpectedConstraints(plan, decisions) ==
    PlanSources(plan.constraints \cup plan.integrations)
        \cup {DecisionSource(d) : d \in decisions}

WithDependencies(components, edges) ==
    LET ids == {c.id : c \in components} IN
    {[c EXCEPT !.dependencies = {e.destination : e \in {f \in edges : f.source = c.id}} \cap ids] :
        c \in components}

BaselineArchitecture(idea, plan, decisions) ==
    LET edges == Interfaces(idea, plan, decisions) IN
    [objective   |-> {PlanSource(plan.objective)},
     components  |-> WithDependencies(BareComponents(idea, plan, decisions), edges),
     interfaces  |-> edges,
     flows       |-> edges,
     aspects     |-> Aspects(idea, plan, decisions),
     questions   |-> OpenQuestions(idea, plan, decisions),
     external    |-> PlanSources(plan.roles \cup plan.integrations),
     constraints |-> ExpectedConstraints(plan, decisions)]

\* min of an empty sequence is an error
ArchitectureDerivable(idea, plan, decisions) ==
    \A v \in AskedSources(idea, decisions, Slots) : SourcesFor(plan, decisions, v) # {}

(***************************************************************************)
(* The contract of an architecture.                                        *)
(***************************************************************************)
Categories == {"application", "service", "storage", "worker", "adapter", "identity"}

Identifiers(components) == {c.id : c \in components}
OwnedBy(components) == UNION {c.owned : c \in components}

SourcesNamed(a) ==
    {c.sources : c \in a.components} \cup {e.requirements : e \in a.interfaces \cup a.flows}
        \cup {x.sources : x \in a.aspects} \cup {q.sources : q \in a.questions}
        \cup {a.objective}

\* mutant: two components may own one capability
OwnershipExactOnce(plan, components) == OwnedBy(components) = PlanSources(plan.capabilities)

OwnershipExact(plan, components) ==
    /\ OwnedBy(components) = PlanSources(plan.capabilities)
    /\ \A c, d \in components : c # d => c.owned \cap d.owned = {}

ComponentsSound(components) ==
    /\ \A c, d \in components :
          \/ c = d
          \/ /\ c.id # d.id
             /\ <<c.category, c.sources, c.owned>> # <<d.category, d.sources, d.owned>>
    /\ \A c \in components :
          /\ c.category \in Categories
          /\ c.trust \in {"application", "isolated", "external"}
          /\ c.owned \subseteq c.sources
          /\ c.dependencies \subseteq Identifiers(components) \ {c.id}

EdgesSound(a) ==
    \A e \in a.interfaces \cup a.flows :
        /\ {e.source, e.destination} \subseteq Identifiers(a.components) \cup a.external
        /\ e.source # e.destination

\* an implementation is a preference of the idea or an accepted value
TechnologyApproved(idea, decisions, x) ==
    x.technology = "none" \/ x.technology \in idea.preferences
                          \/ \E d \in decisions : x.technology \in d.accepted

TextSources(plan, decisions, v) ==
    PlanSources({i \in ItemsOfPlan(plan) : i.value = <<v>>})
        \cup {DecisionSource(d) : d \in {e \in decisions : e.accepted = {v}}}

BoundaryPresent(plan, decisions, a, area, v) ==
    \E x \in a.aspects : x.area = area /\ x.sources \cap TextSources(plan, decisions, v) # {}

ArchitectureContract(idea, plan, decisions, a) ==
    /\ {} \notin SourcesNamed(a)
    /\ UNION SourcesNamed(a) \subseteq SourceCatalog(plan, decisions)
    /\ ComponentsSound(a.components)
    /\ OwnershipExact(plan, a.components)
    /\ EdgesSound(a)
    /\ a.constraints = ExpectedConstraints(plan, decisions)
    /\ \A x \in a.aspects :
          /\ x.components # {} /\ x.components \subseteq Identifiers(a.components)
          /\ TechnologyApproved(idea, decisions, x)
    /\ \A v \in idea.authentication \ NoNeed :
          BoundaryPresent(plan, decisions, a, "authentication", v)
    /\ \A v \in idea.integrations \ NoNeed :
          BoundaryPresent(plan, decisions, a, "integration", v)
    /\ \A v \in idea.deployments \ NoNeed :
          BoundaryPresent(plan, decisions, a, "deployment", v)

\* what keeps an architecture from being complete, its open questions aside
ArchitectureMissing(a) ==
    ({"deployment", "security", "risk"} \ {x.area : x \in a.aspects})
        \cup {"dependency_interfaces" : c \in {d \in a.components :
                 ~(d.dependencies \subseteq {e.destination : e \in {f \in a.interfaces :
                                                              f.source = d.id}})}}
        \cup (IF Cardinality(a.components) > 1 /\ a.interfaces = {}
               THEN {"material_interfaces"} ELSE {})
        \cup (IF a.components = {} THEN {"components"} ELSE {})

(***************************************************************************)
(* A candidate keeps what the engine derives, whatever its components are  *)
(* called.                                                                 *)
(***************************************************************************)
KeepsAspects(baseline, a) ==
    \A r \in baseline.aspects : \E x \in a.aspects :
        x.area = r.area /\ r.sources \subseteq x.sources /\ r.constraints \subseteq x.constraints

KeepsBoundaries(baseline, a) ==
    \A r \in baseline.components :
        r.category \in {"worker", "storage", "adapter", "identity"} =>
            \E c \in a.components :
                /\ c.category = r.category /\ c.trust = r.trust
                /\ r.sources \subseteq c.sources

NoNewWorkers(baseline, a) ==
    \A c \in a.components : c.category = "worker" =>
        \E r \in baseline.components : r.category = "worker" /\ c.sources \subseteq r.sources

KeepsQuestions(baseline, a) ==
    \A r \in baseline.questions : \E q \in a.questions :
        q.area = r.area /\ q.sources = r.sources /\ q.blocking

FlowsFollowInterfaces(a) ==
    \A e \in a.interfaces : \E f \in a.flows :
        f.source = e.source /\ f.destination = e.destination /\ e.requirements \subseteq f.requirements

ArchitectureCandidate(idea, plan, decisions, baseline, a) ==
    /\ ArchitectureContract(idea, plan, decisions, a)
    /\ ArchitectureMissing(a) = {}
    /\ FlowsFollowInterfaces(a)
    /\ baseline.objective \subseteq a.objective
    /\ KeepsAspects(baseline, a)
    /\ KeepsBoundaries(baseline, a)
    /\ NoNewWorkers(baseline, a)
    /\ KeepsQuestions(baseline, a)
=============================================================================
