---------------------------- MODULE SoftwarePlan ----------------------------
(***************************************************************************)
(* PLAN: the plan contract (software_plan.py), the deterministic planner   *)
(* and the check of a candidate (planning_engine.py), and the consistency  *)
(* a plan must have to be approved (plan_approval.py).                     *)
(*                                                                         *)
(* An approved value of the IDEA is a string, equal up to case.  An item   *)
(* of a plan is a value with the approved values it comes from; the value  *)
(* is a tuple, so that wording built around an approved value is told from *)
(* the value itself.                                                       *)
(***************************************************************************)
EXTENDS Naturals, FiniteSets

CONSTANTS
    Assets, Building, Publishing,  \* the values that speak of these
    NoAuthentication, NoIntegration,  \* what the planner reads as no need of one
    NoNeed,                        \* the values that begin with no
    SyncedBy,                      \* the integration GitHub
    CapabilityOf                   \* integration |-> name of its capability

Authentication == "Authentication"

ItemValues(items) == {i.value : i \in items}

Direct(v) == [value |-> <<v>>, approved |-> TRUE, sources |-> {v}]

Derived(value, sources) == [value |-> value, approved |-> FALSE, sources |-> sources]

Directs(vs) == {Direct(v) : v \in vs}

ApprovedValues(idea) ==
    {idea.goal, idea.description} \cup idea.users \cup idea.features
        \cup idea.platforms \cup idea.authentication \cup idea.integrations
        \cup idea.deployments \cup idea.constraints \cup idea.nonfunctional
        \cup idea.preferences

(***************************************************************************)
(* The planner.                                                            *)
(***************************************************************************)
DerivedCapabilities(idea) ==
    {Derived(<<CapabilityOf[v]>>, {v}) : v \in idea.integrations \ NoIntegration}
        \cup IF idea.authentication = {} \/ idea.authentication \cap NoAuthentication # {}
             THEN {}
             ELSE {Derived(<<Authentication>>, idea.authentication)}

\* a feature and a derived capability of one name are one: the feature's
Capabilities(idea) ==
    LET features == Directs(idea.features) IN
    features \cup {c \in DerivedCapabilities(idea) : c.value \notin ItemValues(features)}

Topics == {"asset", "build", "publish", "synchronization"}

TopicSources(idea, topic) ==
    CASE topic = "asset"   -> idea.features \cap Assets
      [] topic = "build"   -> idea.features \cap Building
      [] topic = "publish" -> idea.features \cap Publishing
      [] OTHER             -> idea.integrations \cap SyncedBy

Question(topic, sources) == [topic |-> topic, blocking |-> TRUE, sources |-> sources]

\* questions of one wording are one, with the sources of all of them
PlanningQuestions(idea) ==
    {Question(t, TopicSources(idea, t)) : t \in {u \in Topics : TopicSources(idea, u) # {}}}

FeatureRisks(idea) ==
    {Derived(<<"build varies">>, {f}) : f \in idea.features \cap Building}
        \cup {Derived(<<"publishing varies">>, {f}) :
                 f \in (idea.features \cap Publishing) \ Building}

\* one item for every wording, with the sources of all items that have it
MergeSources(items) ==
    {Derived(v, UNION {i.sources : i \in {j \in items : j.value = v}}) : v \in ItemValues(items)}

Risks(idea) ==
    IF FeatureRisks(idea) # {} THEN MergeSources(FeatureRisks(idea))
    ELSE {Derived(<<"unforeseen">>, {idea.goal})}

OrElse(first, second) == IF first # {} THEN first ELSE second

BaselinePlan(idea) ==
    [objective    |-> Derived(<<"provide", idea.goal>>, {idea.description, idea.goal}),
     inScope      |-> Capabilities(idea),
     outOfScope   |-> {},
     capabilities |-> Capabilities(idea),
     roles        |-> Directs(idea.users),
     journeys     |-> {Derived(<<"completes", f>>, {f}) : f \in idea.features},
     functional   |-> {Derived(<<"supports", c.value[1]>>, c.sources) : c \in Capabilities(idea)},
     nonfunctional |-> OrElse(Directs(idea.nonfunctional),
                              {Derived(<<"experience", p>>, {p}) : p \in idea.platforms}),
     milestones   |-> Directs(idea.features \cup idea.authentication
                                  \cup idea.integrations \cup idea.deployments),
     dependencies |-> OrElse({Derived(<<"available", v>>, {v}) : v \in idea.integrations},
                             {Derived(<<"compatible", p>>, {p}) : p \in idea.platforms}),
     integrations |-> Directs(idea.integrations),
     risks        |-> Risks(idea),
     questions    |-> PlanningQuestions(idea),
     acceptance   |-> {Derived(<<"accepts", f>>, {f}) :
                          f \in idea.features \cup (idea.authentication \ NoAuthentication)},
     constraints  |-> Directs(idea.platforms \cup idea.authentication \cup idea.deployments
                                  \cup idea.constraints \cup idea.preferences)]

(***************************************************************************)
(* The contract of a plan, and its readiness.                              *)
(***************************************************************************)
ItemGrounded(idea, item) ==
    /\ item.sources # {}
    /\ item.sources \subseteq ApprovedValues(idea)
    /\ item.approved => item.value[1] \in ApprovedValues(idea)

ItemsOfPlan(plan) ==
    {plan.objective} \cup plan.inScope \cup plan.outOfScope \cup plan.capabilities
        \cup plan.roles \cup plan.journeys \cup plan.functional \cup plan.nonfunctional
        \cup plan.milestones \cup plan.dependencies \cup plan.integrations
        \cup plan.risks \cup plan.acceptance \cup plan.constraints

NoRepeats(items) == \A i, j \in items : i.value = j.value => i = j

PlanContract(idea, plan) ==
    /\ \A item \in ItemsOfPlan(plan) : ItemGrounded(idea, item)
    /\ plan.inScope # {}
    /\ ItemValues(plan.inScope) \cap ItemValues(plan.outOfScope) = {}
    /\ \A items \in {plan.inScope, plan.capabilities, plan.constraints, plan.risks} :
          NoRepeats(items)
    /\ \A q \in plan.questions :
          /\ q.sources # {} /\ q.sources \subseteq ApprovedValues(idea)
          /\ \A r \in plan.questions : q.topic = r.topic => q = r

PlanComplete(plan) ==
    {} \notin {plan.inScope, plan.capabilities, plan.journeys, plan.functional,
               plan.nonfunctional, plan.milestones, plan.dependencies, plan.risks,
               plan.acceptance}

PlanCandidate(idea, plan) ==
    /\ PlanContract(idea, plan)
    /\ ItemValues(plan.inScope \cup plan.capabilities) \subseteq ItemValues(Capabilities(idea))

\* every blocking question is decided when this is asked
PlanApprovable(idea, plan) ==
    /\ PlanComplete(plan)
    /\ ItemValues(plan.inScope) = ItemValues(plan.capabilities)
    /\ ItemValues(Directs(idea.platforms \cup idea.authentication \cup idea.deployments))
          \subseteq ItemValues(plan.constraints)
    /\ ItemValues(plan.integrations) = ItemValues(Directs(idea.integrations))
=============================================================================
