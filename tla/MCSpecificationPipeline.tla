------------------------ MODULE MCSpecificationPipeline ------------------------
(* Four ideas: a module of tasks and labels as the generator knows it; a      *)
(* studio with builds in an isolated worker, a chat that keeps nothing and    *)
(* integrations; a calculator without state; a desk with a ticket and chats.  *)
(* Adapters propose what the engines derive with one thing changed a stage.   *)
EXTENDS SpecificationPipeline

Tasks ==
    [goal |-> "work", description |-> "an application", users |-> {"users"},
     features |-> {"manage tasks", "manage labels"}, platforms |-> {"Local API"},
     authentication |-> {"local account"}, integrations |-> {"No integrations"},
     deployments |-> {"Local"}, constraints |-> {"timestamps"}, nonfunctional |-> {},
     preferences |-> {"PostgreSQL"}]

Studio ==
    [goal |-> "work", description |-> "an application", users |-> {"users"},
     features |-> {"manage assets", "build games", "chat"}, platforms |-> {"web"},
     authentication |-> {"Google"}, integrations |-> {"GitHub"},
     deployments |-> {"cloud"}, constraints |-> {}, nonfunctional |-> {},
     preferences |-> {"PostgreSQL", "React"}]

\* an idea that keeps no state: it computes
Calculator ==
    [Tasks EXCEPT !.features = {"add numbers"}, !.authentication = {"No authentication"},
                  !.constraints = {}]

\* two features that keep nothing, beside one that does
Desk ==
    [Tasks EXCEPT !.features = {"manage tickets", "chat", "help"},
                  !.authentication = {"No authentication"}, !.constraints = {}]

MCIdeas == {Tasks, Studio, Calculator, Desk}
MCCapabilityOf == [v \in {"GitHub"} |-> "GitHub integration"]

MCLabelledFor == [s \in Slots |-> CASE s = "worker isolation" -> {"containers"}
                                    [] OTHER -> {}]
MCKnownFor == [s \in Slots |-> CASE s = "primary persistence" -> {"PostgreSQL"}
                                 [] s = "frontend" -> {"React"}
                                 [] OTHER -> {}]

FieldNamed(name, type, required, mutable, unique) ==
    [name |-> name, type |-> type, required |-> required, collection |-> FALSE,
     mutable |-> mutable, unique |-> unique, default |-> "none", domain |-> {}]

MCFieldOf ==
    [v \in {"field id", "field title", "field created", "field updated", "field principal"} |->
        CASE v = "field id"      -> FieldNamed("id", "string", TRUE, FALSE, TRUE)
          [] v = "field title"   -> FieldNamed("title", "string", TRUE, TRUE, FALSE)
          [] v = "field created" -> FieldNamed("created_at", "datetime", FALSE, FALSE, FALSE)
          [] v = "field updated" -> FieldNamed("updated_at", "datetime", FALSE, TRUE, FALSE)
          [] OTHER -> FieldNamed("external_principal_id", "string", TRUE, TRUE, FALSE)]

\* a title everybody has, a look by identity, and tasks under a label
MCRuleOf ==
    [v \in {"rule title", "rule lookup", "rule labels"} |->
        CASE v = "rule title"  -> [kind |-> "constraint", fields |-> {"title"}, bound |-> FALSE]
          [] v = "rule lookup" -> [kind |-> "access", fields |-> {"id"}, bound |-> FALSE]
          [] OTHER -> [kind |-> "relationship", fields |-> {}, bound |-> FALSE]]
Rules == DOMAIN MCRuleOf

(* What is proposed. *)
Without(p, items) ==
    [p EXCEPT !.inScope = @ \ items, !.capabilities = @ \ items, !.constraints = @ \ items]

MCPlanProposals(i) ==
    LET p == BaselinePlan(i) IN
    {Without(p, {c}) : c \in p.capabilities \cup p.constraints}
        \cup {[p EXCEPT !.questions = {}]}
        \cup {[p EXCEPT !.inScope = @ \cup {c}, !.capabilities = @ \cup {c}] :
                 c \in {Derived(<<"invite friends">>, {i.goal})}}

Rename(id, from, to) == IF id = from THEN to ELSE id

MergeComponents(a, c, d) ==
    LET merged == [c EXCEPT !.sources = @ \cup d.sources, !.owned = @ \cup d.owned,
                            !.dependencies = (@ \cup d.dependencies) \ {c.id, d.id}]
        Redirect(edges) == {e \in {[f EXCEPT !.source = Rename(@, d.id, c.id),
                                             !.destination = Rename(@, d.id, c.id)] : f \in edges} :
                               e.source # e.destination}
        Onto(ids) == {Rename(i, d.id, c.id) : i \in ids}
    IN  [a EXCEPT !.components = {[x EXCEPT !.dependencies = Onto(@)] : x \in @ \ {c, d}} \cup {merged},
                  !.interfaces = Redirect(@), !.flows = Redirect(@),
                  !.aspects = {[x EXCEPT !.components = Onto(@)] : x \in @}]

Recategorised(a, c, category) ==
    [a EXCEPT !.components = (@ \ {c}) \cup {[c EXCEPT !.category = category]}]

DetailedWith(a, p, rules) ==
    [a EXCEPT !.questions = @ \cup
        {[slot |-> v, area |-> "component", blocking |-> FALSE,
          sources |-> PlanSources(p.capabilities)] : v \in DOMAIN MCFieldOf \cup rules}]
Detailed(a, p) == DetailedWith(a, p, {})

MCArchitectureProposals(i, p, a) ==
    LET services == {c \in a.components : c.category = "service"}
        changed == {a} \cup {Recategorised(a, c, k) : c \in services, k \in {"identity", "application", "storage"}}
                       \cup {MergeComponents(a, c, d) : c \in services \cup {x \in a.components : x.category = "adapter"},
                                                        d \in services}
                       \cup {[a EXCEPT !.components = (@ \ {c}) \cup
                                 {[c EXCEPT !.owned = @ \cup d.owned, !.sources = @ \cup d.sources]}] :
                                c, d \in services}
    IN  IF p # BaselinePlan(i) THEN IF i = Tasks THEN {Detailed(a, p)} ELSE {}
        ELSE IF i = Tasks THEN {Detailed(x, p) : x \in changed} \cup changed
                                 \cup {DetailedWith(a, p, rules) : rules \in SUBSET Rules}
        ELSE changed

MCModelProposals(decisions, m) ==
    LET declared == {[field |-> MCFieldOf[v], evidence |-> FromChoice(d)] :
                        <<d, v>> \in {p \in decisions \X DOMAIN MCFieldOf : p[1].accepted = {p[2]}}}
        ruled(entities) == {[rule |-> MCRuleOf[v], evidence |-> FromChoice(d), entities |-> entities] :
                               <<d, v>> \in {p \in decisions \X Rules : p[1].accepted = {p[2]}}}
        fielded == {[e EXCEPT !.fields = declared,
                              !.identity = {"id"} \cap {f.field.name : f \in declared}] : e \in m.entities}
        Merged(e, f) == [e EXCEPT !.owned = @ \cup f.owned, !.owners = @ \cup f.owners]
    IN  {[m EXCEPT !.entities = fielded]}
        \cup {[m EXCEPT !.entities = fielded, !.rules = ruled(es)] : es \in (SUBSET Owning(m)) \ {{}}}
        \cup {[m EXCEPT !.entities = (@ \ {p[1], p[2]}) \cup {Merged(p[1], p[2])},
                        !.questions = {[q EXCEPT !.affected = {IF o \in {p[1].owned, p[2].owned}
                                                               THEN p[1].owned \cup p[2].owned
                                                               ELSE o : o \in @}] : q \in @}] :
                 p \in {q \in m.entities \X m.entities : q[1] # q[2]}}
        \cup {[m EXCEPT !.questions = @ \ {q}] : q \in {x \in m.questions : x.area = "uniqueness"}}

Advisory(q, area, entities) ==
    [area |-> area, sources |-> q.sources, entities |-> entities, components |-> q.components,
     operations |-> q.operations, blocking |-> FALSE]

MCBackendProposals(a, rm, base) ==
    LET owners == BackendOwners(a)
        With(groups, role) ==
            LET b == AssembleBackend(a, rm, groups, role) IN
            WithQuestions(b, {Regrouped(q, b) : q \in base.questions})
        Pairs == {p \in owners \X owners : p[1].id # p[2].id /\ p[1].category = p[2].category}
        Grouped(p) ==
            LET g == {p[1].id, p[2].id}
                groups == (Singly(a) \ {{p[1].id}, {p[2].id}}) \cup {g}
            IN  With(groups, [x \in groups |-> IF x = g THEN DefaultRole[p[1].category]
                                               ELSE RolesOfOwners(a)[x]])
    IN  {Grouped(p) : p \in Pairs}
        \cup {With(Singly(a), [RolesOfOwners(a) EXCEPT ![{c.id}] = "orchestration"]) :
                 c \in {x \in owners : x.category = "service"}}
        \cup {WithQuestions(base, base.questions \cup {Advisory(q, q.area, {}), Advisory(q, "scope", {})}) :
                 q \in {x \in base.questions : x.area = "api_boundary"}}

(* What is answered. *)
MCPlanAnswers(questions) ==
    {[q \in questions |-> IF q.topic = "build" THEN build ELSE {"as agreed"}] :
        build \in {{"isolated builds"}, {"shared builds"}}}

MCArchitectureAnswers(questions) ==
    {[q \in questions |-> CASE q.slot \in DOMAIN MCFieldOf \cup Rules -> {q.slot}
                            [] q.slot = "deployment topology" -> {"local runtime"}
                            [] OTHER -> {"as decided"}]}

MCModelAnswers(questions) ==
    {[q \in questions |-> CASE q.area = "identity" -> {"uuid"}
                            [] q.area = "uniqueness" -> {"identity_only"}
                            [] q.area = "lookup" -> {"identity"}
                            [] q.area = "relationship" -> {"independent"}
                            [] q.area = "principal_reference" -> {"external_principal_id"}
                            [] q.area = "lifecycle" -> {"queued", "done"}
                            [] OTHER -> {"external_reference"}]}
================================================================================
