---------------------- MODULE DomainModelSpecification ----------------------
(***************************************************************************)
(* MODELS: what persists, the model contract                               *)
(* (domain_model_specification.py), the engine and the check of a          *)
(* candidate (domain_model_engine.py), and the model an approval resolves  *)
(* (model_approval.py).                                                    *)
(*                                                                         *)
(* An entity is named by the capabilities it owns.  An accepted value may  *)
(* spell out a field or a rule of the model: FieldOf and RuleOf say which. *)
(* Content rests on one such decision, or on an open question.             *)
(***************************************************************************)
EXTENDS ArchitectureSpecification

CONSTANTS
    FieldOf,     \* accepted value |-> the field it declares
    RuleOf,      \* accepted value |-> the constraint, access or relationship it declares
    Lifecycled,  \* capability values that speak of a build, of publishing, of a workflow
    Deleting     \* approved values that speak of deletion

FromComponent(id) == <<"component", id>>
FromAspect(x) == <<"aspect", x>>
FromChoice(d) == <<"choice", d>>
FromArchitecture == <<"architecture", "">>

ModelSources(a, choices) ==
    {FromArchitecture} \cup {FromComponent(c.id) : c \in a.components}
        \cup {FromAspect(x) : x \in a.aspects} \cup {FromChoice(d) : d \in choices}

(***************************************************************************)
(* What persists: what a storage boundary answers for, and integrations.   *)
(***************************************************************************)
StorageSources(a) ==
    UNION ({c.sources : c \in {d \in a.components : d.category = "storage"}}
              \cup {x.sources : x \in {y \in a.aspects : y.area = "storage"}})

PersistentIn(a, c) ==
    IF c.category = "adapter" THEN c.owned ELSE c.owned \cap StorageSources(a)

\* mutant: only services keep state
PersistentOwnersServices(a) ==
    {c \in a.components : c.category = "service" /\ PersistentIn(a, c) # {}}

PersistentOwners(a) ==
    {c \in a.components : c.category # "identity" /\ PersistentIn(a, c) # {}}

PersistentCapabilities(a) == UNION {PersistentIn(a, c) : c \in PersistentOwners(a)}

OwnersIn(a, owned) == {c \in a.components : c.owned \cap owned # {}}

(***************************************************************************)
(* The engine: one entity for each owner of state.                         *)
(***************************************************************************)
Ask(area, sources, affected) ==
    [area |-> area, sources |-> sources, affected |-> affected, blocking |-> TRUE]

StableIdentity(f) ==
    f.name = "id" /\ f.required /\ ~f.collection /\ ~f.mutable /\ f.unique
        /\ f.default = "none" /\ f.type \in {"uuid", "string", "integer", "external_reference"}

\* the identities decided for every capability of the owner
ApprovedIdentities(a, choices, c) ==
    UNION {{[field |-> FieldOf[v], evidence |-> FromChoice(d)] :
               v \in {w \in d.accepted \cap DOMAIN FieldOf : StableIdentity(FieldOf[w])}} :
           d \in {e \in choices : c.owned \subseteq e.sources}}

BaselineEntity(a, choices, c) ==
    LET identities == ApprovedIdentities(a, choices, c)
        identity == IF Cardinality(identities) = 1 THEN identities ELSE {}
    IN  [owned    |-> PersistentIn(a, c),
         owners   |-> {c.id},
         fields   |-> identity,
         identity |-> {f.field.name : f \in identity}]

OwnerQuestions(a, choices, c) ==
    LET entity == BaselineEntity(a, choices, c)
        AskOwner(area) == Ask(area, {FromComponent(c.id)}, {entity.owned})
    IN  {AskOwner(area) : area \in
            {"uniqueness", "lookup"}
              \cup (IF entity.identity = {} THEN {"identity"} ELSE {})
              \cup (IF c.category = "adapter" THEN {"external_reference"}
                    ELSE IF {s \in c.sources : s[1] = "plan" /\ s[2].value[1] \in Lifecycled} # {}
                    THEN {"lifecycle"} ELSE {})}

\* the texts of a constraint: of the plan items and the decisions it names
SpeaksOfDeletion(constraint) ==
    \E s \in constraint : IF s[1] = "plan" THEN s[2].value[1] \in Deleting
                          ELSE s[2].accepted \cap Deleting # {}

SharedQuestions(a) ==
    LET owners == PersistentOwners(a)
        everything == {PersistentIn(a, c) : c \in owners}
        sources == {FromComponent(c.id) : c \in owners}
        auth == {FromAspect(x) : x \in {y \in a.aspects : y.area = "authentication"}}
        Held(x) == {c \in owners : c.id \in x.components}
    IN  {Ask("principal_reference", auth \cup sources, everything) :
             y \in {1} \cap (IF auth = {} \/ owners = {} THEN {} ELSE {1})}
        \cup {Ask("retention", {FromAspect(x)} \cup {FromComponent(c.id) : c \in Held(x)},
                  {PersistentIn(a, c) : c \in Held(x)}) :
                 x \in {y \in a.aspects : /\ y.area = "storage"
                                          /\ \E k \in y.constraints : SpeaksOfDeletion(k)
                                          /\ Held(y) # {}}}
        \cup {Ask("relationship", sources, everything) :
                 y \in {1} \cap (IF Cardinality(owners) > 1 THEN {1} ELSE {})}
        \cup {Ask("field", {FromComponent(c.id)} \cup sources, everything) :
                 c \in {d \in a.components : /\ d.category = "service" /\ d.owned # {}
                                             /\ d.owned \cap PersistentCapabilities(a) = {}}}

BaselineModel(a, choices) ==
    LET owners == PersistentOwners(a) IN
    [entities  |-> {BaselineEntity(a, choices, c) : c \in owners},
     rules     |-> {},
     questions |-> SharedQuestions(a)
                      \cup UNION {OwnerQuestions(a, choices, c) : c \in owners}]

(***************************************************************************)
(* The contract.                                                           *)
(***************************************************************************)
Owning(m) == {e.owned : e \in m.entities}
AllOwned(m) == UNION Owning(m)

MayOwnState(a) ==
    UNION {c.owned : c \in {d \in a.components : d.category \in {"application", "service", "adapter"}}}

AskedAbout(m, area, e) ==
    \E q \in m.questions :
        /\ q.blocking /\ q.area = area /\ e.owned \in q.affected
        /\ {FromComponent(o) : o \in e.owners} \subseteq q.sources

\* a decision spells the content out alone, or a question of the model holds it open
Authorised(m, choices, evidence, declared, content, affected) ==
    \/ \E d \in choices, v \in DOMAIN declared :
          evidence = FromChoice(d) /\ d.accepted = {v} /\ declared[v] = content
    \/ \E q \in m.questions :
          evidence = <<"question", q>> /\ q.blocking /\ affected \subseteq q.affected

FieldSound(m, choices, e, f) ==
    /\ Authorised(m, choices, f.evidence, FieldOf, f.field, {e.owned})
    /\ f.evidence[1] = "question" => f.field.default = "none"
    /\ f.field.name \in e.identity =>
          /\ f.field.required /\ ~f.field.collection /\ ~f.field.mutable
          /\ f.field.type \in {"string", "integer", "uuid", "external_reference"}

EntitySound(a, choices, m, e) ==
    LET names == {f.field.name : f \in e.fields} IN
    /\ e.owned # {} /\ e.owners = {c.id : c \in OwnersIn(a, e.owned)}
    /\ ~(e.owned \subseteq PersistentCapabilities(a)) => AskedAbout(m, "lifecycle", e)
    /\ Cardinality(names) = Cardinality(e.fields)
    /\ e.identity \subseteq names
    /\ e.identity = {} => AskedAbout(m, "identity", e)
    /\ \A f \in e.fields : FieldSound(m, choices, e, f)
    /\ (\E c \in OwnersIn(a, e.owned) : c.category = "adapter") =>
          \/ \E f \in e.fields : f.field.type = "external_reference"
          \/ AskedAbout(m, "external_reference", e)

ModelContract(a, choices, m) ==
    /\ PersistentCapabilities(a) \subseteq AllOwned(m)
    /\ AllOwned(m) \subseteq MayOwnState(a)
    /\ \A e, f \in m.entities : e # f => e.owned \cap f.owned = {}
    /\ \A q \in m.questions :
          q.sources # {} /\ q.sources \subseteq ModelSources(a, choices) /\ q.affected \subseteq Owning(m)
    /\ \A e \in m.entities : EntitySound(a, choices, m, e)
    /\ \A r \in m.rules :
          /\ r.entities # {} /\ r.entities \subseteq Owning(m)
          /\ Authorised(m, choices, r.evidence, RuleOf, r.rule, r.entities)

(***************************************************************************)
(* A candidate: the same state in the same hands, every question kept once,*)
(* and content that is not decided rests on the question of its kind.      *)
(***************************************************************************)
AreasOf == [field |-> {"identity", "external_reference", "principal_reference",
                       "lifecycle", "retention", "field"},
            relationship |-> {"relationship"}, constraint |-> {"uniqueness"},
            access |-> {"lookup"}]

SameQuestion(p, q) ==
    /\ p.area = q.area /\ p.sources = q.sources /\ p.blocking = q.blocking
    /\ UNION p.affected = UNION q.affected

Rests(baseline, evidence, kind) ==
    evidence[1] = "question" =>
        /\ evidence[2].area \in AreasOf[kind]
        /\ \E q \in baseline.questions : SameQuestion(evidence[2], q)

ModelCandidate(a, choices, baseline, m) ==
    /\ ModelContract(a, choices, m)
    /\ AllOwned(m) = PersistentCapabilities(a)
    /\ \A e \in m.entities : Cardinality(e.owners) = 1
    /\ \A q \in baseline.questions :
          Cardinality({p \in m.questions : SameQuestion(p, q)}) = 1
    /\ \A e \in m.entities : \A f \in e.fields :
          /\ Rests(baseline, f.evidence, "field")
          /\ f.evidence[1] = "question" =>
                /\ f.evidence[2].area = "identity" => f.field.name \in e.identity
                /\ f.evidence[2].area \in {"lifecycle", "retention"} => f.field.type = "enum"
                /\ f.evidence[2].area \in {"external_reference", "principal_reference", "field"} =>
                      f.field.type = "external_reference"
    /\ \A r \in m.rules : Rests(baseline, r.evidence, r.rule.kind)

(***************************************************************************)
(* The answers a question takes, and the model an approval resolves: only  *)
(* what was decided, and the claims of the answers.                        *)
(***************************************************************************)
\* an answer claims something about each entity the question affects
Answerable(q) == q.affected # {}

ClaimsOf(q, values) ==
    IF q.area = "field" THEN {[area |-> q.area, entity |-> CHOOSE o \in q.affected : TRUE,
                               values |-> values, sources |-> q.sources]}
    ELSE {[area |-> q.area, entity |-> o, values |-> values, sources |-> q.sources] : o \in q.affected}

IsDecided(evidence) == evidence[1] # "question"

ResolvedEntity(e) ==
    LET fixed == {f \in e.fields : IsDecided(f.evidence)} IN
    [owned |-> e.owned, fields |-> fixed,
     identity |-> e.identity \cap {f.field.name : f \in fixed}]

ResolvedModel(m, claims) ==
    [entities |-> {ResolvedEntity(e) : e \in m.entities},
     rules    |-> {r \in m.rules : IsDecided(r.evidence)},
     claims   |-> claims]

ModelApprovable(resolved) ==
    \A e \in resolved.entities :
        /\ e.identity # {} \/ \E c \in resolved.claims : c.area = "identity" /\ c.entity = e.owned
        /\ \A r \in resolved.rules :
              e.owned \in r.entities /\ r.rule.kind # "relationship" =>
                  r.rule.fields \subseteq {f.field.name : f \in e.fields}
=============================================================================
