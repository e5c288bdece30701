----------------------------- MODULE ModelAmendment -----------------------------
(***************************************************************************)
(* Amending an approved model: its accepted claims say that an identity, a *)
(* lifecycle or a reference exists, and a user declares the field for each *)
(* (model_amendment_request.py, model_amendment_answer.py,                 *)
(* model_amendment_finalization.py); the approved revision                 *)
(* (approved_domain_model_revision.py) supersedes what was built on the    *)
(* model it amends (downstream_authority_invalidation.py).                 *)
(*                                                                         *)
(* Everything is a value: whoever holds a finalization may answer it, keep *)
(* it or pass it on, so amendments of one model branch freely, and nothing *)
(* that one branch does is seen by another.  One branch is followed, to    *)
(* its first revision, which no amendment takes for a parent.              *)
(***************************************************************************)
EXTENDS Naturals, FiniteSets

CONSTANTS
    Parents,       \* approved models
    Declarations,  \* the fields that users and adapters declare
    Downstream,    \* what was made from the approved models
    Norm,          \* name |-> the name names are compared by
    Credentials,   \* names that speak of a secret
    Executable,    \* names and values that look like something to execute
    Proposed       \* the declarations an adapter proposes

None == "none"               \* no value domain
Nothing == [kind |-> "none"]

ASSUME ExecutableAssumption == None \notin Executable

(***************************************************************************)
(* A claim that the clarification of a model accepts                       *)
(* (model_clarification.py), and a model that could be approved.           *)
(***************************************************************************)
ExternalNames == {"external_id", "repository_id", "repository_node_id"}

ClaimAccepted(c) ==
    CASE c.slot = "identity" ->
           \E t \in {"uuid", "string", "integer", "external_reference"} : c.values = {t}
      [] c.slot = "principal_reference" -> c.values = {"external_principal_id"}
      [] c.slot = "external_reference" ->
           \E n \in ExternalNames, t \in {"string", "integer", "external_reference"} :
              c.values = {n, t}
      [] c.slot \in {"lifecycle", "retention"} -> Cardinality(c.values) \in 2..64
      [] c.slot = "field" -> c.values = {"outcome_reference", "external_reference"}
      [] c.slot = "uniqueness" -> c.values = {"identity_only"}
      [] c.slot = "lookup" -> c.values = {"identity"}
      [] OTHER -> c.slot = "relationship"

EntityRecord(e) ==
    e = [id |-> e.id, fields |-> e.fields, identity |-> e.identity, lifecycle |-> e.lifecycle, choices |-> e.choices]

ParentSound(p) ==
    /\ p = [id |-> p.id, domains |-> p.domains, entities |-> p.entities] 
    /\ IsFiniteSet(p.domains) /\ \A d \in p.domains : d.name # None
    /\ \A e, g \in p.entities : e.id = g.id => e = g
    /\ \A e \in p.entities :
          /\ EntityRecord(e) /\ IsFiniteSet(e.fields)
          /\ \A c \in e.choices : ClaimAccepted(c)
          /\ e.identity \subseteq {f.name : f \in e.fields}
          /\ e.identity # {} \/ \E c \in e.choices : c.slot = "identity"
          /\ \A f, g \in e.fields : Norm[f.name] = Norm[g.name] => f = g
          /\ e.lifecycle \cup ({f.domain : f \in e.fields} \ {None}) \subseteq {d.name : d \in p.domains}
    /\ \A d, g \in p.domains : Norm[d.name] = Norm[g.name] => d = g

ASSUME ParentsAssumption == \A p \in Parents : ParentSound(p)

(***************************************************************************)
(* The questions: every claim that no approved field stands for.           *)
(***************************************************************************)
References == {"principal_reference", "external_reference", "field"}

Materialised(e, c) ==
    \/ c.slot = "identity" /\ e.identity # {}
    \/ c.slot = "lifecycle" /\ \E f \in e.fields : f.domain \in e.lifecycle
    \/ c.slot \in References /\ \E f \in e.fields : f.name \in c.values /\ f.sources = c.sources

Questions(p) ==
    UNION {{[entity |-> e.id, choice |-> c] :
              c \in {d \in e.choices : /\ d.slot \in References \cup {"identity", "lifecycle"}
                                       /\ ~Materialised(e, d)}} : e \in p.entities}

(***************************************************************************)
(* A declaration is complete, and says no more than the claim accepted.    *)
(***************************************************************************)
Inert(texts) == texts \cap Executable = {}

DeclarationSound(d) ==
    /\ Inert({d.name, d.domain} \cup d.values)
    /\ d.name \notin Credentials
    /\ (d.type = "enum") = (d.values # {})
    /\ (d.values # {}) = (d.domain # None)

FitsIdentity(d, c) ==
    /\ c.values = {d.type}
    /\ d.required /\ ~d.collection /\ ~d.mutable /\ d.unique /\ d.domain = None
    /\ d.type = "external_reference" => d.external

FitsLifecycle(d, c) ==
    d.type = "enum" /\ d.values = c.values /\ ~d.collection /\ ~d.external /\ ~d.unique

\* mutant: the type must be the only value of the claim, as it is for an identity
FitsReferenceAlone(d, c) ==
    /\ ~d.collection /\ d.external /\ ~d.unique
    /\ IF c.slot = "principal_reference" THEN d.type \in {"string", "external_reference"}
       ELSE c.values = {d.type}

FitsReference(d, c) ==
    /\ ~d.collection /\ d.external /\ ~d.unique
    /\ IF c.slot = "principal_reference" THEN d.type \in {"string", "external_reference"}
       ELSE d.type \in c.values

\* a declaration repeats the claim it answers, and is inert with it
Fits(d, q) ==
    /\ DeclarationSound(d) /\ Inert(q.choice.values)
    /\ CASE q.choice.slot = "identity"  -> FitsIdentity(d, q.choice)
         [] q.choice.slot = "lifecycle" -> FitsLifecycle(d, q.choice)
         [] OTHER -> FitsReference(d, q.choice)

(***************************************************************************)
(* A finalization: the declarations accepted so far.                       *)
(***************************************************************************)
Unresolved(f) == Questions(f.parent) \ {d.question : d \in f.decisions}

EntityIn(p, id) == CHOOSE e \in p.entities : e.id = id

NamesOfEntity(f, id) ==
    {x.name : x \in EntityIn(f.parent, id).fields}
        \cup {d.field.name : d \in {g \in f.decisions : g.question.entity = id}}

DomainNames(f) ==
    ({d.name : d \in f.parent.domains} \cup {d.field.domain : d \in f.decisions}) \ {None}

\* mutant: what earlier answers named is not looked at
NoCollisionsWithParent(f, q, d) ==
    /\ Norm[d.name] \notin {Norm[x.name] : x \in EntityIn(f.parent, q.entity).fields}
    /\ d.domain # None => Norm[d.domain] \notin {Norm[x.name] : x \in f.parent.domains}

NoCollisions(f, q, d) ==
    /\ Norm[d.name] \notin {Norm[n] : n \in NamesOfEntity(f, q.entity)}
    /\ d.domain # None => Norm[d.domain] \notin {Norm[n] : n \in DomainNames(f)}

AcceptsDeclaration(f, q, d) == Fits(d, q) /\ NoCollisions(f, q, d)

Materialise(q, d) ==
    [name |-> d.name, type |-> d.type, required |-> d.required, collection |-> d.collection,
     mutable |-> d.mutable, unique |-> d.unique, domain |-> d.domain, sources |-> q.choice.sources]

(***************************************************************************)
(* The revised model, and what keeps it from being approved.               *)
(***************************************************************************)
RevisedEntity(f, e) ==
    LET mine == {d \in f.decisions : d.question.entity = e.id}
        Of(slot) == {d.field : d \in {g \in mine : g.question.choice.slot = slot}}
    IN  [e EXCEPT !.fields    = @ \cup {Materialise(d.question, d.field) : d \in mine},
                  !.identity  = @ \cup {x.name : x \in Of("identity")},
                  !.lifecycle = @ \cup {x.domain : x \in Of("lifecycle")}]

Revised(f) ==
    [f.parent EXCEPT !.entities = {RevisedEntity(f, e) : e \in @},
                     !.domains = @ \cup {[name |-> d.field.domain, values |-> d.field.values] :
                                            d \in {g \in f.decisions : g.field.domain # None}}]

Consistent(f) ==
    LET revised == Revised(f)
        domains == {d.name : d \in revised.domains}
    IN  /\ Unresolved(f) = {} /\ f.decisions # {}
        /\ \A e \in revised.entities :
              /\ e.identity # {} /\ e.identity \subseteq {x.name : x \in e.fields}
              /\ e.lifecycle \subseteq domains
              /\ \A x \in e.fields : x.domain # None => x.domain \in domains

(***************************************************************************)
(* What a revision makes stale: the authorities that a caller supplies,    *)
(* each the one that the next is made from, back to the amended model.     *)
(***************************************************************************)
AuthorityKinds == {"handoff", "specification", "finalization", "approved", "request", "run"}

Of(kind, x) == IF x = Nothing THEN Nothing ELSE x[kind]

\* what is supplied, and the authority it is or is contained in
LoadedRun(s) == s["run"]
LoadedRequest(s) == IF LoadedRun(s) # Nothing THEN Of("request", LoadedRun(s)) ELSE s["request"]
LoadedApproved(s) ==
    IF LoadedRequest(s) # Nothing THEN Of("approved", LoadedRequest(s)) ELSE s["approved"]
LoadedHandoff(s) ==
    IF LoadedApproved(s) # Nothing THEN Of("handoff", LoadedApproved(s)) ELSE s["handoff"]
LoadedFinalization(s) ==
    IF LoadedApproved(s) # Nothing THEN Of("finalization", LoadedApproved(s)) ELSE s["finalization"]
LoadedSpecification(s) ==
    IF LoadedFinalization(s) # Nothing THEN Of("specification", LoadedFinalization(s))
    ELSE s["specification"]

Loaded(s) ==
    [k \in AuthorityKinds |-> CASE k = "run" -> LoadedRun(s)
                       [] k = "request" -> LoadedRequest(s)
                       [] k = "approved" -> LoadedApproved(s)
                       [] k = "handoff" -> LoadedHandoff(s)
                       [] k = "finalization" -> LoadedFinalization(s)
                       [] OTHER -> LoadedSpecification(s)]

Supersedes(parent, s) ==
    /\ \A k \in AuthorityKinds : s[k] # Nothing => s[k] = Loaded(s)[k]
    /\ LoadedHandoff(s) # Nothing => LoadedHandoff(s).parent = parent.id
    /\ LoadedHandoff(s) = Nothing => s["finalization"] = Nothing /\ s["specification"] = Nothing
    /\ \A k \in {"finalization", "specification"} :
          s[k] # Nothing => s[k].handoff = LoadedHandoff(s)

-----------------------------------------------------------------------------
VARIABLES
    held,          \* the finalization as answered so far
    revision,      \* the approved revision, with the finalization it is of
    invalidation   \* what the revision was said to make stale

amendmentVars == <<held, revision, invalidation>>

AmendmentInit == held = Nothing /\ revision = Nothing /\ invalidation = Nothing

\* a request may carry proposals: they are checked, and decide nothing
StartFor(p, candidates) == [parent |-> p, candidates |-> candidates, decisions |-> {}]

AmendmentCandidates(p) ==
    {{}} \cup {{[question |-> r[1], field |-> r[2]]} :
        r \in {x \in Questions(p) \X Proposed : Fits(x[2], x[1])}}

StartAmendment ==
    /\ revision = Nothing
    /\ \E p \in Parents : \E candidates \in AmendmentCandidates(p) : held' = StartFor(p, candidates)
    /\ UNCHANGED <<revision, invalidation>>

\* an answer is given on a finalization and resolves a question that is open in it
Resolve ==
    /\ held # Nothing /\ revision = Nothing
    /\ \E q \in Unresolved(held) : \E d \in {x \in Declarations : AcceptsDeclaration(held, q, x)} :
          held' = [held EXCEPT !.decisions = @ \cup {[question |-> q, field |-> d]}]
    /\ UNCHANGED <<revision, invalidation>>

\* a rejection is a record of its own, and changes nothing here
Approve ==
    /\ revision = Nothing
    /\ held \in {f \in {held} : f # Nothing /\ Consistent(f)}
    /\ revision' = [finalization |-> held, model |-> Revised(held)]
    /\ UNCHANGED <<held, invalidation>>

Supplied(kind) == {x \in Downstream : x.kind = kind} \cup {Nothing}

Supplies ==
    [handoff : Supplied("handoff"), specification : Supplied("specification"),
     finalization : Supplied("finalization"), approved : Supplied("approved"),
     request : Supplied("request"), run : Supplied("run")]

Invalidate ==
    /\ revision # Nothing /\ invalidation = Nothing
    /\ \E s \in {x \in Supplies : Supersedes(revision.finalization.parent, x)} :
          invalidation' = s
    /\ UNCHANGED <<held, revision>>

AmendmentNext == StartAmendment \/ Resolve \/ Approve \/ Invalidate

-----------------------------------------------------------------------------
\* Of the claims that the clarification of a model accepts, only one with a state
\* label that looks executable (the amendment refuses it, the clarification does
\* not) leaves a question nobody can answer; whatever else was claimed and
\* answered, there is a declaration for each open question, and what is answered
\* to the end can be approved.
NeverStuck ==
    held # Nothing =>
        /\ \A q \in Unresolved(held) :
              Inert(q.choice.values) => \E d \in Declarations : AcceptsDeclaration(held, q, d)
        /\ Unresolved(held) = {} /\ Questions(held.parent) # {} => Consistent(held)

\* A revision is its parent and, for each open claim, one field that a user
\* declared: nothing of the parent changes, no two fields of an entity and no two
\* domains share a name, and every entity has an identity that identifies.
RevisionKeepsParent ==
    revision # Nothing =>
        LET parent == revision.finalization.parent IN
        /\ parent.domains \subseteq revision.model.domains
        /\ \A d, g \in revision.model.domains : Norm[d.name] = Norm[g.name] => d = g
        /\ \A e \in parent.entities :
              LET revised == EntityIn(revision.model, e.id)
                  added == revised.fields \ e.fields
              IN  /\ e.fields \subseteq revised.fields
                  /\ e.identity # {} => revised.identity = e.identity
                  /\ revised.choices = e.choices
                  /\ Cardinality(added) = Cardinality({q \in Questions(parent) : q.entity = e.id})
                  /\ \A f, g \in revised.fields : Norm[f.name] = Norm[g.name] => f = g
                  /\ \A f \in added : f.unique <=> f.name \in revised.identity

=============================================================================
