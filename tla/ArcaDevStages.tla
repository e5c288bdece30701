------------------------ MODULE ArcaDevStages ------------------------
(***************************************************************************)
(* What the finalizations of the four ArcaDev stages (arcadev/*_clarifica- *)
(* tion.py) have in common.  A finalization is an immutable value: the     *)
(* decisions taken on the open questions of a specification, the conflicts *)
(* that are active, and the history of every answer tried.  Resolving an   *)
(* answer makes the next value; its identity is the digest of everything,  *)
(* so here a finalization is its own identity.                             *)
(*                                                                         *)
(* An answer is its question, its normalized values (one model value       *)
(* stands for the tuple), the wording of the text they are quoted from,    *)
(* and the prior values it claims to replace: None for the action ANSWER,  *)
(* since only REPLACE_DECISION has, and must have, prior values.  The      *)
(* order of the history is left out: nothing is decided by it.             *)
(***************************************************************************)
EXTENDS Naturals, FiniteSets

CONSTANTS
    Questions,      \* the open questions of all four specifications
    Blocking,       \* those that are not advisory
    Values,         \* tuples of normalized values
    Wordings,       \* texts of answers
    Plain,          \* a text that removes or replaces nothing
    Destructive,    \* texts that remove or replace frozen authority
    Contradicting,  \* values whose category tag contradicts frozen authority
    None,           \* no decision, no prior values
    MaxHistory,     \* MAX_*_HISTORY, 256 in every stage
    Inputs          \* the answers that are tried

ASSUME FinalizationAssumption ==
    /\ Blocking \subseteq Questions
    /\ Plain \in Wordings /\ Destructive \subseteq Wordings \ {Plain}
    /\ Contradicting \subseteq Values
    /\ None \notin Values
    /\ MaxHistory \in Nat

Decisions == [Questions -> Values \cup {None}]

Answers == [question : Questions, value : Values, wording : Wordings,
            prior : Values \cup {None}]

ASSUME InputsAssumption == Inputs \subseteq Answers

Finalizations ==
    [decisions : Decisions, conflicts : SUBSET Questions,
     attempts : SUBSET Inputs, length : 0..MaxHistory]

Start ==
    [decisions |-> [q \in Questions |-> None], conflicts |-> {},
     attempts |-> {}, length |-> 0]

Previous(f, a) == f.decisions[a.question]

\* ANSWER is for an unresolved question, REPLACE_DECISION for a decided one
ActionFits(f, a) == (a.prior = None) <=> (Previous(f, a) = None)

\* a conflict stands in for an earlier one of its question; decisions stay
Refuse(f, a) ==
    [f EXCEPT !.conflicts = @ \cup {a.question},
              !.attempts = @ \cup {a}, !.length = @ + 1]

\* the question is decided and only its own conflict is withdrawn
Accept(f, a) ==
    [f EXCEPT !.decisions[a.question] = a.value,
              !.conflicts = @ \ {a.question},
              !.attempts = @ \cup {a}, !.length = @ + 1]

Decided(f) == {q \in Questions : f.decisions[q] # None}

\* effective readiness of a specification without structural blockers
Ready(f, asked) == asked \cap Blocking \subseteq Decided(f) /\ f.conflicts = {}
-----------------------------------------------------------------------------
(***************************************************************************)
(* PLAN: clarification, consistency and approval.                          *)
(***************************************************************************)
CONSTANTS
    PlanQuestions,
    ScopeBreaking   \* values that include or exclude a capability against the plan

ASSUME PlanAssumption == PlanQuestions \subseteq Questions /\ ScopeBreaking \subseteq Values

PlanResolvable(f, a) ==
    /\ f.length < MaxHistory
    /\ a.question \in PlanQuestions
    /\ ActionFits(f, a)

\* the frozen IDEA is asked first, then the exact prior values
PlanConflict(f, a) == a.value \in Contradicting \/ a.prior # Previous(f, a)

PlanResolve(f, a) == IF PlanConflict(f, a) THEN Refuse(f, a) ELSE Accept(f, a)

PlanReady(f) == Ready(f, PlanQuestions)

ScopeConflicts(f) == {q \in PlanQuestions : f.decisions[q] \in ScopeBreaking}

\* one finding per scope conflict, all with the same code and fields; the
\* evaluation refuses duplicate findings, and without it there is no decision
PlanEvaluable(f) == Cardinality(ScopeConflicts(f)) <= 1

PlanEligible(f) ==
    /\ PlanReady(f)
    /\ PlanQuestions \subseteq Decided(f)
    /\ ScopeConflicts(f) = {}

PlanHandoffGate(f) == PlanReady(f) /\ PlanQuestions \subseteq Decided(f)
-----------------------------------------------------------------------------
(***************************************************************************)
(* ARCHITECTURE: clarification, consistency and approval.                  *)
(***************************************************************************)
CONSTANTS
    ArchitectureQuestions,
    Scope,        \* area and PLAN sources of a question
    Fold,         \* the case-folded values
    ForeignArea   \* <<question, value>>: the value is tagged with another area

ASSUME ArchitectureAssumption == ArchitectureQuestions \subseteq Questions

\* one decision governs an area and its sources: a second must say the same
ArchitectureClash(q, v, r, w) == Scope[q] = Scope[r] /\ Fold[v] # Fold[w]

ArchitectureAuthorityConflict(a) ==
    a.value \in Contradicting \/ a.wording \in Destructive

\* mutant: only the question itself is looked at
ArchitectureDecisionConflictOwn(f, a) == <<a.question, a.value>> \in ForeignArea

ArchitectureDecisionConflict(f, a) ==
    \/ \E r \in Decided(f) \ {a.question} :
          ArchitectureClash(a.question, a.value, r, f.decisions[r])
    \/ <<a.question, a.value>> \in ForeignArea

ArchitectureConflict(f, a) ==
    \/ ArchitectureAuthorityConflict(a)
    \/ a.prior # Previous(f, a)
    \/ ArchitectureDecisionConflict(f, a)

\* duplicate attempts and replacements that change nothing are refused
ArchitectureResolvable(f, a) ==
    /\ f.length < MaxHistory
    /\ a.question \in ArchitectureQuestions
    /\ a \notin f.attempts
    /\ ActionFits(f, a)
    /\ ArchitectureConflict(f, a) \/ a.value # Previous(f, a)

ArchitectureResolve(f, a) ==
    IF ArchitectureConflict(f, a) THEN Refuse(f, a) ELSE Accept(f, a)

ArchitectureReady(f) == Ready(f, ArchitectureQuestions)

\* advisory questions may stay open in an approval, but not in a handoff
ArchitectureEligible(f) == ArchitectureReady(f)

\* mutant: the gate of the approval is good enough
ArchitectureHandoffGateReady(f) == ArchitectureReady(f)

ArchitectureHandoffGate(f) ==
    ArchitectureReady(f) /\ ArchitectureQuestions \subseteq Decided(f)
-----------------------------------------------------------------------------
(***************************************************************************)
(* MODELS: clarification, consistency and approval.  An accepted value     *)
(* stands for claims about entities: a slot, one or two entities, values.  *)
(***************************************************************************)
CONSTANTS
    ModelQuestions,
    ModelClaims,     \* ModelClaims[q, v]: claims of a supported choice, else {}
    Independent,     \* the values of a claim that there is no relationship
    Mirror,          \* the same relationship read from its other end
    FrozenModelClash, \* <<question, value>>: contradicts the frozen specification
    Unidentified     \* the entities without an approved identity

ASSUME ModelAssumption == ModelQuestions \subseteq Questions

Ends(c) == {c.entity, c.related} \ {None}

SameChoice(c, d) == c.slot = d.slot /\ c.entity = d.entity /\ c.related = d.related

\* two claims on one choice, or a relationship with an independent entity
ClaimsClash(c, d) ==
    \/ SameChoice(c, d) /\ c.values # d.values
    \/ /\ c.slot = "relationship" /\ d.slot = "relationship"
       /\ Ends(c) \cap Ends(d) # {}
       /\ (c.values = Independent) # (d.values = Independent)

ModelClash(q, v, r, w) ==
    \E c \in ModelClaims[q, v], d \in ModelClaims[r, w] : ClaimsClash(c, d)

ModelDecisionConflict(f, a) ==
    \E r \in Decided(f) \ {a.question} :
        ModelClash(a.question, a.value, r, f.decisions[r])

ModelConflict(f, a) ==
    \/ a.wording \in Destructive
    \/ ModelClaims[a.question, a.value] = {}
    \/ a.prior # Previous(f, a)
    \/ ModelDecisionConflict(f, a)

ModelResolvable(f, a) ==
    /\ f.length < MaxHistory
    /\ a.question \in ModelQuestions
    /\ a \notin f.attempts
    /\ ActionFits(f, a)
    /\ ModelConflict(f, a) \/ a.value # Previous(f, a)

\* mutant: an accepted answer withdraws every conflict
ModelResolveAllClear(f, a) ==
    IF ModelConflict(f, a) THEN Refuse(f, a)
                           ELSE [Accept(f, a) EXCEPT !.conflicts = {}]

ModelResolve(f, a) == IF ModelConflict(f, a) THEN Refuse(f, a) ELSE Accept(f, a)

ModelReady(f) == Ready(f, ModelQuestions)

AcceptedClaims(f) ==
    UNION {ModelClaims[q, f.decisions[q]] : q \in ModelQuestions \cap Decided(f)}

\* the same edge, whichever end it is read from
EdgeDisagreement(c, d) ==
    /\ c.slot = "relationship" /\ d.slot = "relationship"
    /\ c.related # None /\ d.related # None
    /\ \/ c.entity = d.entity /\ c.related = d.related /\ c.values # d.values
       \/ c.entity = d.related /\ c.related = d.entity /\ c.values # Mirror[d.values]

ModelConsistent(f) ==
    /\ \A c, d \in AcceptedClaims(f) : ~EdgeDisagreement(c, d)
    /\ \A q \in ModelQuestions : <<q, f.decisions[q]>> \notin FrozenModelClash
    /\ \A e \in Unidentified :
          \E c \in AcceptedClaims(f) : c.slot = "identity" /\ c.entity = e

ModelEligible(f) == ModelReady(f) /\ ModelConsistent(f)

ModelHandoffGate(f) ==
    ModelReady(f) /\ ModelConsistent(f) /\ ModelQuestions \subseteq Decided(f)
-----------------------------------------------------------------------------
(***************************************************************************)
(* BACKEND: clarification and approval.  An accepted value selects a named *)
(* profile, which claims one slot over operations, model state and         *)
(* components; the first of these that both claims have decides whether    *)
(* they overlap.                                                           *)
(***************************************************************************)
CONSTANTS
    BackendQuestions,
    BackendClaims   \* BackendClaims[q, v]: the claim of a certified profile, else {}

ASSUME BackendAssumption == BackendQuestions \subseteq Questions

Axes == <<"operations", "models", "components">>

Shared(c, d, i) == c[Axes[i]] # {} /\ d[Axes[i]] # {}

\* only the first axis that both claims have is compared
Overlap(c, d) ==
    \E i \in 1..3 :
        /\ Shared(c, d, i)
        /\ \A j \in 1..3 : j < i => ~Shared(c, d, j)
        /\ c[Axes[i]] \cap d[Axes[i]] # {}

BackendClash(q, v, r, w) ==
    \E c \in BackendClaims[q, v], d \in BackendClaims[r, w] :
        c.slot = d.slot /\ c.values # d.values /\ Overlap(c, d)

BackendDecisionConflict(f, a) ==
    \E r \in Decided(f) \ {a.question} :
        BackendClash(a.question, a.value, r, f.decisions[r])

BackendConflict(f, a) ==
    \/ a.wording \in Destructive
    \/ BackendClaims[a.question, a.value] = {}
    \/ a.prior # Previous(f, a)
    \/ BackendDecisionConflict(f, a)

BackendResolvable(f, a) ==
    /\ f.length < MaxHistory
    /\ a.question \in BackendQuestions
    /\ a \notin f.attempts
    /\ ActionFits(f, a)
    /\ BackendConflict(f, a) \/ a.value # Previous(f, a)

BackendResolve(f, a) == IF BackendConflict(f, a) THEN Refuse(f, a) ELSE Accept(f, a)

\* the approval asks for readiness, which asks for the blocking questions only
BackendEligible(f) == Ready(f, BackendQuestions)
=============================================================================
