------------------------- MODULE IdeaClarification -------------------------
(***************************************************************************)
(* The IDEA stage of ArcaDev (arcadev/idea_intake.py, clarification.py and *)
(* idea_plan_handoff.py): a normalised idea, the answers that settle its   *)
(* open questions, the conflicts they raise and the gate that hands the    *)
(* idea to PLAN.  A value is a model value; quotes, evidence and texts are *)
(* left out.  An answer may have been prepared against any earlier state   *)
(* of the session and be submitted in a later one.                         *)
(***************************************************************************)
EXTENDS Naturals, Sequences, FiniteSets

CONSTANTS
    Requirements,   \* the fields of an intake that PLAN requires
    Values,         \* what a field may hold
    Choices,        \* [Requirements -> sets of Values a user may answer with]
    Assumptions,    \* tentative readings of the request
    NoneStated,     \* what the rules write for "no authentication", "no
                    \* external integrations"
    NoneBlocking,   \* the wordings of "none" that the PLAN gate knows
    Compatible,     \* [project types with a platform rule -> sets of Values]
    Managed, SelfHosted,    \* deployment values
    MaxHistory      \* bound: answers recorded (MAX_RESOLUTION_HISTORY)

Scalars == {"proposed_project_name", "project_type",
            "product_description", "primary_goal"} \cap Requirements
Refinable == {"target_users", "authentication_requirements"} \cap Requirements

ASSUME IdeaAssumption ==
    /\ Choices \in [Requirements -> SUBSET (SUBSET Values)]
    /\ MaxHistory \in Nat
    /\ DOMAIN Compatible \subseteq Values

VARIABLES
    initial,        \* the values and assumptions of the initial intake
    values,         \* the values each requirement holds
    derived,        \* those of them the rules derived, not the user's words
    open,           \* requirements with an unresolved blocking question
    assumptions,    \* assumptions not yet confirmed, rejected or replaced
    conflicts,      \* active IntentConflicts
    history,        \* ClarificationHistoryEntries, oldest first
    project,        \* the session the latest ArcaDevProject was made from
    handoff         \* the latest IdeaPlanHandoff and the idea it froze

intake == <<values, derived, open, assumptions>>
session == <<intake, conflicts, history>>
vars == <<initial, session, project, handoff>>

Actions == {"answer", "refine", "confirm", "reject", "replace_assumption",
            "replace_explicit"}

(* What ClarificationAnswer.create accepts.  "target" stands for the       *)
(* identity of the intake the user looked at: each answer is appended to   *)
(* the transcript, so no two states of one session have the same identity. *)
(* "expected" is what the user says the field holds.                       *)
Forms(r, actions, proposals, expectations, about) ==
    [requirement : {r}, action : actions, proposed : proposals,
     expected : expectations, assumption : about, target : 0..Len(history)]

Answers(r) ==
    LET named == {{x} : x \in Assumptions}
    IN  Forms(r, {"answer"}, Choices[r], {{}}, {{}})
        \cup Forms(r, {"confirm", "replace_assumption"}, Choices[r], {{}}, named)
        \cup Forms(r, {"reject"}, {{}}, {{}}, named)
        \cup Forms(r, {"replace_explicit"}, Choices[r], Choices[r], {{}})
        \cup {a \in Forms(r, {"refine"}, Choices[r], Choices[r], {{}}) :
                 r \in Refinable /\ a.proposed # a.expected}

\* What the intake an answer targets held for its requirement.
Seen(a) == IF a.target = Len(history) THEN values[a.requirement]
           ELSE history[a.target + 1].before[a.requirement]
-----------------------------------------------------------------------------
\* An intake is ready when nothing is missing, open or merely assumed.
Missing == {r \in Requirements : values[r] = {}}
Ready == Missing = {} /\ open = {} /\ assumptions = {}

Held(r) == IF r \in Requirements THEN values[r] ELSE {}

\* The deterministic rules that block the way to PLAN.
NoneAndSome(nones, vs) == vs \cap nones # {} /\ Cardinality(vs) > 1
Misplaced(type, platforms) ==
    /\ type \in DOMAIN Compatible
    /\ platforms # {}
    /\ platforms \cap Compatible[type] = {}
Consistent ==
    /\ \A type \in Held("project_type") :
           ~Misplaced(type, Held("platform_targets"))
    /\ ~NoneAndSome(NoneBlocking, Held("authentication_requirements"))
    /\ ~NoneAndSome(NoneBlocking, Held("integration_requirements"))
    /\ ~(/\ Held("deployment_requirements") \cap Managed # {}
         /\ Held("deployment_requirements") \cap SelfHosted # {})

\* What normalize_idea leaves open: what is missing, an inferred project
\* name, and "none" stated together with something.
NameInferred == /\ "proposed_project_name" \in Requirements
                /\ values["proposed_project_name"] # {}
                /\ derived["proposed_project_name"]
                       = values["proposed_project_name"]
Questionable ==
    Missing
    \cup {r \in {"authentication_requirements", "integration_requirements"}
                  \cap Requirements : NoneAndSome(NoneStated, values[r])}
Normalized ==
    \/ /\ ~NameInferred
       /\ open = Questionable
       /\ assumptions = {}
    \/ /\ NameInferred
       /\ open = Questionable \cup {"proposed_project_name"}
       /\ Cardinality(assumptions) = 1

Init ==
    /\ values \in [Requirements -> {{}} \cup UNION {Choices[r] : r \in Requirements}]
    /\ \A r \in Requirements : values[r] \in {{}} \cup Choices[r]
    /\ \A r \in Scalars : Cardinality(values[r]) < 2
    /\ derived \in [Requirements -> {{}} \cup {values[r] : r \in Requirements}]
    /\ \A r \in Requirements : derived[r] \in {{}, values[r]}
    /\ open \in SUBSET Requirements
    /\ assumptions \in SUBSET Assumptions
    /\ Normalized
    /\ initial = [values |-> values, assumptions |-> assumptions]
    /\ conflicts = {}
    /\ history = <<>>
    /\ project = {}
    /\ handoff = {}
-----------------------------------------------------------------------------
Contested(r) == {c \in conflicts : c.requirement = r}

\* Every resolution starts with these checks and ends in a history entry.
CurrentAnyTarget(a) == Len(history) < MaxHistory
Current(a) == a.target = Len(history) /\ Len(history) < MaxHistory

Record(a, outcome) ==
    history' = Append(history,
        [requirement |-> a.requirement, action |-> a.action,
         assumption |-> a.assumption, outcome |-> outcome,
         before |-> values, seen |-> Seen(a),
         accepted |-> IF outcome = "accepted" THEN a.proposed ELSE {},
         rejected |-> IF outcome = "conflict" THEN a.proposed ELSE {}])

\* _set_requirement: the answer's values, all of them in the user's words.
Settable(a) == a.requirement \in Scalars => Cardinality(a.proposed) = 1
Settle(a) ==
    /\ Settable(a)
    /\ values' = [values EXCEPT ![a.requirement] = a.proposed]
    /\ derived' = [derived EXCEPT ![a.requirement] = {}]
    /\ open' = open \ {a.requirement}

NamesAssumption(a) == a.requirement \in open /\ a.assumption \subseteq assumptions

RejectAssumption(a) ==
    /\ a.action = "reject"
    /\ Current(a)
    /\ NamesAssumption(a)
    /\ assumptions' = assumptions \ a.assumption
    /\ IF derived[a.requirement] = values[a.requirement]
       THEN /\ values' = [values EXCEPT ![a.requirement] = {}]
            /\ derived' = [derived EXCEPT ![a.requirement] = {}]
       ELSE UNCHANGED <<values, derived>>
    /\ Record(a, "accepted")
    /\ UNCHANGED <<open, conflicts>>

AdoptAssumption(a) ==
    /\ a.action \in {"confirm", "replace_assumption"}
    /\ Current(a)
    /\ NamesAssumption(a)
    /\ a.action = "confirm" => a.proposed = values[a.requirement]
    /\ assumptions' = assumptions \ a.assumption
    /\ Settle(a)
    /\ Record(a, "accepted")
    /\ UNCHANGED conflicts

RefineExplicit(a) ==
    /\ a.action = "refine"
    /\ Current(a)
    /\ a.requirement \in open
    /\ Contested(a.requirement) = {}
    /\ assumptions = {}
    /\ values[a.requirement] # {}
    /\ derived[a.requirement] = {}
    /\ a.expected = values[a.requirement]
    /\ Settle(a)
    /\ Record(a, "accepted")
    /\ UNCHANGED <<assumptions, conflicts>>

ReplaceExplicit(a) ==
    /\ a.action = "replace_explicit"
    /\ Current(a)
    /\ a.requirement \in open
    /\ Cardinality(Contested(a.requirement)) = 1
    /\ a.expected = values[a.requirement]
    /\ Settle(a)
    /\ conflicts' = conflicts \ Contested(a.requirement)
    /\ Record(a, "accepted")
    /\ UNCHANGED assumptions

\* The checks every plain answer passes first.
Plain(a) ==
    /\ a.action = "answer"
    /\ Current(a)
    /\ Contested(a.requirement) = {}
    /\ ~(/\ values[a.requirement] # {}
         /\ assumptions # {}
         /\ a.requirement \in open)

RaiseConflict(a) ==
    /\ Plain(a)
    /\ values[a.requirement] # {}
    /\ a.proposed # values[a.requirement]
    /\ conflicts' = conflicts \cup
           {[requirement |-> a.requirement, existing |-> values[a.requirement],
             proposed |-> a.proposed]}
    /\ open' = open \cup {a.requirement}
    /\ Record(a, "conflict")
    /\ UNCHANGED <<values, derived, assumptions>>

AcceptAnswer(a) ==
    /\ Plain(a)
    /\ values[a.requirement] \in {{}, a.proposed}
    /\ a.requirement \in open
    /\ Settle(a)
    /\ Record(a, "accepted")
    /\ UNCHANGED <<assumptions, conflicts>>

Resolve(a) ==
    /\ \/ RejectAssumption(a)
       \/ AdoptAssumption(a)
       \/ RefineExplicit(a)
       \/ ReplaceExplicit(a)
       \/ RaiseConflict(a)
       \/ AcceptAnswer(a)
    /\ UNCHANGED <<initial, project, handoff>>

Submit == \E r \in Requirements : \E a \in Answers(r) : Resolve(a)
-----------------------------------------------------------------------------
\* IdeaFinalization.to_project: only a ready idea without conflicts.
ToProject ==
    /\ conflicts = {}
    /\ Ready
    /\ project' = {<<values, Len(history)>>}
    /\ UNCHANGED <<initial, session, handoff>>

\* The project must be the one the finalised intake makes now.
EligibleOnceFinal == project # {} /\ Consistent
Eligible ==
    /\ Ready
    /\ conflicts = {}
    /\ project = {<<values, Len(history)>>}
    /\ Consistent

Handoff ==
    /\ project # {}
    /\ handoff' = {[decision |-> IF Eligible THEN "transitioned" ELSE "blocked",
                    idea |-> values, answers |-> Len(history)]}
    /\ UNCHANGED <<initial, session, project>>

Next == Submit \/ ToProject \/ Handoff

Spec == Init /\ [][Next]_vars
-----------------------------------------------------------------------------
Entries ==
    [requirement : Requirements, action : Actions,
     assumption : SUBSET Assumptions, outcome : {"accepted", "conflict"},
     before : [Requirements -> SUBSET Values], seen : SUBSET Values,
     accepted : SUBSET Values, rejected : SUBSET Values]
Conflicts == [requirement : Requirements, existing : SUBSET Values,
              proposed : SUBSET Values]

(* The types of the session (the dataclasses IdeaIntake, IntentConflict    *)
(* and ClarificationHistoryEntry).                                         *)
TypeOK ==
    /\ values \in [Requirements -> SUBSET Values]
    /\ derived \in [Requirements -> SUBSET Values]
    /\ open \subseteq Requirements
    /\ assumptions \subseteq Assumptions
    /\ conflicts \subseteq Conflicts
    /\ history \in Seq(Entries)
    /\ Len(history) <= MaxHistory

(* Whoever's answer was recorded had looked at the very values it decided  *)
(* about, however long the answer waited (the stale identity check).       *)
AnsweredAsSeen ==
    \A i \in DOMAIN history :
        history[i].before[history[i].requirement] = history[i].seen

\* What the first n answers, or else the request, say about a requirement.
About(r, n) == {i \in 1..n : history[i].requirement = r}
Agreed(r, n, v) ==
    \/ About(r, n) = {} /\ v = initial.values[r]
    \/ \E i \in About(r, n) : /\ \A j \in About(r, n) : j <= i
                              /\ v = history[i].accepted

(* An idea that went on to PLAN holds, for each requirement, what the user *)
(* last accepted about it, or what the request itself said when nobody was *)
(* asked; a disputed value never gets through, and no assumption does that *)
(* the user did not confirm, reject or replace by name.                    *)
HandedOnAgreed ==
    \A h \in handoff : h.decision = "transitioned" =>
        /\ \A r \in Requirements : Agreed(r, h.answers, h.idea[r])
        /\ \A x \in initial.assumptions :
               \E i \in 1..h.answers : x \in history[i].assumption

(* A value that stands is only ever changed by an answer that names it or  *)
(* that settles an assumption: an ordinary answer never replaces it, and   *)
(* an answer about one requirement never changes another.                  *)
ReplacedOnPurpose ==
    [][\A r \in Requirements : values[r] # {} /\ values'[r] # values[r] =>
          /\ Len(history') = Len(history) + 1
          /\ history'[Len(history')].requirement = r
          /\ history'[Len(history')].action # "answer"
          /\ history'[Len(history')].seen = values[r]]_vars

=============================================================================
