------------------------------- MODULE IdeaRecords -------------------------------
(***************************************************************************)
(* The documents of the IDEA stage: what IntentValue, IdeaIntake,          *)
(* ClarificationAnswer, IdeaFinalization and ArcaDevProject accept when    *)
(* they are made and when they are read back (arcadev/idea_intake.py,      *)
(* clarification.py), and the file a project is kept in (project.py).      *)
(* A text is a word, its spelling and its length; somebody's words say     *)
(* texts and have a length.  The transcript of an idea is the request and  *)
(* the answers; a citation that runs across two of them is left out, and   *)
(* so are the characters a text may hold.                                  *)
(***************************************************************************)
EXTENDS Integers, Sequences, FiniteSets, SequencesExt

CONSTANTS
    IntakeFields,       \* the fields of an intake that are followed
    Utterances,         \* what is written: records with says, length
    Texts,              \* what a value may be: records with word, form, length
    Technologies,       \* the technologies a request is searched for
    Exclusions,         \* the words that say there is none: of authentication, of integrations
    IdeaCandidates,     \* the intakes an adapter may propose
    MaxResolutions,     \* bound: answers recorded (MAX_RESOLUTION_HISTORY)
    MaxProjectBytes,    \* the largest project file that is read,
    MaxSessionBytes,    \* document of a session (MAX_CLARIFICATION_DOCUMENT_BYTES),
    MaxIntakeBytes      \* and document of an intake (MAX_IDEA_INTAKE_BYTES)

Scalar == {"proposed_project_name", "project_type", "product_description", "primary_goal"}
Collections ==
    {"target_users", "requested_features", "platform_targets", "authentication_requirements",
     "integration_requirements", "deployment_requirements", "explicit_constraints",
     "non_functional_requirements", "technology_preferences"}
ReadinessRequired ==
    IntakeFields \cap (Scalar \cup {"target_users", "requested_features", "platform_targets",
        "authentication_requirements", "integration_requirements", "deployment_requirements"})

MaxItem == 512
MaxCitation == 2000
MaxValue == 4000
MaxDescription == 8000
MaxAnswer == 20000
MaxRequest == 100000
MaxItems == 256
FieldMaximum(field) ==
    CASE field = "proposed_project_name" -> 120
      [] field = "project_type" -> 64
      [] field = "product_description" -> MaxDescription
      [] field = "primary_goal" -> MaxValue
      [] OTHER -> MaxItem

ASSUME IdeaRecordsAssumption ==
    /\ IntakeFields \subseteq Scalar \cup Collections /\ MaxResolutions \in Nat
    /\ \A u \in Utterances : IsFiniteSet(u.says)
    /\ \A draft \in IdeaCandidates : DOMAIN draft.fields = IntakeFields
    /\ \A draft \in IdeaCandidates : \A f \in IntakeFields : IsFiniteSet(draft.fields[f])

VARIABLES
    idea,           \* the IdeaFinalization of the session, if there is one
    built,          \* the ArcaDevProject made last, if any
    projectFile,    \* what the file of the project holds
    saving          \* the save under way, if any

ideaVars == <<idea, built, projectFile, saving>>
-----------------------------------------------------------------------------
\* no two of them are one word in two spellings
Spelled(texts) == \A s, t \in texts : s.word = t.word => s = t
ValidText(text, maximum) == text.length \in 1..maximum
CanonicalTexts(texts, maximum) ==
    /\ \A t \in texts : ValidText(t, maximum)
    /\ Cardinality(texts) <= MaxItems
    /\ Spelled(texts)

LengthOf(transcript) ==
    FoldLeft(LAMBDA n, u : n + u.length, Len(transcript) - 1, transcript)
Quoted(text, transcript) == \E i \in DOMAIN transcript : text \in transcript[i].says

IntentValue(text, provenance, evidence) ==
    [value |-> text, provenance |-> provenance, evidence |-> evidence]
ValidValue(v, transcript, maximum) ==
    /\ ValidText(v.value, maximum)
    /\ v.provenance \in {"explicit", "derived", "assumed"}
    /\ CanonicalTexts(v.evidence, MaxCitation)
    /\ v.provenance # "assumed" => v.evidence # {}
    /\ \A t \in v.evidence : Quoted(t, transcript)

Question(requirement, wording, blocking, evidence) ==
    [requirement |-> requirement, wording |-> wording, blocking |-> blocking, evidence |-> evidence]
ValidQuestion(q, transcript) ==
    CanonicalTexts(q.evidence, MaxCitation) /\ \A t \in q.evidence : Quoted(t, transcript)

Held(values) == {v.value : v \in values}
DistinctValues(values) ==
    /\ Cardinality(values) <= MaxItems
    /\ \A v, w \in values : v.value.word = w.value.word => v = w

\* What IdeaIntake.create makes of its arguments, and whether it does.
Blockers(draft) ==
    {f \in ReadinessRequired : draft.fields[f] = {}}
        \cup {q.requirement : q \in {q \in draft.questions : q.blocking}}
        \cup IF draft.assumptions # {} THEN {"assumptions"} ELSE {}
Evaluated(draft) ==
    [request |-> draft.request, fields |-> draft.fields, questions |-> draft.questions,
     assumptions |-> draft.assumptions, blockers |-> Blockers(draft)]
Permitted(draft) ==
    /\ \A f \in IntakeFields : /\ DistinctValues(draft.fields[f])
                               /\ \A v \in draft.fields[f] : v.provenance \in {"explicit", "derived"}
                               /\ f \in Scalar => Cardinality(draft.fields[f]) <= 1
    /\ DistinctValues(draft.assumptions)
    /\ \A v \in draft.assumptions : v.provenance = "assumed"
    /\ Cardinality(draft.questions) <= MaxItems
    /\ \A p, q \in draft.questions : p.requirement = q.requirement /\ p.wording = q.wording => p = q
Standing(draft) == draft.assumptions \cup UNION {draft.fields[f] : f \in IntakeFields}
ValidIntakeAsGiven(draft) == LengthOf(draft.request) <= MaxRequest /\ Permitted(draft)
ValidIntake(draft) ==
    /\ LengthOf(draft.request) <= MaxRequest
    /\ Permitted(draft)
    /\ \A v \in Standing(draft) : ValidValue(v, draft.request, MaxValue)
    /\ \A q \in draft.questions : ValidQuestion(q, draft.request)

\* IdeaIntake.from_dict: every part is made again, at its own limits.
ReadableIntake(intake) ==
    /\ \A v \in Standing(intake) : ValidValue(v, intake.request, MaxValue)
    /\ \A q \in intake.questions : ValidQuestion(q, intake.request)
    /\ ValidIntake(intake)
    /\ intake.blockers = Blockers(intake)
\* What is written of it, counted by the texts in it, and IdeaIntake.from_json.
Lengths(texts) == MapThenSumSet(LAMBDA t : t.length, texts)
ValueLengths(values) == MapThenSumSet(LAMBDA v : v.value.length + Lengths(v.evidence), values)
IntakeBytes(intake) ==
    LengthOf(intake.request) + ValueLengths(intake.assumptions)
        + MapThenSumSet(LAMBDA f : ValueLengths(intake.fields[f]), IntakeFields)
        + MapThenSumSet(LAMBDA q : Lengths(q.evidence), intake.questions)
ReadIntake(intake) ==
    IF IntakeBytes(intake) <= MaxIntakeBytes /\ ReadableIntake(intake) THEN {intake} ELSE {}
\* idea_intake_id: the digest of all that an intake holds
Identity(intake) == intake
-----------------------------------------------------------------------------
\* normalize_idea: the patterns find some of what the request says, and each
\* knows whether its value is what was said or follows from it; the description
\* is the request itself, cut to its limit.
Whole(u) == [word |-> u.word, form |-> "same", length |-> IF u.length <= MaxDescription THEN u.length ELSE MaxDescription]
Words(u) == [says |-> u.says \cup {Whole(u)}, length |-> u.length]

AlwaysDerived ==
    {"project_type", "primary_goal", "platform_targets", "authentication_requirements", "non_functional_requirements"}
EitherWay == {"requested_features", "integration_requirements", "deployment_requirements"}
ProvenancesOf(field, inferred) ==
    CASE field \in AlwaysDerived -> {"derived"}
      [] field \in EitherWay     -> {"explicit", "derived"}
      [] OTHER -> {IF field = "proposed_project_name" /\ inferred THEN "derived" ELSE "explicit"}

\* a match is cited; the value is part of it, or the pattern's own wording
Wording(field, t) == IF field \in AlwaysDerived THEN [t EXCEPT !.word = "normal " \o @] ELSE t
FoundBy(u, inferred) ==
    {found \in [IntakeFields -> SUBSET (u.says \X {"explicit", "derived"})] :
        \A f \in IntakeFields :
            /\ found[f] \subseteq u.says \X ProvenancesOf(f, inferred)
            /\ f \in Scalar => Cardinality(found[f]) <= 1
            /\ f = "product_description" => found[f] = {}
            /\ f = "technology_preferences" => \A m \in found[f] : m[1].word \in Technologies
            /\ f = "proposed_project_name" /\ inferred => found[f] # {}}
Found(u, found, field) ==
    IF field = "product_description" THEN {IntentValue(Whole(u), "derived", {Whole(u)})}
    ELSE {IntentValue(Wording(field, m[1]), m[2], {m[1]}) : m \in found[field]}
Treat(t) == [t EXCEPT !.word = "treat " \o @, !.length = @ + 36]

\* one question for what is missing, and one where "none" stands beside something
Contradictory(found, field) ==
    Cardinality(found[field]) > 1 /\ \E m \in found[field] : m[1].word \in Exclusions
NormalizedIdea(u, found, inferred) ==
    LET fields == [f \in IntakeFields |-> Found(u, found, f)]
        names == IF inferred THEN {m[1] : m \in found["proposed_project_name"]} ELSE {}
    IN  [request |-> <<Words(u)>>, fields |-> fields,
         questions |->
            {Question(f, "ask", TRUE, {}) : f \in {f \in ReadinessRequired : fields[f] = {}}}
                \cup {Question("proposed_project_name", "confirm", TRUE, {t}) : t \in names}
                \cup {Question(f, "none_or_some", TRUE, {m[1] : m \in found[f]}) :
                         f \in {f \in IntakeFields \cap {"authentication_requirements", "integration_requirements"} :
                                   Contradictory(found, f)}},
         assumptions |-> {IntentValue(Treat(t), "assumed", {t}) : t \in names}]

Start(intake) == [initial |-> intake, current |-> intake, conflicts |-> {}, history |-> <<>>]

NormalizeIdea ==
    /\ idea = {}
    /\ \E u \in Utterances, inferred \in BOOLEAN : \E found \in FoundBy(u, inferred) :
           LET draft == NormalizedIdea(u, found, inferred) IN
           /\ ValidIntake(draft) = TRUE
           /\ idea' = {Start(Evaluated(draft))}
    /\ UNCHANGED <<built, projectFile, saving>>

\* validate_candidate: an adapter's intake is read, and must be of the request.
ProposeIntake ==
    /\ idea = {}
    /\ \E u \in Utterances : \E draft \in IdeaCandidates :
           /\ draft.request = <<Words(u)>>
           /\ ReadableIntake(Evaluated(draft)) = TRUE
           /\ idea' = {Start(Evaluated(draft))}
    /\ UNCHANGED <<built, projectFile, saving>>
-----------------------------------------------------------------------------
AssumptionActions == {"confirm_assumption", "reject_assumption", "replace_assumption"}
ReplacingActions == {"replace_explicit", "refine_explicit"}
ResolutionActions == {"answer"} \cup AssumptionActions \cup ReplacingActions

\* ClarificationAnswer.create
CitedLoosely(a) == TRUE
Cited(a) == a.evidence \subseteq a.said.says
ValidAnswer(a) ==
    /\ a.about # {} <=> a.action \in AssumptionActions
    /\ a.values = {} <=> a.action = "reject_assumption"
    /\ a.previous # {} <=> a.action \in ReplacingActions
    /\ ValidText(a.said, MaxAnswer)
    /\ \A texts \in {a.values, a.evidence, a.previous, a.about} : CanonicalTexts(texts, MaxDescription)
    /\ a.evidence # {}
    /\ Cited(a)
    /\ a.action = "refine_explicit" =>
          a.requirement \in {"target_users", "authentication_requirements"} /\ a.values # a.previous

Asked(intake, r) == \E q \in intake.questions : q.requirement = r
Disputed(s, r) == \E c \in s.conflicts : c.requirement = r
OtherQuestions(intake, r) == {q \in intake.questions : q.requirement # r}
Naming(intake, a) == {v \in intake.assumptions : v.value \in a.about}

\* The branches of IdeaFinalization.resolve, as what each requires.
Adopts(s, a) ==
    /\ a.action \in AssumptionActions
    /\ Asked(s.current, a.requirement)
    /\ Naming(s.current, a) # {}
    /\ a.action = "confirm_assumption" => a.values = Held(s.current.fields[a.requirement])
Refines(s, a) ==
    /\ a.action = "refine_explicit"
    /\ Asked(s.current, a.requirement) /\ ~Disputed(s, a.requirement) /\ s.current.assumptions = {}
    /\ \A v \in s.current.fields[a.requirement] : v.provenance = "explicit"
    /\ a.previous = Held(s.current.fields[a.requirement])
Replaces(s, a) ==
    /\ a.action = "replace_explicit"
    /\ Asked(s.current, a.requirement) /\ Disputed(s, a.requirement)
    /\ a.previous = Held(s.current.fields[a.requirement])
Answerable(s, a) ==
    /\ a.action = "answer"
    /\ ~Disputed(s, a.requirement)
    /\ ~(/\ s.current.fields[a.requirement] # {} /\ s.current.assumptions # {}
         /\ Asked(s.current, a.requirement))
Disputes(s, a) ==
    /\ Answerable(s, a)
    /\ Held(s.current.fields[a.requirement]) \notin {{}, a.values}
Accepts(s, a) ==
    /\ Answerable(s, a)
    /\ Held(s.current.fields[a.requirement]) \in {{}, a.values}
    /\ Asked(s.current, a.requirement)
Settles(s, a) ==
    \/ Adopts(s, a) /\ a.action # "reject_assumption"
    \/ Refines(s, a) \/ Replaces(s, a) \/ Accepts(s, a)
Withdraws(s, a) == Adopts(s, a) /\ a.action = "reject_assumption"

\* _explicit_intent_values: every value cites the whole evidence
Explicit(a) == {IntentValue(t, "explicit", a.evidence) : t \in a.values}
Settable(a, transcript) ==
    /\ \A v \in Explicit(a) : ValidValue(v, transcript, FieldMaximum(a.requirement))
    /\ a.requirement \in Scalar => Cardinality(a.values) = 1

\* The arguments of the next intake, by the branch that is taken.
Cleared(intake, r) ==
    IF \A v \in intake.fields[r] : v.provenance # "explicit" THEN {} ELSE intake.fields[r]
ConflictQuestion(intake, r) ==
    Question(r, "conflict", TRUE, UNION {v.evidence : v \in intake.fields[r]})
Draft(s, a) ==
    LET r == a.requirement
        field == IF Settles(s, a) THEN Explicit(a)
                 ELSE IF Withdraws(s, a) THEN Cleared(s.current, r) ELSE s.current.fields[r]
    IN  [request |-> Append(s.current.request, a.said),
         fields |-> [s.current.fields EXCEPT ![r] = field],
         questions |-> IF Withdraws(s, a) THEN s.current.questions
                       ELSE IF Settles(s, a) THEN OtherQuestions(s.current, r)
                       ELSE OtherQuestions(s.current, r) \cup {ConflictQuestion(s.current, r)},
         assumptions |-> s.current.assumptions \ Naming(s.current, a)]

\* A history entry says what was open and assumed before and after: it
\* refuses two questions about one requirement.
State(intake) ==
    [ready |-> intake.blockers = {}, open |-> {q.requirement : q \in intake.questions},
     assumed |-> Held(intake.assumptions)]
ValidState(intake) ==
    /\ \A p, q \in intake.questions : p.requirement = q.requirement => p = q
    /\ CanonicalTexts(Held(intake.assumptions), MaxDescription)
Entry(s, a) ==
    [answer |-> a, outcome |-> IF Disputes(s, a) THEN "conflict" ELSE "accepted",
     resulting |-> Identity(Evaluated(Draft(s, a))), previous |-> Held(s.current.fields[a.requirement]),
     accepted |-> IF Settles(s, a) THEN a.values ELSE {},
     rejected |-> IF Disputes(s, a) THEN a.values ELSE {},
     before |-> State(s.current), after |-> State(Evaluated(Draft(s, a)))]

Resolvable(s, a) ==
    /\ Len(s.history) < MaxResolutions
    /\ ValidAnswer(a)
    /\ a.target = Identity(s.current)
    /\ a.requirement \in IntakeFields
    /\ Settles(s, a) \/ Withdraws(s, a) \/ Disputes(s, a)
    /\ Settles(s, a) => Settable(a, Append(s.current.request, a.said))
    /\ ValidIntake(Draft(s, a))
    /\ ValidState(s.current) /\ ValidState(Draft(s, a))
Conflicts(s, a) ==
    IF a.action = "replace_explicit" THEN {c \in s.conflicts : c.requirement # a.requirement}
    ELSE s.conflicts \cup
         IF Disputes(s, a)
         THEN {[requirement |-> a.requirement, target |-> a.target, proposed |-> a.values,
                existing |-> Held(s.current.fields[a.requirement]), said |-> a.said]}
         ELSE {}
Resolved(s, a) ==
    [initial |-> s.initial, current |-> Evaluated(Draft(s, a)), conflicts |-> Conflicts(s, a),
     history |-> Append(s.history, Entry(s, a))]

ReadableEntry(e) ==
    /\ ValidAnswer(e.answer)
    /\ e.outcome \in {"accepted", "conflict"}
    /\ \A texts \in {e.previous, e.accepted, e.rejected, e.before.assumed, e.after.assumed} :
           CanonicalTexts(texts, MaxDescription)
ReadableConflict(c) ==
    /\ \A texts \in {c.existing, c.proposed} : texts # {} /\ CanonicalTexts(texts, MaxDescription)
    /\ ValidText(c.said, MaxAnswer)

\* IdeaFinalization.from_dict: the answers are given again, one by one, and
\* must lead to what was written; a set without the session refuses it.
Replay(sessions, entry) ==
    {Resolved(s, entry.answer) : s \in
        {s \in sessions : Resolvable(s, entry.answer) /\ Entry(s, entry.answer) = entry}}
Replayed(initial, history) ==
    LET after[i \in 0 .. Len(history)] ==
            IF i = 0 THEN {Start(initial)} ELSE Replay(after[i - 1], history[i])
    IN  after[Len(history)]
Rebuilt(s) ==
    IF /\ Len(s.history) <= MaxResolutions
       /\ Cardinality(s.conflicts) <= Cardinality(Scalar \cup Collections)
       /\ ReadableIntake(s.initial) /\ ReadableIntake(s.current)
       /\ \A i \in DOMAIN s.history : ReadableEntry(s.history[i])
       /\ \A c \in s.conflicts : ReadableConflict(c)
    THEN {r \in Replayed(s.initial, s.history) :
             r.current = s.current /\ r.conflicts = s.conflicts}
    ELSE {}

\* IdeaFinalization.from_json: a text that is too long is not looked into.
EntryBytes(e) ==
    Lengths(e.answer.values) + Lengths(e.answer.evidence) + Lengths(e.answer.previous) + Lengths(e.answer.about)
        + e.answer.said.length + Lengths(e.previous) + Lengths(e.accepted) + Lengths(e.rejected)
        + Lengths(e.before.assumed) + Lengths(e.after.assumed)
ConflictBytes(c) == Lengths(c.existing) + Lengths(c.proposed) + c.said.length
SessionBytes(s) ==
    IntakeBytes(s.initial) + IntakeBytes(s.current)
        + MapThenSumSet(LAMBDA i : EntryBytes(s.history[i]), DOMAIN s.history)
        + MapThenSumSet(ConflictBytes, s.conflicts)
ReadBack(s) == IF SessionBytes(s) <= MaxSessionBytes THEN Rebuilt(s) ELSE {}

\* An answer to the current intake: anybody's words, any values and citations.
AnswersTo(s) ==
    [target : {Identity(s.initial), Identity(s.current)}, requirement : IntakeFields, action : ResolutionActions,
     said : {Words(u) : u \in Utterances}, values : {{}} \cup {{t} : t \in Texts},
     evidence : {{t} : t \in Texts}, about : {{}} \cup {{t} : t \in Held(s.current.assumptions)},
     previous : {{}} \cup {Held(s.current.fields[f]) : f \in IntakeFields}]
\* Bound: no answer once a project was made, which changes nothing of it.
ResolveClarification ==
    /\ built = {}
    /\ \E s \in {s \in idea : Len(s.history) < MaxResolutions} :
       \E a \in {a \in AnswersTo(s) : Resolvable(s, a)} : idea' = {Resolved(s, a)}
    /\ UNCHANGED <<built, projectFile, saving>>
-----------------------------------------------------------------------------
\* IdeaFinalization.to_project, and the contract of the project itself.
Tagged(tag, texts, length) ==
    {[word |-> tag \o t.word, form |-> t.form, length |-> t.length + length] : t \in texts}
HeldIn(intake, f) == IF f \in IntakeFields THEN Held(intake.fields[f]) ELSE {}
Constraints(intake) ==
    <<HeldIn(intake, "explicit_constraints"),
      Tagged("non-functional ", HeldIn(intake, "non_functional_requirements"), 28),
      Tagged("technology ", HeldIn(intake, "technology_preferences"), 23)>>
Distinct(parts) == \A i, j \in DOMAIN parts : i # j => parts[i] \cap parts[j] = {}
Specification(intake) ==
    [fields |-> [f \in IntakeFields \ {"product_description", "proposed_project_name"} |-> HeldIn(intake, f)],
     user_constraints |-> UNION ToSet(Constraints(intake))]
ValidCollection(texts) == Cardinality(texts) <= MaxItems /\ \A t \in texts : ValidText(t, MaxItem)
ValidSpecification(spec) ==
    /\ \A f \in DOMAIN spec.fields : IF f \in Scalar THEN \A t \in spec.fields[f] : ValidText(t, FieldMaximum(f))
                                      ELSE ValidCollection(spec.fields[f])
    /\ ValidCollection(spec.user_constraints)

\* The identity of a project is that of its intent: not of its status or stage.
ProjectOf(intake, status, stage) ==
    [intent |-> [name |-> HeldIn(intake, "proposed_project_name"), request |-> intake.request,
                 description |-> HeldIn(intake, "product_description"), specification |-> Specification(intake)],
     status |-> status, stage |-> stage]
ValidProject(p) ==
    /\ \A t \in p.intent.name : ValidText(t, FieldMaximum("proposed_project_name"))
    /\ \A t \in p.intent.description : ValidText(t, MaxDescription)
    /\ LengthOf(p.intent.request) <= MaxRequest
    /\ ValidSpecification(p.intent.specification)
    /\ p.stage = "IDEA"

ToProject ==
    /\ \E s \in UNION {Rebuilt(s) : s \in idea} :
           /\ s.conflicts = {}
           /\ s.current.blockers = {}
           /\ Distinct(Constraints(s.current))
           /\ ValidProject(ProjectOf(s.current, "READY", "IDEA")) = TRUE
           /\ built' = {ProjectOf(s.current, "READY", "IDEA")}
    /\ UNCHANGED <<idea, projectFile, saving>>

\* The hand-off keeps the intent and its identity and moves the stage.
MoveToPlan ==
    /\ \E p \in built : p.stage = "IDEA" /\ built' = {[p EXCEPT !.status = "IN_PROGRESS", !.stage = "PLAN"]}
    /\ UNCHANGED <<idea, projectFile, saving>>

\* A project is written beside the file and put in its place at the end.
Bytes(p) == LengthOf(p.intent.request)
ContentOf(p) == [whole |-> TRUE, of |-> p]
Torn(p) == [whole |-> FALSE, of |-> p]
Save ==
    /\ saving = {}
    /\ \E p \in built : saving' = {[at |-> "made", of |-> p]}
    /\ UNCHANGED <<idea, built, projectFile>>
WriteInPlace ==
    /\ \E w \in saving : w.at = "made" /\ saving' = {[w EXCEPT !.at = "synced"]} /\ projectFile' = {Torn(w.of)}
    /\ UNCHANGED <<idea, built>>
WriteBeside ==
    /\ \E w \in saving : w.at = "made" /\ saving' = {[w EXCEPT !.at = "synced"]}
    /\ UNCHANGED <<idea, built, projectFile>>
ReplaceProject ==
    /\ \E w \in saving : w.at = "synced" /\ projectFile' = {ContentOf(w.of)}
    /\ saving' = {}
    /\ UNCHANGED <<idea, built>>
\* an error removes the temporary file, a crash leaves it; neither is read
SaveFails ==
    /\ saving # {} /\ saving' = {}
    /\ UNCHANGED <<idea, built, projectFile>>

\* load_project accepts it: canonical, its identity that of its intent
Loads(content) ==
    /\ content.whole
    /\ Bytes(content.of) <= MaxProjectBytes
    /\ ValidProject(content.of)

IdeaInit == idea = {} /\ built = {} /\ projectFile = {} /\ saving = {}

IdeaNext ==
    \/ NormalizeIdea \/ ProposeIntake \/ ResolveClarification \/ ToProject \/ MoveToPlan
    \/ Save \/ WriteBeside \/ ReplaceProject \/ SaveFails
-----------------------------------------------------------------------------
(* Whatever a session went through, its answers given again rebuild it, as *)
(* they must for its project to be made, and its document and those of its *)
(* intakes read back as themselves (docs/ARCADEV.md: the history is        *)
(* replayed deterministically), as long as they are no longer than what is *)
(* read: an answer is accepted that makes them longer.                     *)
WrittenIsReadable ==
    \A s \in idea :
        /\ Rebuilt(s) = {s}
        /\ SessionBytes(s) <= MaxSessionBytes => ReadBack(s) = {s}
        /\ \A intake \in {s.initial, s.current} :
              IntakeBytes(intake) <= MaxIntakeBytes => ReadIntake(intake) = {intake}

(* A value that stands is grounded in the words of whoever said it: after  *)
(* an answer settled a field, in that very answer and in no earlier one;   *)
(* until then, in the request.                                             *)
Settled(s, f) == {i \in DOMAIN s.history : s.history[i].answer.requirement = f /\ s.history[i].accepted # {}}
LastSettled(s, f) == CHOOSE i \in Settled(s, f) : \A j \in Settled(s, f) : j <= i
GroundedInWords ==
    \A s \in idea : \A f \in IntakeFields : \A v \in s.current.fields[f] :
        v.evidence \subseteq
            IF Settled(s, f) = {} THEN s.initial.request[1].says
            ELSE s.history[LastSettled(s, f)].answer.said.says

(* A project of the IDEA stage that was saved loads again, whatever        *)
(* happens to a later save of it (docs/ARCADEV.md: saving is atomic), as   *)
(* long as it is no longer than what is read.                              *)
SavedReadsBack ==
    \A content \in projectFile :
        content.of.stage = "IDEA" /\ Bytes(content.of) <= MaxProjectBytes => Loads(content)
=============================================================================
