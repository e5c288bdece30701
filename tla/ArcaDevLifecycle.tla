-------------------------- MODULE ArcaDevLifecycle --------------------------
(***************************************************************************)
(* One ArcaDev project on its way from PLAN to BACKEND.  At each stage a   *)
(* specification with open questions is finalized answer by answer, the    *)
(* finalization is approved or rejected, and the approval is handed off,   *)
(* which freezes its package as the authority of the next stage.           *)
(*                                                                         *)
(* All of these are immutable values that a caller holds.  The caller here *)
(* holds the newest finalization and the last approval or rejection, and   *)
(* the two need not go together: answers may follow an approval, and the   *)
(* old approval can be handed off all the same.                            *)
(***************************************************************************)
EXTENDS ArcaDevStages

Stages == {"PLAN", "ARCHITECTURE", "MODELS", "BACKEND"}

VARIABLES
    stage,         \* current_build_stage of the project
    finalization,  \* the newest finalization of the stage
    approval,      \* the last approval or rejection of the stage, if any
    frozen         \* the package of each stage left behind

vars == <<stage, finalization, approval, frozen>>

Approvals == [of : Finalizations, approved : BOOLEAN]

\* what the next stage reads of an approved finalization
Package(f) == [decisions |-> f.decisions, conflicts |-> f.conflicts]

Packages == [decisions : Decisions, conflicts : SUBSET Questions]

TypeOK ==
    /\ stage \in Stages
    /\ finalization \in Finalizations
    /\ approval \subseteq Approvals
    /\ DOMAIN frozen \subseteq Stages
    /\ frozen \in [DOMAIN frozen -> Packages]

Init ==
    /\ stage = "PLAN"
    /\ finalization = Start
    /\ approval = {}
    /\ frozen = [s \in {} |-> Package(Start)]

Resolvable(s, f, a) ==
    \/ s = "PLAN" /\ PlanResolvable(f, a)
    \/ s = "ARCHITECTURE" /\ ArchitectureResolvable(f, a)
    \/ s = "MODELS" /\ ModelResolvable(f, a)
    \/ s = "BACKEND" /\ BackendResolvable(f, a)

Resolved(s, f, a) ==
    CASE s = "PLAN"         -> PlanResolve(f, a)
      [] s = "ARCHITECTURE" -> ArchitectureResolve(f, a)
      [] s = "MODELS"       -> ModelResolve(f, a)
      [] s = "BACKEND"      -> BackendResolve(f, a)

Resolve(a) ==
    /\ Resolvable(stage, finalization, a)
    /\ finalization' = Resolved(stage, finalization, a)
    /\ UNCHANGED <<stage, approval, frozen>>

\* nothing but the caller remembers a finalization: it may begin again
StartOver ==
    /\ finalization' = Start
    /\ approval' = {}
    /\ UNCHANGED <<stage, frozen>>

Eligible(s, f) ==
    \/ s = "PLAN" /\ PlanEligible(f)
    \/ s = "ARCHITECTURE" /\ ArchitectureEligible(f)
    \/ s = "MODELS" /\ ModelEligible(f)
    \/ s = "BACKEND" /\ BackendEligible(f)

Evaluable(s, f) == s = "PLAN" => PlanEvaluable(f)

Approve ==
    /\ Evaluable(stage, finalization)
    /\ Eligible(stage, finalization)
    /\ approval' = {[of |-> finalization, approved |-> TRUE]}
    /\ UNCHANGED <<stage, finalization, frozen>>

Reject ==
    /\ Evaluable(stage, finalization)
    /\ approval' = {[of |-> finalization, approved |-> FALSE]}
    /\ UNCHANGED <<stage, finalization, frozen>>

NextStage(s) ==
    CASE s = "PLAN" -> "ARCHITECTURE"
      [] s = "ARCHITECTURE" -> "MODELS"
      [] OTHER -> "BACKEND"

HandoffGate(s, f) ==
    \/ s = "PLAN" /\ PlanHandoffGate(f)
    \/ s = "ARCHITECTURE" /\ ArchitectureHandoffGate(f)
    \/ s = "MODELS" /\ ModelHandoffGate(f)

\* the package is frozen and the next stage starts from nothing
HandOver(p) ==
    /\ frozen' = [s \in DOMAIN frozen \cup {stage} |->
                    IF s = stage THEN Package(p.of) ELSE frozen[s]]
    /\ stage' = NextStage(stage)
    /\ finalization' = Start
    /\ approval' = {}

Handoff ==
    \E p \in approval :
        /\ p.approved
        /\ HandoffGate(stage, p.of)
        /\ HandOver(p)

Next == (\E a \in Inputs : Resolve(a)) \/ StartOver \/ Approve \/ Reject \/ Handoff

Spec == Init /\ [][Next]_vars

-----------------------------------------------------------------------------
(* Properties *)

Clash(s, q, v, r, w) ==
    \/ s = "ARCHITECTURE" /\ ArchitectureClash(q, v, r, w)
    \/ s = "MODELS" /\ ModelClash(q, v, r, w)
    \/ s = "BACKEND" /\ BackendClash(q, v, r, w)

Compatible(s, f) ==
    \A q, r \in Decided(f) : q # r => ~Clash(s, q, f.decisions[q], r, f.decisions[r])

\* However decisions are taken, replaced and refused, those accepted at a stage
\* never contradict each other: each was compared with the others of its time,
\* and the others may have been replaced since.
DecisionsCompatible == Compatible(stage, finalization)

\* Nothing that contradicts the frozen authority is ever accepted, by whatever
\* way round: no contradicting tag before MODELS, and from there on only choices
\* that the profiles of the stage support.
AuthorityKept ==
    \A q \in Decided(finalization) :
        /\ stage \in {"PLAN", "ARCHITECTURE"} =>
              finalization.decisions[q] \notin Contradicting
        /\ stage = "MODELS" => ModelClaims[q, finalization.decisions[q]] # {}
        /\ stage = "BACKEND" => BackendClaims[q, finalization.decisions[q]] # {}

StageQuestions(s) ==
    CASE s = "PLAN" -> PlanQuestions [] s = "ARCHITECTURE" -> ArchitectureQuestions
      [] s = "MODELS" -> ModelQuestions [] s = "BACKEND" -> BackendQuestions

\* The authority a stage hands on, through whatever old approval, is complete
\* (advisory questions too), free of conflicts and free of contradictions, and
\* a plan's decisions leave its scope alone.
FrozenAuthority ==
    \A s \in DOMAIN frozen :
        /\ StageQuestions(s) \subseteq Decided(frozen[s])
        /\ frozen[s].conflicts = {}
        /\ Compatible(s, frozen[s])
        /\ s = "PLAN" => \A q \in PlanQuestions : frozen[s].decisions[q] \notin ScopeBreaking

Growing == stage' = stage /\ finalization'.length > finalization.length

\* An answer to one question neither withdraws nor raises the conflict of another,
\* and leaves its decision alone. The conflict of its own question it withdraws
\* only by deciding that question anew, and then it named the decision in force,
\* even one that a refused replacement put in doubt; while the conflict stands,
\* nothing is decided.
Settled(a) ==
    /\ \A q \in Questions \ {a.question} :
          /\ q \in finalization'.conflicts <=> q \in finalization.conflicts
          /\ finalization'.decisions[q] = finalization.decisions[q]
    /\ a.question \in finalization'.conflicts =>
          finalization'.decisions = finalization.decisions
    /\ a.question \notin finalization'.conflicts =>
          /\ a.prior = finalization.decisions[a.question]
          /\ finalization'.decisions[a.question] = a.value

ConflictsHold == [][Growing => \E a \in Inputs : Resolve(a) /\ Settled(a)]_vars

\* A decision is replaced only by an answer that names the values it replaces
ReplacedKnowingly ==
    [][Growing =>
          \A q \in Decided(finalization) :
              finalization'.decisions[q] # finalization.decisions[q] =>
                  \E a \in finalization'.attempts :
                      /\ a.question = q
                      /\ a.prior = finalization.decisions[q]
                      /\ a.value = finalization'.decisions[q]]_vars

=============================================================================
