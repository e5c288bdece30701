----------------------- MODULE ArcaDevLifecycleProofs -----------------------
(***************************************************************************)
(* Proofs about one ArcaDev project, for any questions, values and claims. *)
(* An answer is compared with the decisions of its time in one direction   *)
(* only: the clash of two decisions is shown symmetric first, then that    *)
(* accepting an answer keeps all decisions compatible.  An old approval    *)
(* can be handed off, so the invariant carries what held when it was given.*)
(*                                                                         *)
(* The second half is about what the stages approve, from PLAN to the      *)
(* request for generation: the invariant says that each specification      *)
(* passed its check against the one before, and the properties follow from *)
(* what the checks of several stages say together.                         *)
(***************************************************************************)
EXTENDS ArcaDevLifecycle, SpecificationPipeline, TLAPS

\* What the approvals of the stage were given for, the newest finalization aside
ApprovalSound ==
    \A p \in approval :
        /\ Compatible(stage, p.of)
        /\ p.approved => Eligible(stage, p.of)

IInv ==
    /\ TypeOK
    /\ DecisionsCompatible
    /\ AuthorityKept
    /\ ApprovalSound
    /\ FrozenAuthority

-----------------------------------------------------------------------------
(* Clashes are symmetric *)

LEMMA ClaimsClashSymmetric ==
    ASSUME NEW c, NEW d, ClaimsClash(c, d)
    PROVE  ClaimsClash(d, c)
  <1>1. CASE SameChoice(c, d) /\ c.values # d.values
    BY <1>1 DEF ClaimsClash, SameChoice
  <1>2. CASE /\ c.slot = "relationship" /\ d.slot = "relationship"
             /\ Ends(c) \cap Ends(d) # {}
             /\ (c.values = Independent) # (d.values = Independent)
    <2>1. Ends(d) \cap Ends(c) # {}
      BY <1>2
    <2>2. (d.values = Independent) # (c.values = Independent)
      BY <1>2
    <2> QED BY <1>2, <2>1, <2>2 DEF ClaimsClash
  <1> QED BY <1>1, <1>2 DEF ClaimsClash

LEMMA OverlapSymmetric ==
    ASSUME NEW c, NEW d, Overlap(c, d)
    PROVE  Overlap(d, c)
  <1>1. \A i : Shared(c, d, i) <=> Shared(d, c, i)
    BY DEF Shared
  <1> QED BY <1>1 DEF Overlap

\* A clash of two decisions is a clash whichever of them is asked first, at
\* every stage: comparing the new one with the old ones is enough.
LEMMA ClashSymmetric ==
    ASSUME NEW s, NEW q, NEW v, NEW r, NEW w, Clash(s, q, v, r, w)
    PROVE  Clash(s, r, w, q, v)
  <1>1. CASE s = "ARCHITECTURE" /\ ArchitectureClash(q, v, r, w)
    BY <1>1 DEF Clash, ArchitectureClash
  <1>2. CASE s = "MODELS" /\ ModelClash(q, v, r, w)
    <2>1. PICK c \in ModelClaims[q, v], d \in ModelClaims[r, w] : ClaimsClash(c, d)
      BY <1>2 DEF ModelClash
    <2>2. ClaimsClash(d, c)
      BY <2>1, ClaimsClashSymmetric
    <2> QED BY <1>2, <2>2 DEF Clash, ModelClash
  <1>3. CASE s = "BACKEND" /\ BackendClash(q, v, r, w)
    <2>1. PICK c \in BackendClaims[q, v], d \in BackendClaims[r, w] :
                c.slot = d.slot /\ c.values # d.values /\ Overlap(c, d)
      BY <1>3 DEF BackendClash
    <2>2. Overlap(d, c)
      BY <2>1, OverlapSymmetric
    <2> QED BY <1>3, <2>1, <2>2 DEF Clash, BackendClash
  <1> QED BY <1>1, <1>2, <1>3 DEF Clash

-----------------------------------------------------------------------------
(* Starting, refusing and accepting *)

LEMMA InputTypes ==
    ASSUME NEW a \in Inputs
    PROVE  /\ a.question \in Questions
           /\ a.value \in Values
           /\ a.value # None
  BY InputsAssumption, FinalizationAssumption DEF Answers

LEMMA StartFacts ==
    /\ Start \in Finalizations
    /\ Decided(Start) = {}
    /\ \A s : Compatible(s, Start)
  <1>1. Start \in Finalizations
    BY FinalizationAssumption DEF Start, Finalizations, Decisions
  <1>2. Decided(Start) = {}
    BY DEF Start, Decided
  <1> QED BY <1>1, <1>2 DEF Compatible

LEMMA RefuseFacts ==
    ASSUME NEW f \in Finalizations, NEW a \in Inputs, f.length < MaxHistory
    PROVE  /\ Refuse(f, a) \in Finalizations
           /\ Refuse(f, a).decisions = f.decisions
           /\ Decided(Refuse(f, a)) = Decided(f)
  <1>1. a.question \in Questions
    BY InputTypes
  <1>2. /\ Refuse(f, a).decisions = f.decisions
        /\ Refuse(f, a).conflicts = f.conflicts \cup {a.question}
        /\ Refuse(f, a).attempts = f.attempts \cup {a}
        /\ Refuse(f, a).length = f.length + 1
    BY DEF Refuse, Finalizations
  <1>3. /\ f.decisions \in Decisions
        /\ f.conflicts \cup {a.question} \in SUBSET Questions
        /\ f.attempts \cup {a} \in SUBSET Inputs
    BY <1>1 DEF Finalizations
  <1>4. f.length + 1 \in 0..MaxHistory
    BY FinalizationAssumption DEF Finalizations
  <1>5. Refuse(f, a) \in Finalizations
    BY <1>3, <1>4 DEF Refuse, Finalizations
  <1> QED BY <1>2, <1>5 DEF Decided

LEMMA AcceptFacts ==
    ASSUME NEW f \in Finalizations, NEW a \in Inputs, f.length < MaxHistory
    PROVE  /\ Accept(f, a) \in Finalizations
           /\ Accept(f, a).decisions[a.question] = a.value
           /\ \A q \in Questions \ {a.question} : Accept(f, a).decisions[q] = f.decisions[q]
           /\ Decided(Accept(f, a)) = Decided(f) \cup {a.question}
  <1>1. f.decisions \in [Questions -> Values \cup {None}]
    BY DEF Finalizations, Decisions
  <1>2. a.question \in Questions /\ a.value \in Values /\ a.value # None
    BY InputTypes
  <1>3. Accept(f, a).decisions = [f.decisions EXCEPT ![a.question] = a.value]
    BY DEF Accept, Finalizations
  <1>4. Accept(f, a).decisions \in Decisions
    BY <1>1, <1>2, <1>3 DEF Decisions
  <1>5. /\ Accept(f, a).conflicts = f.conflicts \ {a.question}
        /\ Accept(f, a).attempts = f.attempts \cup {a}
        /\ Accept(f, a).length = f.length + 1
    BY DEF Accept, Finalizations
  <1>6. Accept(f, a) \in Finalizations
    <2>1. /\ f.conflicts \ {a.question} \in SUBSET Questions
          /\ f.attempts \cup {a} \in SUBSET Inputs
      BY DEF Finalizations
    <2>2. f.length + 1 \in 0..MaxHistory
      BY FinalizationAssumption DEF Finalizations
    <2>3. [f.decisions EXCEPT ![a.question] = a.value] \in Decisions
      BY <1>3, <1>4
    <2> QED BY <2>1, <2>2, <2>3 DEF Accept, Finalizations
  <1>7. Accept(f, a).decisions[a.question] = a.value
    BY <1>1, <1>2, <1>3
  <1>8. \A q \in Questions \ {a.question} : Accept(f, a).decisions[q] = f.decisions[q]
    BY <1>1, <1>2, <1>3
  <1>9. Decided(Accept(f, a)) = Decided(f) \cup {a.question}
    BY <1>2, <1>7, <1>8 DEF Decided
  <1> QED BY <1>6, <1>7, <1>8, <1>9

\* An answer that clashes with no other decision leaves all of them compatible
LEMMA AcceptCompatible ==
    ASSUME NEW s, NEW f \in Finalizations, NEW a \in Inputs, f.length < MaxHistory,
           Compatible(s, f),
           \A r \in Decided(f) \ {a.question} :
               ~Clash(s, a.question, a.value, r, f.decisions[r])
    PROVE  Compatible(s, Accept(f, a))
  <1> DEFINE g == Accept(f, a)
  <1> SUFFICES ASSUME NEW q \in Decided(g), NEW r \in Decided(g), q # r
               PROVE  ~Clash(s, q, g.decisions[q], r, g.decisions[r])
    BY DEF Compatible
  <1>1. /\ g.decisions[a.question] = a.value
        /\ \A x \in Questions \ {a.question} : g.decisions[x] = f.decisions[x]
        /\ Decided(g) = Decided(f) \cup {a.question}
    BY AcceptFacts
  <1>2. Decided(f) \subseteq Questions
    BY DEF Decided
  <1> HIDE DEF g
  <1>3. CASE q = a.question
    BY <1>1, <1>2, <1>3
  <1>4. CASE r = a.question
    <2>1. q \in Decided(f) \ {a.question}
      BY <1>1, <1>4
    <2>2. ~Clash(s, r, g.decisions[r], q, g.decisions[q])
      BY <1>1, <1>2, <1>4, <2>1
    <2> QED BY <2>2, ClashSymmetric
  <1>5. CASE q # a.question /\ r # a.question
    BY <1>1, <1>2, <1>5 DEF Compatible
  <1> QED BY <1>3, <1>4, <1>5

-----------------------------------------------------------------------------
(* Resolving an answer, at any stage *)

Allowed(s, q, v) ==
    /\ s \in {"PLAN", "ARCHITECTURE"} => v \notin Contradicting
    /\ s = "MODELS" => ModelClaims[q, v] # {}
    /\ s = "BACKEND" => BackendClaims[q, v] # {}

Accepted(s, f, a) ==
    /\ Resolved(s, f, a) = Accept(f, a)
    /\ a.prior = Previous(f, a)
    /\ Allowed(s, a.question, a.value)
    /\ \A r \in Decided(f) \ {a.question} :
          ~Clash(s, a.question, a.value, r, f.decisions[r])

\* An answer is refused, or accepted because the stage has nothing against it
LEMMA ResolvedCases ==
    ASSUME NEW s, NEW f, NEW a, Resolvable(s, f, a)
    PROVE  /\ f.length < MaxHistory
           /\ Resolved(s, f, a) = Refuse(f, a) \/ Accepted(s, f, a)
  <1>1. CASE s = "PLAN" /\ PlanResolvable(f, a)
    <2>1. f.length < MaxHistory
      BY <1>1 DEF PlanResolvable
    <2>2. Resolved(s, f, a) = PlanResolve(f, a)
      BY <1>1 DEF Resolved
    <2>3. CASE PlanConflict(f, a)
      BY <2>1, <2>2, <2>3 DEF PlanResolve
    <2>4. CASE ~PlanConflict(f, a)
      BY <1>1, <2>1, <2>2, <2>4 DEF PlanResolve, PlanConflict, Accepted, Allowed, Clash
    <2> QED BY <2>3, <2>4
  <1>2. CASE s = "ARCHITECTURE" /\ ArchitectureResolvable(f, a)
    <2>1. f.length < MaxHistory
      BY <1>2 DEF ArchitectureResolvable
    <2>2. Resolved(s, f, a) = ArchitectureResolve(f, a)
      BY <1>2 DEF Resolved
    <2>3. CASE ArchitectureConflict(f, a)
      BY <2>1, <2>2, <2>3 DEF ArchitectureResolve
    <2>4. CASE ~ArchitectureConflict(f, a)
      BY <1>2, <2>1, <2>2, <2>4 DEF ArchitectureResolve, ArchitectureConflict,
           ArchitectureAuthorityConflict, ArchitectureDecisionConflict, Accepted, Allowed, Clash
    <2> QED BY <2>3, <2>4
  <1>3. CASE s = "MODELS" /\ ModelResolvable(f, a)
    <2>1. f.length < MaxHistory
      BY <1>3 DEF ModelResolvable
    <2>2. Resolved(s, f, a) = ModelResolve(f, a)
      BY <1>3 DEF Resolved
    <2>3. CASE ModelConflict(f, a)
      BY <2>1, <2>2, <2>3 DEF ModelResolve
    <2>4. CASE ~ModelConflict(f, a)
      BY <1>3, <2>1, <2>2, <2>4 DEF ModelResolve, ModelConflict, ModelDecisionConflict,
           Accepted, Allowed, Clash
    <2> QED BY <2>3, <2>4
  <1>4. CASE s = "BACKEND" /\ BackendResolvable(f, a)
    <2>1. f.length < MaxHistory
      BY <1>4 DEF BackendResolvable
    <2>2. Resolved(s, f, a) = BackendResolve(f, a)
      BY <1>4 DEF Resolved
    <2>3. CASE BackendConflict(f, a)
      BY <2>1, <2>2, <2>3 DEF BackendResolve
    <2>4. CASE ~BackendConflict(f, a)
      BY <1>4, <2>1, <2>2, <2>4 DEF BackendResolve, BackendConflict,
           BackendDecisionConflict, Accepted, Allowed, Clash
    <2> QED BY <2>3, <2>4
  <1> QED BY <1>1, <1>2, <1>3, <1>4 DEF Resolvable

Kept(s, f) == \A q \in Decided(f) : Allowed(s, q, f.decisions[q])

LEMMA KeptIsAuthorityKept == AuthorityKept <=> Kept(stage, finalization)
  BY DEF AuthorityKept, Kept, Allowed

\* Whatever the answer, the next finalization is as good as the last
LEMMA ResolvedSound ==
    ASSUME NEW s, NEW f \in Finalizations, NEW a \in Inputs, Resolvable(s, f, a),
           Compatible(s, f), Kept(s, f)
    PROVE  /\ Resolved(s, f, a) \in Finalizations
           /\ Compatible(s, Resolved(s, f, a))
           /\ Kept(s, Resolved(s, f, a))
  <1>1. f.length < MaxHistory
    BY ResolvedCases
  <1>2. CASE Resolved(s, f, a) = Refuse(f, a)
    BY <1>1, <1>2, RefuseFacts DEF Compatible, Kept
  <1>3. CASE Accepted(s, f, a)
    <2>1. Compatible(s, Accept(f, a))
      BY <1>1, <1>3, AcceptCompatible DEF Accepted
    <2>2. Kept(s, Accept(f, a))
      <3> SUFFICES ASSUME NEW q \in Decided(Accept(f, a))
                   PROVE  Allowed(s, q, Accept(f, a).decisions[q])
        BY DEF Kept
      <3>1. CASE q = a.question
        BY <1>1, <1>3, <3>1, AcceptFacts DEF Accepted
      <3>2. CASE q # a.question
        <4>1. q \in Decided(f) /\ q \in Questions \ {a.question}
          BY <1>1, <3>2, AcceptFacts DEF Decided
        <4>2. Accept(f, a).decisions[q] = f.decisions[q]
          BY <1>1, <4>1, AcceptFacts
        <4> QED BY <4>1, <4>2 DEF Kept
      <3> QED BY <3>1, <3>2
    <2> QED BY <1>1, <1>3, <2>1, <2>2, AcceptFacts DEF Accepted
  <1> QED BY <1>2, <1>3, ResolvedCases

-----------------------------------------------------------------------------
(* Handing over *)

\* An approval that may be handed off, however old, is of a finalization that
\* has everything the next stage relies on.
LEMMA HandoffComplete ==
    ASSUME NEW s, NEW f, HandoffGate(s, f), Eligible(s, f)
    PROVE  /\ s \in Stages
           /\ StageQuestions(s) \subseteq Decided(f)
           /\ f.conflicts = {}
           /\ s = "PLAN" => \A q \in PlanQuestions : f.decisions[q] \notin ScopeBreaking
  <1>1. CASE s = "PLAN" /\ PlanHandoffGate(f)
    BY <1>1 DEF PlanHandoffGate, PlanReady, Ready, StageQuestions, Stages, Eligible,
         PlanEligible, ScopeConflicts
  <1>2. CASE s = "ARCHITECTURE" /\ ArchitectureHandoffGate(f)
    BY <1>2 DEF ArchitectureHandoffGate, ArchitectureReady, Ready, StageQuestions, Stages
  <1>3. CASE s = "MODELS" /\ ModelHandoffGate(f)
    BY <1>3 DEF ModelHandoffGate, ModelReady, Ready, StageQuestions, Stages
  <1> QED BY <1>1, <1>2, <1>3 DEF HandoffGate

Delivered(s, k) ==
    /\ StageQuestions(s) \subseteq Decided(k)
    /\ k.conflicts = {}
    /\ Compatible(s, k)
    /\ s = "PLAN" => \A q \in PlanQuestions : k.decisions[q] \notin ScopeBreaking

LEMMA FrozenIsDelivered ==
    FrozenAuthority <=> \A s \in DOMAIN frozen : Delivered(s, frozen[s])
  BY DEF FrozenAuthority, Delivered

\* The package keeps what was delivered
LEMMA PackageDelivered ==
    ASSUME NEW s, NEW f \in Finalizations, Delivered(s, f)
    PROVE  Package(f) \in Packages /\ Delivered(s, Package(f))
  <1>1. Package(f).decisions = f.decisions /\ Package(f).conflicts = f.conflicts
    BY DEF Package
  <1>2. Decided(Package(f)) = Decided(f)
    BY <1>1 DEF Decided
  <1>3. Package(f) \in Packages
    BY DEF Package, Packages, Finalizations
  <1>4. Compatible(s, Package(f))
    BY <1>1, <1>2 DEF Compatible, Delivered
  <1> QED BY <1>1, <1>2, <1>3, <1>4 DEF Delivered

-----------------------------------------------------------------------------
(* The invariant *)

LEMMA InitInvariant == Init => IInv
  <1> SUFFICES ASSUME Init
               PROVE  IInv
    OBVIOUS
  <1>1. finalization = Start /\ approval = {} /\ DOMAIN frozen = {} /\ stage = "PLAN"
    BY DEF Init
  <1>2. TypeOK
    BY <1>1, StartFacts DEF TypeOK, Stages, Init
  <1>3. DecisionsCompatible /\ AuthorityKept
    BY <1>1, StartFacts DEF DecisionsCompatible, AuthorityKept
  <1>4. ApprovalSound /\ FrozenAuthority
    BY <1>1 DEF ApprovalSound, FrozenAuthority
  <1> QED BY <1>2, <1>3, <1>4 DEF IInv

LEMMA StepInvariant == IInv /\ [Next]_vars => IInv'
  <1> SUFFICES ASSUME IInv, [Next]_vars
               PROVE  IInv'
    OBVIOUS
  <1> USE DEF IInv
  <1>1. ASSUME NEW a \in Inputs, Resolve(a)
        PROVE  IInv'
    <2>1. Kept(stage, finalization) /\ Compatible(stage, finalization)
      BY KeptIsAuthorityKept DEF DecisionsCompatible
    <2>2. /\ Resolvable(stage, finalization, a)
          /\ finalization' = Resolved(stage, finalization, a)
          /\ UNCHANGED <<stage, approval, frozen>>
      BY <1>1 DEF Resolve
    <2>3. /\ finalization' \in Finalizations
          /\ Compatible(stage, finalization')
          /\ Kept(stage, finalization')
      BY <2>1, <2>2, ResolvedSound DEF TypeOK
    <2>4. TypeOK'
      BY <2>2, <2>3 DEF TypeOK
    <2>5. DecisionsCompatible'
      BY <2>2, <2>3 DEF DecisionsCompatible
    <2>6. AuthorityKept'
      BY <2>2, <2>3 DEF AuthorityKept, Kept, Allowed
    <2>7. ApprovalSound'
      BY <2>2 DEF ApprovalSound
    <2>8. FrozenAuthority'
      BY <2>2 DEF FrozenAuthority
    <2> QED BY <2>4, <2>5, <2>6, <2>7, <2>8
  <1>2. CASE StartOver
    <2>1. finalization' = Start /\ approval' = {} /\ UNCHANGED <<stage, frozen>>
      BY <1>2 DEF StartOver
    <2>2. TypeOK'
      BY <2>1, StartFacts DEF TypeOK
    <2>3. DecisionsCompatible' /\ AuthorityKept'
      BY <2>1, StartFacts DEF DecisionsCompatible, AuthorityKept
    <2>4. ApprovalSound'
      BY <2>1 DEF ApprovalSound
    <2>5. FrozenAuthority'
      BY <2>1 DEF FrozenAuthority
    <2> QED BY <2>2, <2>3, <2>4, <2>5
  <1>3. ASSUME NEW b \in BOOLEAN, b => Eligible(stage, finalization),
               approval' = {[of |-> finalization, approved |-> b]},
               UNCHANGED <<stage, finalization, frozen>>
        PROVE  IInv'
    <2>1. TypeOK'
      BY <1>3 DEF TypeOK, Approvals
    <2>2. DecisionsCompatible' /\ AuthorityKept' /\ FrozenAuthority'
      BY <1>3 DEF DecisionsCompatible, AuthorityKept, FrozenAuthority
    <2>3. ApprovalSound'
      BY <1>3 DEF ApprovalSound, DecisionsCompatible
    <2> QED BY <2>1, <2>2, <2>3
  <1>4. CASE Approve
    BY <1>3, <1>4 DEF Approve
  <1>5. CASE Reject
    BY <1>3, <1>5 DEF Reject
  <1>6. CASE Handoff
    <2>1. PICK p \in approval :
                /\ p.approved
                /\ HandoffGate(stage, p.of)
                /\ HandOver(p)
      BY <1>6 DEF Handoff
    <2>2. /\ frozen' = [s \in DOMAIN frozen \cup {stage} |->
                             IF s = stage THEN Package(p.of) ELSE frozen[s]]
          /\ stage' = NextStage(stage)
          /\ finalization' = Start
          /\ approval' = {}
      BY <2>1 DEF HandOver
    <2>3. p.of \in Finalizations /\ Compatible(stage, p.of) /\ Eligible(stage, p.of)
      BY <2>1 DEF TypeOK, Approvals, ApprovalSound
    <2>4. Delivered(stage, p.of)
      BY <2>1, <2>3, HandoffComplete DEF Delivered
    <2>5. Package(p.of) \in Packages /\ Delivered(stage, Package(p.of))
      BY <2>3, <2>4, PackageDelivered
    <2>6. stage' \in Stages
      BY <2>2 DEF NextStage, Stages
    <2>7. TypeOK'
      BY <2>2, <2>5, <2>6, StartFacts DEF TypeOK
    <2>8. DecisionsCompatible' /\ AuthorityKept'
      BY <2>2, StartFacts DEF DecisionsCompatible, AuthorityKept
    <2>9. FrozenAuthority'
      <3> SUFFICES ASSUME NEW s \in DOMAIN frozen'
                   PROVE  Delivered(s, frozen'[s])
        BY DEF FrozenAuthority, Delivered
      <3>1. CASE s = stage
        BY <2>2, <2>5, <3>1
      <3>2. CASE s # stage
        BY <2>2, <3>2, FrozenIsDelivered
      <3> QED BY <3>1, <3>2
    <2>10. ApprovalSound'
      BY <2>2 DEF ApprovalSound
    <2> QED BY <2>7, <2>8, <2>9, <2>10
  <1>7. CASE UNCHANGED vars
    BY <1>7 DEF vars, TypeOK, DecisionsCompatible, AuthorityKept, ApprovalSound, FrozenAuthority
  <1> QED BY <1>1, <1>2, <1>4, <1>5, <1>6, <1>7 DEF Next

LEMMA Invariant == Spec => []IInv
  BY InitInvariant, StepInvariant, PTL DEF Spec

\* The finalization, the approval and the packages keep their types at every
\* stage, for any questions, values, answers and limit of the history.
THEOREM LifecycleTypes == Spec => []TypeOK
  <1>1. IInv => TypeOK
    BY DEF IInv
  <1> QED BY <1>1, Invariant, PTL

\* The decisions accepted at a stage never contradict each other, though each
\* answer is compared only once and only with the decisions of its time.
THEOREM NoContradictions == Spec => []DecisionsCompatible
  <1>1. IInv => DecisionsCompatible
    BY DEF IInv
  <1> QED BY <1>1, Invariant, PTL

\* Nothing that contradicts the frozen authority is ever accepted at any stage
THEOREM AuthoritySafe == Spec => []AuthorityKept
  <1>1. IInv => AuthorityKept
    BY DEF IInv
  <1> QED BY <1>1, Invariant, PTL

\* What a stage hands on is complete, free of conflicts and of contradictions,
\* even when the approval is older than the newest finalization.
THEOREM HandedOnComplete == Spec => []FrozenAuthority
  <1>1. IInv => FrozenAuthority
    BY DEF IInv
  <1> QED BY <1>1, Invariant, PTL

-----------------------------------------------------------------------------
(* What a step may never do *)

\* Only resolving an answer makes a finalization grow
LEMMA GrowingResolves ==
    ASSUME TypeOK, Next, Growing
    PROVE  \E a \in Inputs : Resolve(a)
  <1>1. finalization.length \in Nat
    BY FinalizationAssumption DEF TypeOK, Finalizations
  <1>2. finalization' # Start
    <2>1. Start.length = 0
      BY DEF Start
    <2> QED BY <1>1, <2>1 DEF Growing
  <1>3. finalization' # finalization
    BY <1>1 DEF Growing
  <1> QED BY <1>2, <1>3 DEF Next, StartOver, Approve, Reject, Handoff, HandOver

ConflictsHoldStep == Growing => \E a \in Inputs : Resolve(a) /\ Settled(a)

LEMMA ConflictsHoldNext == IInv /\ [Next]_vars => [ConflictsHoldStep]_vars
  <1> SUFFICES ASSUME IInv, Next, Growing
               PROVE  \E a \in Inputs : Resolve(a) /\ Settled(a)
    BY DEF ConflictsHoldStep
  <1>1. PICK a \in Inputs : Resolve(a)
    BY GrowingResolves DEF IInv
  <1>2. /\ Resolvable(stage, finalization, a)
        /\ finalization' = Resolved(stage, finalization, a)
        /\ finalization \in Finalizations
    BY <1>1 DEF Resolve, IInv, TypeOK
  <1>3. finalization.length < MaxHistory
    BY <1>2, ResolvedCases
  <1>4. CASE finalization' = Refuse(finalization, a)
    <2>1. /\ finalization'.decisions = finalization.decisions
          /\ finalization'.conflicts = finalization.conflicts \cup {a.question}
      BY <1>2, <1>4 DEF Refuse, Finalizations
    <2>2. Settled(a)
      BY <2>1 DEF Settled
    <2> QED BY <1>1, <2>2
  <1>5. CASE Accepted(stage, finalization, a)
    <2>1. finalization' = Accept(finalization, a)
      BY <1>2, <1>5 DEF Accepted
    <2>2. finalization'.conflicts = finalization.conflicts \ {a.question}
      BY <1>2, <2>1 DEF Accept, Finalizations
    <2>3. /\ finalization'.decisions[a.question] = a.value
          /\ \A q \in Questions \ {a.question} :
                finalization'.decisions[q] = finalization.decisions[q]
      BY <1>2, <1>3, <2>1, AcceptFacts
    <2>4. a.prior = finalization.decisions[a.question]
      BY <1>5 DEF Accepted, Previous
    <2>5. Settled(a)
      BY <2>2, <2>3, <2>4 DEF Settled
    <2> QED BY <1>1, <2>5
  <1> QED BY <1>2, <1>4, <1>5, ResolvedCases

ReplacedKnowinglyStep ==
    Growing =>
          \A q \in Decided(finalization) :
              finalization'.decisions[q] # finalization.decisions[q] =>
                  \E a \in finalization'.attempts :
                      /\ a.question = q
                      /\ a.prior = finalization.decisions[q]
                      /\ a.value = finalization'.decisions[q]

LEMMA ReplacedKnowinglyNext == IInv /\ [Next]_vars => [ReplacedKnowinglyStep]_vars
  <1> SUFFICES ASSUME IInv, Next, Growing, NEW q \in Decided(finalization),
                      finalization'.decisions[q] # finalization.decisions[q]
               PROVE  \E a \in finalization'.attempts :
                          /\ a.question = q
                          /\ a.prior = finalization.decisions[q]
                          /\ a.value = finalization'.decisions[q]
    BY DEF ReplacedKnowinglyStep
  <1>1. PICK a \in Inputs : Resolve(a)
    BY GrowingResolves DEF IInv
  <1>2. /\ Resolvable(stage, finalization, a)
        /\ finalization' = Resolved(stage, finalization, a)
        /\ finalization \in Finalizations
    BY <1>1 DEF Resolve, IInv, TypeOK
  <1>3. finalization.length < MaxHistory
    BY <1>2, ResolvedCases
  <1>4. finalization' # Refuse(finalization, a)
    BY <1>2, <1>3, RefuseFacts
  <1>5. Accepted(stage, finalization, a)
    BY <1>2, <1>4, ResolvedCases
  <1>6. finalization' = Accept(finalization, a)
    BY <1>2, <1>5 DEF Accepted
  <1>7. a.question = q
    BY <1>2, <1>3, <1>6, AcceptFacts DEF Decided
  <1>8. a \in finalization'.attempts
    BY <1>2, <1>6 DEF Accept, Finalizations
  <1>9. finalization'.decisions[q] = a.value
    BY <1>2, <1>3, <1>6, <1>7, AcceptFacts
  <1>10. a.prior = finalization.decisions[q]
    BY <1>5, <1>7 DEF Accepted, Previous
  <1> QED BY <1>7, <1>8, <1>9, <1>10

\* An answer touches no question but its own, and withdraws the conflict of its
\* own only by an accepted decision that names the one it replaces.
THEOREM ConflictsNeverHidden == Spec => ConflictsHold
  <1>1. Spec => [][ConflictsHoldStep]_vars
    BY Invariant, ConflictsHoldNext, PTL DEF Spec
  <1> QED BY <1>1 DEF ConflictsHold, ConflictsHoldStep

\* Whoever replaces a decision named it: nothing is overwritten from a stale view
THEOREM ReplacementsKnowing == Spec => ReplacedKnowingly
  <1>1. Spec => [][ReplacedKnowinglyStep]_vars
    BY Invariant, ReplacedKnowinglyNext, PTL DEF Spec
  <1> QED BY <1>1 DEF ReplacedKnowingly, ReplacedKnowinglyStep
-----------------------------------------------------------------------------
(* From an approved IDEA to a request for generation *)

AfterArchitecture == {"ARCHITECTURE approval", "MODELS", "MODELS approval", "BACKEND",
                      "BACKEND approval", "REQUESTED"}
AfterModel == {"MODELS approval", "BACKEND", "BACKEND approval", "REQUESTED"}
AfterBackend == {"BACKEND approval", "REQUESTED"}

\* What a stage accepted passed its check, against what the engine derives from
\* the stages before, and those have not changed since.
PipelineInv ==
    /\ phase \in AfterArchitecture =>
          ArchitectureCandidate(idea, plan, planDecisions, ArchitectureBaseline, architecture)
    /\ phase \in AfterModel => ModelCandidate(architecture, choices, ModelBaseline, model)
    /\ phase \in AfterModel \ {"MODELS approval"} => \A c \in claims : c.entity \in Owning(model)
    /\ phase \in AfterBackend => BackendCandidate(architecture, ResolvedState, BackendBaseline, backend)
    /\ backend # Nothing => phase \in AfterBackend
    /\ request # Nothing => phase = "REQUESTED" /\ request = RequestFor(backend)

\* answers claim something about entities of the model
LEMMA ClaimsOnEntities ==
    ASSUME NEW questions, NEW owning, NEW answers,
           \A q \in questions : Answerable(q) /\ q.affected \subseteq owning,
           NEW cs \in Deciding(questions, ClaimsOf, answers), NEW c \in UNION cs
    PROVE  c.entity \in owning
<1>1. PICK f \in answers, q \in questions : c \in ClaimsOf(q, f[q])
  BY DEF Deciding
<1>2. q.affected # {} /\ q.affected \subseteq owning
  BY DEF Answerable
<1>3. (CHOOSE o \in q.affected : TRUE) \in q.affected
  BY <1>2
<1>4. CASE q.area = "field"
  <2> DEFINE o == CHOOSE o \in q.affected : TRUE
  <2>1. c = [area |-> q.area, entity |-> o, values |-> f[q], sources |-> q.sources]
    BY <1>1, <1>4 DEF ClaimsOf
  <2>2. o \in q.affected
    BY <1>3
  <2> HIDE DEF o
  <2>. QED
    BY <1>2, <2>1, <2>2
<1>5. CASE q.area # "field"
  <2>1. PICK o \in q.affected : c = [area |-> q.area, entity |-> o, values |-> f[q], sources |-> q.sources]
    BY <1>1, <1>5 DEF ClaimsOf
  <2>. QED
    BY <1>2, <2>1
<1>. QED
  BY <1>4, <1>5

LEMMA PipelineInvNext == PipelineInv /\ [PipelineNext]_pipelineVars => PipelineInv'
<1> SUFFICES ASSUME PipelineInv, [PipelineNext]_pipelineVars PROVE PipelineInv'
  OBVIOUS
<1> USE DEF AfterArchitecture, AfterModel, AfterBackend
<1>1. CASE DerivePlan \/ AcceptPlan \/ ReplacePlan \/ ApprovePlan
  BY <1>1 DEF DerivePlan, AcceptPlan, ReplacePlan, ApprovePlan, PlanIs, PipelineInv
<1>2. CASE DeriveArchitecture \/ AcceptArchitecture
  BY <1>2 DEF DeriveArchitecture, AcceptArchitecture, ArchitectureIs, ArchitectureAccepted,
              ArchitectureBaseline, PipelineInv
<1>3. CASE ApproveArchitecture
  BY <1>3 DEF ApproveArchitecture, ArchitectureBaseline, PipelineInv
<1>4. CASE DeriveModel \/ AcceptModel
  BY <1>4 DEF DeriveModel, AcceptModel, ModelIs, ModelAccepted, ModelBaseline, ArchitectureBaseline, PipelineInv
<1>5. CASE ApproveModel
  <2>1. \A q \in model.questions : Answerable(q) /\ q.affected \subseteq Owning(model)
    BY <1>5 DEF ApproveModel, PipelineInv, ModelCandidate, ModelContract
  <2>2. \A c \in claims' : c.entity \in Owning(model)
    <3>1. PICK cs \in Deciding(model.questions, ClaimsOf, ModelAnswers(model.questions)) : claims' = UNION cs
      BY <1>5 DEF ApproveModel
    <3>. QED
      BY <2>1, <3>1, ClaimsOnEntities
  <2>. QED
    BY <1>5, <2>2 DEF ApproveModel, ModelBaseline, ArchitectureBaseline, PipelineInv
<1>6. CASE DeriveBackend \/ AcceptBackend
  BY <1>6 DEF DeriveBackend, AcceptBackend, BackendIs, BackendAccepted, BackendBaseline, ResolvedState,
              ModelBaseline, ArchitectureBaseline, PipelineInv
<1>7. CASE RequestGeneration
  BY <1>7 DEF RequestGeneration, RequestFor, BackendBaseline, ResolvedState,
              ModelBaseline, ArchitectureBaseline, PipelineInv
<1>8. CASE UNCHANGED pipelineVars
  BY <1>8 DEF pipelineVars, RequestFor, BackendBaseline, ResolvedState, ModelBaseline, ArchitectureBaseline, PipelineInv
<1>. QED
  BY <1>1, <1>2, <1>3, <1>4, <1>5, <1>6, <1>7, <1>8 DEF PipelineNext, Engines, Adapters

-----------------------------------------------------------------------------
(* What a backend that passed its contract is *)

Groups(b) == {c.owners : c \in b.components}
RoleIn(b) == [g \in Groups(b) |-> (CHOOSE c \in b.components : c.owners = g).role]
Holdings(a) == {q \in BackendOwners(a) \X OwnedBy(BackendOwners(a)) : q[2] \in q[1].owned}

LEMMA OwnerOfCapability ==
    ASSUME NEW a, NEW p, OwnershipExact(p, a.components), NEW c \in p.capabilities
    PROVE  \E owner \in BackendOwners(a) :
              PlanSource(c) \in owner.owned /\ OwnersIn(a, {PlanSource(c)}) = {owner}
<1>1. PlanSource(c) \in OwnedBy(a.components)
  BY DEF OwnershipExact, PlanSources
<1>2. PICK owner \in a.components : PlanSource(c) \in owner.owned
  BY <1>1 DEF OwnedBy
<1>3. owner \in BackendOwners(a)
  BY <1>2 DEF BackendOwners
<1>4. OwnersIn(a, {PlanSource(c)}) = {owner}
  BY <1>2 DEF OwnersIn, OwnershipExact
<1>. QED
  BY <1>2, <1>3, <1>4

LEMMA GroupOfOwner ==
    ASSUME NEW a, NEW rm, NEW b, BackendContract(a, rm, b), NEW o \in BackendOwners(a)
    PROVE  o.id \in GroupOf(Groups(b), o.id) /\ GroupOf(Groups(b), o.id) \in Groups(b)
<1>1. \E g \in Groups(b) : o.id \in g
  BY DEF BackendContract, GroupingSound, Identifiers, Groups
<1>. QED
  BY <1>1 DEF GroupOf

LEMMA OperationsImplied ==
    ASSUME NEW a, NEW rm, NEW b, BackendContract(a, rm, b)
    PROVE  b.operations = {GroupOperation(a, rm, Groups(b), p[1], p[2]) : p \in Holdings(a)}
BY DEF BackendContract, AssembleBackend, Groups, Holdings

LEMMA EveryCapabilityOperated ==
    ASSUME NEW a, NEW p, NEW rm, NEW b, OwnershipExact(p, a.components), BackendContract(a, rm, b),
           NEW c \in p.capabilities
    PROVE  \E o \in b.operations, owner \in OwnersIn(a, {PlanSource(c)}) :
              /\ {q \in b.operations : q.capability = PlanSource(c)} = {o}
              /\ OwnersIn(a, {PlanSource(c)}) = {owner}
              /\ owner.id \in o.component
<1>1. PICK owner \in BackendOwners(a) :
          PlanSource(c) \in owner.owned /\ OwnersIn(a, {PlanSource(c)}) = {owner}
  BY OwnerOfCapability
<1> DEFINE o == GroupOperation(a, rm, Groups(b), owner, PlanSource(c))
<1>2. o \in b.operations
  <2>1. <<owner, PlanSource(c)>> \in Holdings(a)
    BY <1>1 DEF Holdings, OwnedBy
  <2>. QED
    BY <2>1, OperationsImplied
<1>3. o.capability = PlanSource(c) /\ o.component = GroupOf(Groups(b), owner.id)
  BY DEF GroupOperation
<1>4. ASSUME NEW q \in b.operations, q.capability = PlanSource(c) PROVE q = o
  <2>1. PICK h \in Holdings(a) : q = GroupOperation(a, rm, Groups(b), h[1], h[2])
    BY OperationsImplied
  <2>2. h[2] = PlanSource(c)
    BY <1>4, <2>1 DEF GroupOperation
  <2>3. h[1] = owner
    BY <1>1, <2>2 DEF Holdings, OwnersIn, BackendOwners
  <2>. QED
    BY <2>1, <2>2, <2>3
<1>5. owner.id \in o.component
  BY <1>3, GroupOfOwner
<1> HIDE DEF o
<1>. QED
  BY <1>1, <1>2, <1>3, <1>4, <1>5

\* what an operation may touch and when a policy holds do not depend on the groups
OperationAuthority(a, rm, owner, capability) ==
    <<capability, IF owner.category = "adapter" THEN "integration_action" ELSE "workflow_action",
      OperationEntities(rm, owner.id, capability), {x \in a.aspects : x.area = "authentication"}>>
PolicyAuthority(a, rm, x) ==
    <<x, PolicyKind[x.area], PolicyOperations(a, {}, x), PolicyEntities(a, rm, x), "policy">>
Policed(a) == {y \in a.aspects : y.area \in DOMAIN PolicyKind}

LEMMA AuthorityWithoutGroups ==
    ASSUME NEW a, NEW rm, NEW b, NEW groups, NEW components,
           b.operations = {GroupOperation(a, rm, groups, p[1], p[2]) : p \in Holdings(a)},
           b.policies = {GroupPolicy(a, rm, groups, components, x) : x \in Policed(a)}
    PROVE  AuthorityOf(b) = {OperationAuthority(a, rm, p[1], p[2]) : p \in Holdings(a)}
                               \cup {PolicyAuthority(a, rm, x) : x \in Policed(a)}
<1>1. {<<o.capability, o.kind, o.entities, o.authorization>> : o \in b.operations}
         = {OperationAuthority(a, rm, p[1], p[2]) : p \in Holdings(a)}
  <2>1. \A p \in Holdings(a) :
           LET o == GroupOperation(a, rm, groups, p[1], p[2]) IN
           <<o.capability, o.kind, o.entities, o.authorization>> = OperationAuthority(a, rm, p[1], p[2])
    BY DEF GroupOperation, OperationAuthority
  <2> HIDE DEF OperationAuthority, GroupOperation
  <2>. QED
    BY <2>1
<1>2. {<<q.aspect, q.kind, q.operations, q.entities, "policy">> : q \in b.policies}
         = {PolicyAuthority(a, rm, x) : x \in Policed(a)}
  <2>1. \A x \in Policed(a) :
           LET q == GroupPolicy(a, rm, groups, components, x) IN
           <<q.aspect, q.kind, q.operations, q.entities, "policy">> = PolicyAuthority(a, rm, x)
    BY DEF GroupPolicy, PolicyAuthority, PolicyOperations
  <2>. QED
    BY <2>1
<1>. QED
  BY <1>1, <1>2 DEF AuthorityOf

LEMMA SameAuthority ==
    ASSUME NEW a, NEW rm, NEW b, BackendContract(a, rm, b)
    PROVE  AuthorityOf(b) = AuthorityOf(BaselineBackend(a, rm))
<1> DEFINE base == BaselineBackend(a, rm)
           grouped == {GroupComponent(a, rm, Groups(b), RoleIn(b), g) : g \in Groups(b)}
           single == {GroupComponent(a, rm, Singly(a), RolesOfOwners(a), g) : g \in Singly(a)}
<1>1. /\ b.operations = {GroupOperation(a, rm, Groups(b), p[1], p[2]) : p \in Holdings(a)}
      /\ base.operations = {GroupOperation(a, rm, Singly(a), p[1], p[2]) : p \in Holdings(a)}
  BY OperationsImplied DEF BaselineBackend, WithQuestions, AssembleBackend, Holdings
<1>2. b.policies = {GroupPolicy(a, rm, Groups(b), grouped, x) : x \in Policed(a)}
  BY DEF BackendContract, AssembleBackend, Groups, RoleIn, Policed
<1>3. base.policies = {GroupPolicy(a, rm, Singly(a), single, x) : x \in Policed(a)}
  BY DEF BaselineBackend, WithQuestions, AssembleBackend, Policed
<1> HIDE DEF base, grouped, single
<1>4. AuthorityOf(b) = {OperationAuthority(a, rm, p[1], p[2]) : p \in Holdings(a)}
                          \cup {PolicyAuthority(a, rm, x) : x \in Policed(a)}
  <2>1. b.operations = {GroupOperation(a, rm, Groups(b), p[1], p[2]) : p \in Holdings(a)}
    BY <1>1
  <2>. QED
    BY ONLY <2>1, <1>2, AuthorityWithoutGroups
<1>5. AuthorityOf(base) = {OperationAuthority(a, rm, p[1], p[2]) : p \in Holdings(a)}
                             \cup {PolicyAuthority(a, rm, x) : x \in Policed(a)}
  BY <1>1, <1>3, AuthorityWithoutGroups
<1>. QED
  BY <1>4, <1>5 DEF base

-----------------------------------------------------------------------------
(* What a plan says to keep *)

LEMMA StoreInBaseline ==
    ASSUME NEW i, NEW p, NEW decisions, Persistent(p) # {}
    PROVE  \E r \in BaselineArchitecture(i, p, decisions).components :
              r.category = "storage" /\ r.sources = PlanSources(Persistent(p))
<1> DEFINE store == Component(Store, "storage", PlanSources(Persistent(p)), {}, "application")
           bare == BareComponents(i, p, decisions)
           edges == Interfaces(i, p, decisions)
           reached == {e.destination : e \in {f \in edges : f.source = store.id}} \cap {c.id : c \in bare}
           r == [store EXCEPT !.dependencies = reached]
<1>1. store \in bare
  BY DEF BareComponents
<1>2. r \in WithDependencies(bare, edges)
  BY <1>1 DEF WithDependencies
<1>3. r.category = "storage" /\ r.sources = PlanSources(Persistent(p))
  BY DEF Component
<1> HIDE DEF r
<1>. QED
  BY <1>2, <1>3 DEF BaselineArchitecture

LEMMA PersistentState ==
    ASSUME NEW i, NEW p, NEW decisions, NEW a,
           ArchitectureCandidate(i, p, decisions, BaselineArchitecture(i, p, decisions), a),
           NEW c \in Persistent(p), NEW owner \in OwnersIn(a, {PlanSource(c)}), owner.category # "identity"
    PROVE  PlanSource(c) \in PersistentCapabilities(a)
<1>1. PICK r \in BaselineArchitecture(i, p, decisions).components :
          r.category = "storage" /\ r.sources = PlanSources(Persistent(p))
  BY StoreInBaseline
<1>2. PICK s \in a.components : s.category = "storage" /\ r.sources \subseteq s.sources
  BY <1>1 DEF ArchitectureCandidate, KeepsBoundaries
<1>3. PlanSource(c) \in StorageSources(a)
  <2>1. PlanSource(c) \in s.sources
    BY <1>1, <1>2 DEF PlanSources
  <2>. QED
    BY <1>2, <2>1 DEF StorageSources
<1>4. owner \in a.components /\ PlanSource(c) \in owner.owned
  BY DEF OwnersIn
<1>5. PlanSource(c) \in PersistentIn(a, owner)
  BY <1>3, <1>4 DEF PersistentIn
<1>. QED
  BY <1>4, <1>5 DEF PersistentCapabilities, PersistentOwners

LEMMA EntityHolding ==
    ASSUME NEW a, NEW chosen, NEW base, NEW m, NEW cs, ModelCandidate(a, chosen, base, m),
           NEW s \in PersistentCapabilities(a)
    PROVE  \E e \in ResolvedModel(m, cs).entities : s \in e.owned
<1>1. PICK e \in m.entities : s \in e.owned
  BY DEF ModelCandidate, AllOwned, Owning
<1>2. ResolvedEntity(e) \in ResolvedModel(m, cs).entities /\ ResolvedEntity(e).owned = e.owned
  BY DEF ResolvedModel, ResolvedEntity
<1>. QED
  BY <1>1, <1>2

LEMMA BindingOf ==
    ASSUME NEW a, NEW rm, NEW b, BackendContract(a, rm, b), NEW e \in rm.entities
    PROVE  \E x \in b.bindings : x.entity = e.owned
<1> DEFINE Holder(f) == GroupOf(Groups(b), (CHOOSE c \in BackendOwners(a) : c.owned \cap f.owned # {}).id)
<1>1. b.bindings = {[entity |-> f.owned, component |-> Holder(f)] : f \in rm.entities}
  BY DEF BackendContract, AssembleBackend, Groups
<1>2. [entity |-> e.owned, component |-> Holder(e)] \in b.bindings
  BY <1>1
<1> HIDE DEF Holder
<1>. QED
  BY <1>2

\* Whatever adapters merge, recategorise and regroup at four stages, each
\* capability of the approved plan is run by its owner's group, once.
THEOREM PlanIsOperated == PipelineSpec => []CapabilitiesOperated
<1>1. PipelineInit => PipelineInv
  BY DEF PipelineInit, PipelineInv, AfterArchitecture, AfterModel, AfterBackend
<1>2. PipelineInv /\ [PipelineNext]_pipelineVars => PipelineInv'
  BY PipelineInvNext
<1>3. PipelineInv => CapabilitiesOperated
  <2> SUFFICES ASSUME PipelineInv, Requested, NEW c \in plan.capabilities
               PROVE  \E o \in backend.operations, owner \in OwnersOfCapability(c) :
                         /\ {p \in backend.operations : p.capability = PlanSource(c)} = {o}
                         /\ OwnersOfCapability(c) = {owner}
                         /\ owner.id \in o.component
    BY DEF CapabilitiesOperated
  <2>1. OwnershipExact(plan, architecture.components)
    BY DEF PipelineInv, Requested, AfterArchitecture, AfterBackend, ArchitectureCandidate, ArchitectureContract
  <2>2. BackendContract(architecture, ResolvedState, backend)
    BY DEF PipelineInv, Requested, AfterBackend, BackendCandidate
  <2>. QED
    BY <2>1, <2>2, EveryCapabilityOperated DEF OwnersOfCapability
<1>. QED
  BY <1>1, <1>2, <1>3, PTL DEF PipelineSpec

\* What the plan says to keep is bound to an entity of an owner, or was given to
\* an identity boundary by an approved architecture.
THEOREM StateStaysKept == PipelineSpec => []StateKept
<1>1. PipelineInit => PipelineInv
  BY DEF PipelineInit, PipelineInv, AfterArchitecture, AfterModel, AfterBackend
<1>2. PipelineInv /\ [PipelineNext]_pipelineVars => PipelineInv'
  BY PipelineInvNext
<1>3. PipelineInv => StateKept
  <2> SUFFICES ASSUME PipelineInv, Requested, NEW c \in Persistent(plan),
                      ~\E o \in OwnersOfCapability(c) : o.category = "identity"
               PROVE  \E x \in backend.bindings : PlanSource(c) \in x.entity
    BY DEF StateKept
  <2>1. /\ ArchitectureCandidate(idea, plan, planDecisions, ArchitectureBaseline, architecture)
        /\ ModelCandidate(architecture, choices, ModelBaseline, model)
        /\ BackendContract(architecture, ResolvedState, backend)
    BY DEF PipelineInv, Requested, AfterArchitecture, AfterModel, AfterBackend, BackendCandidate
  <2>2. c \in plan.capabilities
    BY DEF Persistent
  <2>3. PICK owner \in OwnersIn(architecture, {PlanSource(c)}) : TRUE
    <3>1. OwnershipExact(plan, architecture.components)
      BY <2>1 DEF ArchitectureCandidate, ArchitectureContract
    <3>. QED
      BY <2>2, <3>1, OwnerOfCapability
  <2>4. owner.category # "identity"
    BY <2>3 DEF OwnersOfCapability
  <2>5. PlanSource(c) \in PersistentCapabilities(architecture)
    BY <2>1, <2>3, <2>4, PersistentState DEF ArchitectureBaseline
  <2>6. PICK e \in ResolvedState.entities : PlanSource(c) \in e.owned
    BY <2>1, <2>5, EntityHolding DEF ResolvedState
  <2>. QED
    BY <2>1, <2>6, BindingOf
<1>. QED
  BY <1>1, <1>2, <1>3, PTL DEF PipelineSpec

\* No grouping of owners changes what an operation may touch or where a policy
\* holds.
THEOREM AuthorityStays == PipelineSpec => []GroupingKeepsAuthority
<1>1. PipelineInit => PipelineInv
  BY DEF PipelineInit, PipelineInv, AfterArchitecture, AfterModel, AfterBackend
<1>2. PipelineInv /\ [PipelineNext]_pipelineVars => PipelineInv'
  BY PipelineInvNext
<1>3. PipelineInv => GroupingKeepsAuthority
  BY SameAuthority DEF PipelineInv, Requested, AfterBackend, BackendCandidate, GroupingKeepsAuthority
<1>. QED
  BY <1>1, <1>2, <1>3, PTL DEF PipelineSpec

-----------------------------------------------------------------------------
(* What an eligible request maps is supported *)

Represented(p, rm) == {x.entity : x \in Modules(p, rm)}

LEMMA MappingSupported ==
    ASSUME NEW kind, NEW about, NEW supported, NEW otherwise, otherwise # Supported,
           Mapping(kind, about, supported, otherwise).status = Supported
    PROVE  supported
BY DEF Mapping

LEMMA NothingBlocks ==
    ASSUME NEW i, NEW p, NEW decisions, NEW a, NEW chosen, NEW rm, NEW b,
           Request(i, p, decisions, a, chosen, rm, b).eligible
    PROVE  LET supported == SupportedComponents(i, p, a, Modules(p, rm), b) IN
           /\ Modules(p, rm) # {}
           /\ \A x \in StateMappings(p, rm, b) : x.status = Supported
           /\ \A x \in OperationMappings(i, p, supported, b) : x.status = Supported
           /\ \A x \in DecisionMappings(p, decisions, chosen, Modules(p, rm)) : x.status = Supported
<1> HIDE DEF Supported
<1> DEFINE modules == Modules(p, rm)
           supported == SupportedComponents(i, p, a, modules, b)
           mappings == StateMappings(p, rm, b) \cup ComponentMappings(supported, b)
                          \cup OperationMappings(i, p, supported, b)
                          \cup PolicyMappings(i, a, supported, b)
                          \cup DecisionMappings(p, decisions, chosen, modules)
                          \cup ConstraintMappings(p) \cup ChoiceMappings(b)
           blockers == {x \in mappings : x.status # Supported}
<1>1. Request(i, p, decisions, a, chosen, rm, b).eligible = (modules # {} /\ blockers = {})
  BY DEF Request
<1>2. modules # {} /\ \A x \in mappings : x.status = Supported
  BY <1>1
<1>. QED
  BY <1>2

LEMMA EligibleMaps ==
    ASSUME NEW i, NEW p, NEW decisions, NEW a, NEW chosen, NEW rm, NEW b,
           Request(i, p, decisions, a, chosen, rm, b).eligible
    PROVE  /\ Modules(p, rm) # {}
           /\ \A e \in rm.entities : e.owned \in Represented(p, rm)
           /\ \A o \in b.operations :
                 /\ o.capability \in StandardCapabilities(p) \cup AuthCapabilities(p)
                 /\ o.component \in SupportedComponents(i, p, a, Modules(p, rm), b)
                 /\ AuthenticationStandard(i)
           /\ decisions = {}
           /\ \A d \in chosen : \/ FromChoice(d) \in UNION {x.decisions : x \in Modules(p, rm)}
                                \/ d.accepted = {LocalRuntime}
<1> DEFINE modules == Modules(p, rm)
           supported == SupportedComponents(i, p, a, modules, b)
<1>0. Uncertified # Supported
  BY DEF Uncertified, Supported
<1>1. \A e \in rm.entities : e.owned \in Represented(p, rm)
  <2> SUFFICES ASSUME NEW e \in rm.entities PROVE e.owned \in Represented(p, rm)
    OBVIOUS
  <2>1. Mapping("logical_state", e.owned, e.owned \in Represented(p, rm), Uncertified) \in StateMappings(p, rm, b)
    BY DEF StateMappings, Represented
  <2>2. Mapping("logical_state", e.owned, e.owned \in Represented(p, rm), Uncertified).status = Supported
    BY <2>1, NothingBlocks
  <2>. QED
    BY <1>0, <2>2 DEF Mapping
<1>2. ASSUME NEW o \in b.operations
      PROVE  /\ o.capability \in StandardCapabilities(p) \cup AuthCapabilities(p)
             /\ o.component \in supported /\ AuthenticationStandard(i)
  <2> DEFINE is == /\ o.capability \in StandardCapabilities(p) \cup AuthCapabilities(p)
                   /\ o.component \in supported /\ AuthenticationStandard(i)
  <2>1. Mapping("operation", o.capability, is, Uncertified) \in OperationMappings(i, p, supported, b)
    BY DEF OperationMappings
  <2> HIDE DEF is
  <2>2. is
    BY <1>0, <2>1, NothingBlocks, MappingSupported
  <2>. QED
    BY <2>2 DEF is
<1>3. decisions = {}
  <2> SUFFICES ASSUME NEW d \in decisions PROVE FALSE
    OBVIOUS
  <2>1. Mapping("plan decision", d, FALSE, Uncertified) \in DecisionMappings(p, decisions, chosen, modules)
    BY DEF DecisionMappings
  <2>. QED
    BY <1>0, <2>1, NothingBlocks, MappingSupported
<1>4. ASSUME NEW d \in chosen
      PROVE  FromChoice(d) \in UNION {x.decisions : x \in modules} \/ d.accepted = {LocalRuntime}
  <2> DEFINE is == \/ FromChoice(d) \in UNION {x.decisions : x \in modules}
                   \/ /\ StandardCapabilities(p) # {} /\ d.area = "deployment"
                      /\ d.accepted = {LocalRuntime}
  <2>1. Mapping("architecture decision", d, is, Uncertified) \in DecisionMappings(p, decisions, chosen, modules)
    BY DEF DecisionMappings
  <2>2. Mapping("architecture decision", d, is, Uncertified).status = Supported
    BY <2>1, NothingBlocks
  <2> HIDE DEF is
  <2>3. is
    BY <1>0, <2>2 DEF Mapping
  <2>. QED
    BY <2>3 DEF is
<1>5. modules # {}
  BY NothingBlocks
<1>. QED
  BY <1>1, <1>2, <1>3, <1>4, <1>5

LEMMA EntitiesApart ==
    ASSUME NEW a, NEW chosen, NEW base, NEW m, NEW cs, ModelCandidate(a, chosen, base, m),
           NEW e \in ResolvedModel(m, cs).entities, NEW f \in ResolvedModel(m, cs).entities,
           e.owned = f.owned
    PROVE  e = f
<1>1. PICK x \in m.entities, y \in m.entities : e = ResolvedEntity(x) /\ f = ResolvedEntity(y)
  BY DEF ResolvedModel
<1>2. x.owned = y.owned /\ x.owned # {}
  BY <1>1 DEF ResolvedEntity, ModelCandidate, ModelContract, EntitySound
<1>3. x = y
  BY <1>2 DEF ModelCandidate, ModelContract
<1>. QED
  BY <1>1, <1>3

\* a module is of one entity, which translates, and has all its fields
LEMMA ModuleOf ==
    ASSUME NEW a, NEW chosen, NEW base, NEW m, NEW cs, ModelCandidate(a, chosen, base, m),
           NEW p, NEW e \in ResolvedModel(m, cs).entities,
           e.owned \in Represented(p, ResolvedModel(m, cs))
    PROVE  /\ EntityTranslates(p, ResolvedModel(m, cs), e)
           /\ \E x \in Modules(p, ResolvedModel(m, cs)) :
                 /\ x.entity = e.owned
                 /\ {f.field : f \in e.fields} = x.declarations \cup x.managed
                 /\ \A r \in ResolvedModel(m, cs).rules : e.owned \in r.entities => r \in x.rules
<1> DEFINE rm == ResolvedModel(m, cs)
<1>1. PICK f \in rm.entities : EntityTranslates(p, rm, f) /\ ModuleFor(rm, f).entity = e.owned
  BY DEF Represented, Modules
<1>2. f.owned = e.owned
  BY <1>1 DEF ModuleFor
<1>3. f = e
  BY <1>2, EntitiesApart
<1> DEFINE x == ModuleFor(rm, e)
<1>4. x \in Modules(p, rm)
  BY <1>1, <1>3 DEF Modules
<1>5. /\ x.entity = e.owned /\ {g.field : g \in e.fields} = x.declarations \cup x.managed
      /\ \A r \in rm.rules : e.owned \in r.entities => r \in x.rules
  BY DEF ModuleFor
<1> HIDE DEF rm, x
<1>. QED
  BY <1>1, <1>3, <1>4, <1>5 DEF rm

\* content that a choice is the evidence of was declared by the choice
LEMMA EvidenceDeclares ==
    ASSUME NEW m, NEW chosen, NEW evidence, NEW declared, NEW content, NEW affected,
           Authorised(m, chosen, evidence, declared, content, affected),
           NEW d, evidence = FromChoice(d)
    PROVE  d.accepted \subseteq DOMAIN declared
<1>1. ~\E q : evidence = <<"question", q>>
  BY DEF FromChoice
<1>2. PICK c \in chosen, v \in DOMAIN declared : evidence = FromChoice(c) /\ c.accepted = {v}
  BY <1>1 DEF Authorised
<1>3. c = d
  BY <1>2 DEF FromChoice
<1>. QED
  BY <1>2, <1>3

LEMMA DecisionsDeclare ==
    ASSUME NEW a, NEW chosen, NEW base, NEW m, NEW cs, ModelCandidate(a, chosen, base, m),
           NEW p, NEW d, FromChoice(d) \in UNION {x.decisions : x \in Modules(p, ResolvedModel(m, cs))}
    PROVE  d.accepted \subseteq DOMAIN FieldOf \cup DOMAIN RuleOf
<1> DEFINE rm == ResolvedModel(m, cs)
<1>1. PICK e \in rm.entities : FromChoice(d) \in ModuleFor(rm, e).decisions
  BY DEF Modules
<1>2. \/ \E f \in e.fields : FromChoice(d) = f.evidence
      \/ \E r \in rm.rules : FromChoice(d) = r.evidence
  BY <1>1 DEF ModuleFor
<1>3. ASSUME NEW f \in e.fields, FromChoice(d) = f.evidence PROVE d.accepted \subseteq DOMAIN FieldOf
  <2>1. PICK x \in m.entities : f \in x.fields
    BY DEF ResolvedModel, ResolvedEntity
  <2>2. Authorised(m, chosen, f.evidence, FieldOf, f.field, {x.owned})
    BY <2>1 DEF ModelCandidate, ModelContract, EntitySound, FieldSound
  <2>. QED
    BY <1>3, <2>2, EvidenceDeclares
<1>4. ASSUME NEW r \in rm.rules, FromChoice(d) = r.evidence PROVE d.accepted \subseteq DOMAIN RuleOf
  <2>1. r \in m.rules
    BY DEF ResolvedModel
  <2>2. Authorised(m, chosen, r.evidence, RuleOf, r.rule, r.entities)
    BY <2>1 DEF ModelCandidate, ModelContract
  <2>. QED
    BY <1>4, <2>2, EvidenceDeclares
<1>. QED
  BY <1>2, <1>3, <1>4

\* who runs an operation holds it, in a role of its owner's
LEMMA RunnerHolds ==
    ASSUME NEW a, NEW rm, NEW b, BackendContract(a, rm, b), NEW owner \in BackendOwners(a),
           NEW s \in owner.owned, NEW d \in b.components, owner.id \in d.owners
    PROVE  s \in d.owned /\ d.role \in RolesFor[owner.category]
<1>1. PICK g \in Groups(b) : d = GroupComponent(a, rm, Groups(b), RoleIn(b), g)
  <2>1. b.components = {GroupComponent(a, rm, Groups(b), RoleIn(b), g) : g \in Groups(b)}
    BY DEF BackendContract, AssembleBackend, Groups, RoleIn
  <2>. QED
    BY <2>1
<1>2. d.owners = g /\ d.owned = OwnedBy({c \in BackendOwners(a) : c.id \in g})
  BY <1>1 DEF GroupComponent
<1>3. s \in d.owned
  BY <1>2 DEF OwnedBy
<1>. QED
  BY <1>3 DEF BackendContract, GroupingSound

LEMMA CapabilityPlaced ==
    ASSUME NEW i, NEW p, NEW decisions, NEW a, NEW chosen, NEW base, NEW m, NEW cs, NEW b,
           ArchitectureCandidate(i, p, decisions, BaselineArchitecture(i, p, decisions), a),
           ModelCandidate(a, chosen, base, m), BackendContract(a, ResolvedModel(m, cs), b),
           Request(i, p, decisions, a, chosen, ResolvedModel(m, cs), b).eligible,
           NEW c \in p.capabilities
    PROVE  \/ c.value = <<Authentication>>
           \/ /\ c.value[1] \in Standard
              /\ \E x \in Modules(p, ResolvedModel(m, cs)) : PlanSource(c) \in x.entity
<1> DEFINE rm == ResolvedModel(m, cs)
           supported == SupportedComponents(i, p, a, Modules(p, rm), b)
<1>1. PICK o \in b.operations, owner \in OwnersIn(a, {PlanSource(c)}) :
          o.capability = PlanSource(c) /\ owner.id \in o.component
  <2>1. OwnershipExact(p, a.components)
    BY DEF ArchitectureCandidate, ArchitectureContract
  <2>. QED
    BY <2>1, EveryCapabilityOperated
<1>2. o.capability \in StandardCapabilities(p) \cup AuthCapabilities(p) /\ o.component \in supported
  BY EligibleMaps
<1>3. PICK d \in b.components : d.owners = o.component /\ ComponentSupported(i, p, a, Modules(p, rm), d)
  BY <1>2 DEF SupportedComponents
<1>4. owner \in BackendOwners(a) /\ PlanSource(c) \in owner.owned
  BY DEF OwnersIn, BackendOwners
<1>5. PlanSource(c) \in d.owned /\ d.role \in RolesFor[owner.category]
  BY <1>1, <1>3, <1>4, RunnerHolds
<1>6. ASSUME PlanSource(c) \in AuthCapabilities(p) PROVE c.value = <<Authentication>>
  BY <1>6 DEF AuthCapabilities, PlanSources, PlanSource
<1>7. ASSUME PlanSource(c) \in StandardCapabilities(p), owner.category # "identity"
      PROVE  c.value[1] \in Standard /\ \E x \in Modules(p, rm) : PlanSource(c) \in x.entity
  <2>1. c.value[1] \in Standard
    BY <1>7 DEF StandardCapabilities, PlanSources, PlanSource
  <2>2. c \in Persistent(p)
    BY <2>1, StandardIsManaged DEF Persistent
  <2>3. PlanSource(c) \in PersistentCapabilities(a)
    BY <1>7, <2>2, PersistentState
  <2>4. PICK e \in rm.entities : PlanSource(c) \in e.owned
    BY <2>3, EntityHolding
  <2>5. e.owned \in Represented(p, rm)
    BY EligibleMaps
  <2>. QED
    BY <2>1, <2>4, <2>5 DEF Represented
<1>8. ASSUME owner.category = "identity" PROVE c.value = <<Authentication>>
  <2>1. d.role = "identity_boundary"
    BY <1>5, <1>8 DEF RolesFor
  <2>2. d.owned \subseteq AuthCapabilities(p)
    BY <1>3, <2>1 DEF ComponentSupported
  <2>. QED
    BY <1>5, <1>6, <2>2
<1>. QED
  BY <1>1, <1>2, <1>6, <1>7, <1>8

\* somebody signs in as the generated checks expect: a module has operations
LEMMA SignInStandard ==
    ASSUME NEW i, NEW p, NEW decisions, NEW a, NEW chosen, NEW base, NEW m, NEW cs, NEW b,
           ModelCandidate(a, chosen, base, m), BackendContract(a, ResolvedModel(m, cs), b),
           Request(i, p, decisions, a, chosen, ResolvedModel(m, cs), b).eligible
    PROVE  i.authentication = {StandardAuthority}
<1>1. PICK e \in ResolvedModel(m, cs).entities : TRUE
  BY EligibleMaps DEF Modules
<1>2. PICK x \in m.entities : e = ResolvedEntity(x)
  BY DEF ResolvedModel
<1>3. PICK s \in x.owned : TRUE
  BY DEF ModelCandidate, ModelContract, EntitySound
<1>4. s \in PersistentCapabilities(a)
  BY DEF ModelCandidate, AllOwned, Owning
<1>5. PICK c \in a.components : s \in c.owned
  BY <1>4 DEF PersistentCapabilities, PersistentOwners, PersistentIn
<1>6. <<c, s>> \in Holdings(a)
  BY <1>5 DEF Holdings, BackendOwners, OwnedBy
<1>7. \E o \in b.operations : TRUE
  BY <1>6, OperationsImplied
<1>. QED
  BY <1>7, EligibleMaps DEF AuthenticationStandard

\* A request with no blocker leaves out no capability, entity, field, rule,
\* claim or decision that was approved.
THEOREM EligibleLeavesNothing == PipelineSpec => []EligibleIsComplete
<1>1. PipelineInit => PipelineInv
  BY DEF PipelineInit, PipelineInv, AfterArchitecture, AfterModel, AfterBackend
<1>2. PipelineInv /\ [PipelineNext]_pipelineVars => PipelineInv'
  BY PipelineInvNext
<1>3. PipelineInv => EligibleIsComplete
  <2> SUFFICES ASSUME PipelineInv, request # Nothing, request.eligible PROVE EligibleIsComplete
    BY DEF EligibleIsComplete
  <2>1. /\ ArchitectureCandidate(idea, plan, planDecisions, ArchitectureBaseline, architecture)
        /\ ModelCandidate(architecture, choices, ModelBaseline, model)
        /\ \A c \in claims : c.entity \in Owning(model)
        /\ BackendContract(architecture, ResolvedState, backend)
        /\ request = RequestFor(backend)
    BY DEF PipelineInv, AfterArchitecture, AfterModel, AfterBackend, BackendCandidate
  <2>2. RequestFor(backend).eligible /\ request.modules = Modules(plan, ResolvedState)
    BY <2>1 DEF RequestFor, Request
  <2>3. Request(idea, plan, planDecisions, architecture, choices, ResolvedModel(model, claims), backend).eligible
    BY <2>2 DEF RequestFor, ResolvedState
  <2>4. idea.authentication = {StandardAuthority}
    BY <2>1, <2>3, SignInStandard DEF ResolvedState
  <2>5. planDecisions = {}
    BY <2>3, EligibleMaps
  <2>6. ASSUME NEW c \in plan.capabilities
        PROVE  \/ c.value = <<Authentication>>
               \/ c.value[1] \in Standard /\ \E x \in request.modules : PlanSource(c) \in x.entity
    BY <2>1, <2>2, <2>3, CapabilityPlaced DEF ArchitectureBaseline, ResolvedState
  <2>7. ASSUME NEW e \in ResolvedState.entities
        PROVE  /\ EntityTranslates(plan, ResolvedState, e)
               /\ \E x \in request.modules :
                     /\ x.entity = e.owned
                     /\ {f.field : f \in e.fields} = x.declarations \cup x.managed
                     /\ \A r \in ResolvedState.rules : e.owned \in r.entities => r \in x.rules
    <3>1. e.owned \in Represented(plan, ResolvedState)
      BY <2>3, EligibleMaps DEF ResolvedState
    <3>. QED
      BY <2>1, <2>2, <3>1, ModuleOf DEF ResolvedState
  <2>8. ASSUME NEW c \in claims PROVE c.area \notin {"retention", "external_reference", "field"}
    <3>1. PICK x \in model.entities : x.owned = c.entity
      BY <2>1 DEF Owning
    <3>2. ResolvedEntity(x) \in ResolvedState.entities /\ ResolvedEntity(x).owned = c.entity
      BY <3>1 DEF ResolvedState, ResolvedModel, ResolvedEntity
    <3>3. EntityTranslates(plan, ResolvedState, ResolvedEntity(x)) /\ ResolvedState.claims = claims
      BY <2>7, <3>2 DEF ResolvedState, ResolvedModel
    <3>4. ClaimRepresented(ResolvedEntity(x), c)
      BY <3>2, <3>3 DEF EntityTranslates
    <3>. QED
      BY <3>4 DEF ClaimRepresented
  <2>9. ASSUME NEW d \in choices
        PROVE  d.accepted = {LocalRuntime} \/ d.accepted \subseteq DOMAIN FieldOf \cup DOMAIN RuleOf
    BY <2>1, <2>3, EligibleMaps, DecisionsDeclare
  <2>10. ASSUME NEW r \in ResolvedState.rules, NEW o \in r.entities
         PROVE  \E x \in request.modules : x.entity = o /\ r \in x.rules
    <3>1. r \in model.rules
      BY DEF ResolvedState, ResolvedModel
    <3>2. PICK x \in model.entities : x.owned = o
      BY <2>1, <3>1 DEF ModelCandidate, ModelContract, Owning
    <3>3. ResolvedEntity(x) \in ResolvedState.entities /\ ResolvedEntity(x).owned = o
      BY <3>2 DEF ResolvedState, ResolvedModel, ResolvedEntity
    <3>. QED
      BY <2>7, <3>3
  <2>. QED
    BY <2>4, <2>5, <2>6, <2>7, <2>8, <2>9, <2>10 DEF EligibleIsComplete
<1>. QED
  BY <1>1, <1>2, <1>3, PTL DEF PipelineSpec
=============================================================================
