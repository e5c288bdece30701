---------------------- MODULE BuildOrchestrationProofs ----------------------
(***************************************************************************)
(* Proofs about builds: for any surfaces, builders, generations, evidence, *)
(* edits and deaths.  The inductive invariant says of each builder whose   *)
(* lock it works under, what its validation has established so far, and    *)
(* that no validation gets past a surface known to be changed by the user. *)
(***************************************************************************)
EXTENDS BuildOrchestration, TLAPS, FiniteSetTheorems, SequenceTheorems,
        WellFoundedInduction

(* Surfaces are copied in order: there is a first of those that are left.  *)
LEMMA FirstLeft ==
    ASSUME HarnessAssumption, Uncopied # {}
    PROVE  NextSurface \in Uncopied
<1> DEFINE Less == {pair \in Nat \X Nat : pair[1] < pair[2]}
<1>1. Uncopied \subseteq Nat
  BY DEF Uncopied, HarnessAssumption
<1>2. IsWellFoundedOn(Less, Nat)
  BY NatLessThanWellFounded DEF OpToRel
<1>3. PICK s \in Uncopied : \A r \in Uncopied : <<r, s>> \notin Less
  <2> HIDE DEF Less
  <2> QED
    BY <1>1, <1>2, WFMin
<1>4. \A r \in Uncopied : s <= r
  <2> SUFFICES ASSUME NEW r \in Uncopied PROVE s <= r
    OBVIOUS
  <2>1. <<r, s>> \in Nat \X Nat /\ <<r, s>>[1] = r /\ <<r, s>>[2] = s
    BY <1>1
  <2>2. ~(r < s)
    BY <1>3, <2>1
  <2> QED
    BY <1>1, <2>2
<1> QED
  BY <1>4 DEF NextSurface

-----------------------------------------------------------------------------
(* What a validation has done when it ends well, before it says so.        *)
AllPassed(report) == \A i \in DOMAIN report : report[i].success
Smoked(report) == \E i \in DOMAIN report : report[i] = Passed("API_SMOKE")
Whole(g) == workspace = [s \in Surfaces |-> g]

HarnessInv(g) ==
    /\ at = "prepare" => workspace \in [Surfaces -> {0, g}]
    /\ at \in {"start", "probe", "stop", "reap"} => Whole(g)
    /\ at \in {"stop", "reap"} /\ AllPassed(phases) => Smoked(phases)
    /\ at = "done" /\ AllPassed(phases) => Whole(g) /\ Smoked(phases) /\ ~Alive

(* One more result.                                                        *)
LEMMA ResultAdded ==
    ASSUME NEW report \in Seq(Results), NEW r \in Results
    PROVE  /\ Append(report, r) \in Seq(Results)
           /\ AllPassed(Append(report, r)) <=> AllPassed(report) /\ r.success
           /\ Smoked(report) => Smoked(Append(report, r))
<1> DEFINE new == Append(report, r)
<1>1. /\ new \in Seq(Results) /\ Len(new) = Len(report) + 1
      /\ \A i \in 1..Len(report) : new[i] = report[i]
      /\ new[Len(report) + 1] = r
  BY AppendProperties
<1>2. /\ Len(report) \in Nat
      /\ DOMAIN report = 1..Len(report) /\ DOMAIN new = 1..(Len(report) + 1)
  BY <1>1
<1> HIDE DEF new
<1> QED
  BY <1>1, <1>2 DEF AllPassed, Smoked, new

(* The results of an answer to the health check are added at once.         *)
LEMMA ResultsAdded ==
    ASSUME NEW report \in Seq(Results), NEW more \in Seq(Results)
    PROVE  /\ report \o more \in Seq(Results)
           /\ AllPassed(report \o more) => AllPassed(more)
           /\ Smoked(more) => Smoked(report \o more)
<1> DEFINE new == report \o more
<1>1. /\ new \in Seq(Results) /\ Len(new) = Len(report) + Len(more)
      /\ \A i \in 1..Len(report) + Len(more) :
             new[i] = IF i <= Len(report) THEN report[i] ELSE more[i - Len(report)]
  BY ConcatProperties
<1>2. /\ Len(report) \in Nat /\ Len(more) \in Nat
      /\ DOMAIN more = 1..Len(more) /\ DOMAIN new = 1..(Len(report) + Len(more))
  BY <1>1
<1> HIDE DEF new
<1>3. \A j \in DOMAIN more : /\ Len(report) + j \in DOMAIN new
                             /\ new[Len(report) + j] = more[j]
  BY <1>1, <1>2
<1> QED
  BY <1>1, <1>3 DEF AllPassed, Smoked, new

LEMMA ResultsTyped ==
    ASSUME HarnessAssumption
    PROVE  /\ NoTrace \in Evidence
           /\ \A p \in Phases : Passed(p) \in Results /\ Passed(p).success
           /\ \A p \in Phases, e \in Evidence : Failed(p, e) \in Results /\ ~Failed(p, e).success
BY DEF NoTrace, Evidence, Passed, Failed, Results, Phases

LEMMA OneFailure ==
    ASSUME NEW r \in Results, ~r.success
    PROVE  <<r>> \in Seq(Results) /\ ~AllPassed(<<r>>)
BY DEF AllPassed

(* What the end of a validation appends to its results.                    *)
LEMMA Concluded ==
    ASSUME HarnessAssumption, NEW results \in Seq(Results), NEW raises \in BOOLEAN,
           Conclude(results, raises)
    PROVE  /\ phases' \in Seq(Results) /\ at' \in {"done", "raised"}
           /\ AllPassed(phases') => AllPassed(results)
           /\ Smoked(results) => Smoked(phases')
<1>1. Passed("SHUTDOWN") \in Results
  BY DEF Passed, Results, NoTrace, Evidence, Phases
<1>2. CASE phases' = results
  BY <1>2 DEF Conclude
<1>3. CASE phases' = Append(results, Passed("SHUTDOWN"))
  BY <1>1, <1>3, ResultAdded DEF Conclude
<1> QED
  BY <1>2, <1>3 DEF Conclude

HarnessStep(g) == HarnessStart \/ HarnessWork(g) \/ ChildWork

(* Types are kept by each step of a validation.                            *)
LEMMA HarnessTyped ==
    ASSUME HarnessAssumption, HarnessTypes, NEW g \in 1..MaxGeneration,
           HarnessStep(g), disk' \in [Surfaces -> Contents]
    PROVE  HarnessTypes'
<1>1. g \in Contents
  BY DEF Contents, Edited, HarnessAssumption
<1>2. NoTrace \in Evidence
  BY ResultsTyped
<1> USE DEF Phases
<1>3. CASE HarnessStart
  BY <1>2, <1>3 DEF HarnessStart, HarnessTypes, Places, Children
<1>4. CASE CopySurface(g)
  BY <1>1, <1>4 DEF CopySurface, HarnessTypes
<1>5. CASE SurfaceDiffers(g)
  <2>1. [named |-> {NextSurface}, hostile |-> FALSE] \in Evidence
    BY <1>5, FirstLeft DEF SurfaceDiffers, Evidence, Uncopied
  <2>2. phases' \in Seq(Results)
    BY <1>5, <2>1 DEF SurfaceDiffers, Failed, Results, Phases
  <2> QED
    BY <1>5, <2>2 DEF SurfaceDiffers, HarnessTypes, Places
<1>6. CASE PrepareFails \/ Prepared
  <2>1. Failed("PREPARE", NoTrace) \in Results /\ Passed("PREPARE") \in Results
    BY <1>2 DEF Failed, Passed, Results
  <2>2. CASE PrepareFails
    BY <2>1, <2>2 DEF PrepareFails, HarnessTypes, Places
  <2>3. CASE Prepared
    BY <2>1, <2>3 DEF Prepared, HarnessTypes, Places
  <2> QED
    BY <1>6, <2>2, <2>3
<1>7. ASSUME NEW p \in Phases, NEW e \in Evidence, StopWith(p, e)
      PROVE  phases' \in Seq(Results) /\ at' \in Places
  <2>1. Failed(p, e) \in Results
    BY ResultsTyped
  <2> QED
    BY <1>7, <2>1, ResultAdded DEF StopWith, HarnessTypes, Places
<1>8. CASE Launch
  <2>1. Passed("STARTUP") \in Results
    BY DEF Passed, Results, NoTrace, Evidence, Phases
  <2>2. phases' \in Seq(Results) /\ at' \in Places
    BY <1>2, <1>7, <1>8, <2>1, ResultAdded DEF Launch, HarnessTypes, Places
  <2> QED
    BY <1>8, <2>2 DEF Launch, HarnessTypes, Children
<1>9. CASE SeeExit
  <2>1. phases' \in Seq(Results) /\ at' \in Places
    BY <1>7, <1>9 DEF SeeExit, HarnessTypes
  <2> QED
    BY <1>2, <1>9, <2>1 DEF SeeExit, HarnessTypes
<1>10. CASE HealthAnswered
  <2> DEFINE good == <<Passed("IMPORT"), Passed("READINESS"), Passed("HEALTH"),
                       Passed("DATABASE"), Passed("API_SMOKE")>>
             bad == <<Passed("IMPORT"), Passed("READINESS"), Failed("HEALTH", NoTrace)>>
  <2>1. good \in Seq(Results) /\ bad \in Seq(Results)
    BY <1>2 DEF Passed, Failed, Results, Phases
  <2> HIDE DEF good, bad
  <2>2. phases \o good \in Seq(Results) /\ phases \o bad \in Seq(Results)
    BY <2>1, ConcatProperties DEF HarnessTypes
  <2>3. phases' \in Seq(Results) /\ at' \in Places
    BY <1>2, <1>7, <1>10, <2>2 DEF HealthAnswered, Places, good, bad
  <2> QED
    BY <1>10, <2>3 DEF HealthAnswered, HarnessTypes
<1>11. CASE DeadlinePasses
  <2>1. phases' \in Seq(Results) /\ at' \in Places
    BY <1>2, <1>7, <1>11 DEF DeadlinePasses
  <2> QED
    BY <1>11, <2>1 DEF DeadlinePasses, HarnessTypes
<1>12. Failed("SHUTDOWN", NoTrace) \in Results
  BY <1>2 DEF Failed, Results, Phases
<1>13. Append(phases, Failed("SHUTDOWN", NoTrace)) \in Seq(Results)
  BY <1>12, ResultAdded DEF HarnessTypes
<1>14. CASE AlreadyGone \/ ChildStopped \/ GoneLate \/ NotReaped
  <2>1. phases' \in Seq(Results) /\ at' \in Places
    BY <1>13, <1>14, Concluded
    DEF AlreadyGone, ChildStopped, GoneLate, NotReaped, HarnessTypes, Places
  <2> QED
    BY <1>14, <2>1
    DEF AlreadyGone, ChildStopped, GoneLate, NotReaped, HarnessTypes, Children
<1>15. CASE StopUnanswered
  BY <1>13, <1>15 DEF StopUnanswered, HarnessTypes, Places
<1>16. CASE ChildWork
  BY <1>2, <1>16 DEF ChildWork, ChildRuns, ChildDies, HarnessTypes, Children,
                     HarnessAssumption, Evidence
<1> QED
  BY <1>3, <1>4, <1>5, <1>6, <1>8, <1>9, <1>10, <1>11, <1>14, <1>15, <1>16
  DEF HarnessStep, HarnessWork

(* A validation that ends well has copied every surface of the generation  *)
(* it was asked for, seen its child answer, and seen it end.               *)
LEMMA HarnessSafe ==
    ASSUME HarnessAssumption, HarnessTypes, NEW g \in 1..MaxGeneration,
           HarnessInv(g) \/ HarnessStart, HarnessStep(g)
    PROVE  HarnessInv(g)'
<1> USE DEF HarnessTypes, Phases
<1>1. NoTrace \in Evidence
  BY ResultsTyped
<1>2. CASE HarnessStart
  BY <1>2 DEF HarnessStart, HarnessInv, Whole
<1> SUFFICES ASSUME HarnessInv(g), HarnessWork(g) \/ ChildWork
             PROVE  HarnessInv(g)'
  BY <1>2 DEF HarnessStep
<1>3. CASE CopySurface(g)
  BY <1>3 DEF CopySurface, HarnessInv
<1>4. CASE SurfaceDiffers(g) \/ PrepareFails
  <2>1. ~AllPassed(phases')
    BY <1>4 DEF SurfaceDiffers, PrepareFails, Failed, AllPassed
  <2> QED
    BY <1>4, <2>1 DEF SurfaceDiffers, PrepareFails, HarnessInv
<1>5. CASE Prepared
  BY <1>5 DEF Prepared, HarnessInv, Whole, Uncopied
<1>6. ASSUME NEW p \in Phases, NEW e \in Evidence, StopWith(p, e)
      PROVE  ~AllPassed(phases') /\ at' = "stop"
  <2>1. Failed(p, e) \in Results /\ ~Failed(p, e).success
    BY ResultsTyped
  <2> QED
    BY <1>6, <2>1, ResultAdded DEF StopWith
<1>7. CASE Launch
  <2>1. CASE StopWith("HEALTH", NoTrace)
    BY <1>1, <1>6, <1>7, <2>1 DEF Launch, HarnessInv, Whole
  <2>2. CASE at' = "probe"
    BY <1>7, <2>2 DEF Launch, HarnessInv, Whole
  <2> QED
    BY <1>7, <2>1, <2>2 DEF Launch
<1>8. CASE SeeExit \/ DeadlinePasses
  <2>1. ~AllPassed(phases') /\ at' = "stop"
    BY <1>1, <1>6, <1>8 DEF SeeExit, DeadlinePasses
  <2> QED
    BY <1>8, <2>1 DEF SeeExit, DeadlinePasses, HarnessInv, Whole
<1>9. CASE HealthAnswered
  <2> DEFINE good == <<Passed("IMPORT"), Passed("READINESS"), Passed("HEALTH"),
                       Passed("DATABASE"), Passed("API_SMOKE")>>
             bad == <<Passed("IMPORT"), Passed("READINESS"), Failed("HEALTH", NoTrace)>>
  <2>1. good \in Seq(Results) /\ bad \in Seq(Results)
    BY <1>1 DEF Passed, Failed, Results, Phases
  <2>2. good[5] = Passed("API_SMOKE") /\ 5 \in DOMAIN good
    OBVIOUS
  <2>3. ~bad[3].success /\ 3 \in DOMAIN bad
    BY DEF Failed
  <2>4. Smoked(good) /\ ~AllPassed(bad)
    BY <2>2, <2>3 DEF Smoked, AllPassed
  <2> HIDE DEF good, bad
  <2>5. Smoked(phases \o good) /\ ~AllPassed(phases \o bad)
    BY <2>1, <2>4, ResultsAdded
  <2>6. at' = "stop" /\ (AllPassed(phases') => Smoked(phases'))
    BY <1>1, <1>6, <1>9, <2>5 DEF HealthAnswered, good, bad
  <2> QED
    BY <1>9, <2>6 DEF HealthAnswered, HarnessInv, Whole
<1>10. CASE AlreadyGone \/ ChildStopped \/ GoneLate
  <2>1. at \in {"stop", "reap"} /\ Conclude(phases, FALSE) /\ workspace' = workspace /\ ~Alive'
    BY <1>10 DEF AlreadyGone, ChildStopped, GoneLate, Alive
  <2>2. at' \in {"done", "raised"} /\ (AllPassed(phases') => Smoked(phases'))
    BY <2>1, Concluded DEF HarnessInv
  <2> QED
    BY <2>1, <2>2 DEF HarnessInv, Whole
<1>11. Failed("SHUTDOWN", NoTrace) \in Results /\ ~Failed("SHUTDOWN", NoTrace).success
  BY <1>1 DEF Failed, Results, Phases
<1>12. /\ Append(phases, Failed("SHUTDOWN", NoTrace)) \in Seq(Results)
       /\ ~AllPassed(Append(phases, Failed("SHUTDOWN", NoTrace)))
  BY <1>11, ResultAdded
<1>13. CASE NotReaped
  <2>1. at' \in {"done", "raised"} /\ ~AllPassed(phases')
    BY <1>12, <1>13, Concluded DEF NotReaped
  <2> QED
    BY <2>1 DEF HarnessInv
<1>14. CASE StopUnanswered
  BY <1>12, <1>14 DEF StopUnanswered, HarnessInv, Whole
<1>15. CASE ChildWork
  BY <1>15 DEF ChildWork, ChildRuns, ChildDies, HarnessInv, Whole, Alive
<1> QED
  BY <1>3, <1>4, <1>5, <1>7, <1>8, <1>9, <1>10, <1>13, <1>14, <1>15 DEF HarnessWork

-----------------------------------------------------------------------------
(* The recovery planner only ever names surfaces, never a user's file.     *)
LEMMA PlanNamesSurfaces ==
    ASSUME NEW failure, NEW known \in SUBSET Surfaces
    PROVE  Plan(failure, Localize(failure, known), 0).surfaces \subseteq Surfaces
<1> DEFINE blame == Localize(failure, known)
           matched == failure.evidence.named \cap (Surfaces \cup UserFiles)
           boundary == matched \cap (known \cup UserFiles)
<1>1. \/ blame.confidence = "BOUNDARY"
      \/ blame.surfaces \subseteq Surfaces
  <2>1. CASE failure.evidence.hostile
    BY <2>1 DEF Localize, Blame
  <2>2. CASE ~failure.evidence.hostile /\ boundary # {}
    BY <2>2 DEF Localize, Blame
  <2>3. CASE ~failure.evidence.hostile /\ boundary = {} /\ matched # {}
    <3>1. blame.surfaces = matched
      BY <2>3 DEF Localize, BlameOneOf, Blame
    <3> QED
      BY <2>3, <3>1
  <2>4. CASE ~failure.evidence.hostile /\ boundary = {} /\ matched = {}
    BY <2>4 DEF Localize, ByPhase, BlameOneOf, Blame
  <2> QED
    BY <2>1, <2>2, <2>3, <2>4
<1> HIDE DEF blame
<1> QED
  BY <1>1 DEF Plan, Stop, Repair, Decision, blame

LEMMA InitType ==
    ASSUME HarnessAssumption, BuildAssumption, Init
    PROVE  TypeOK
BY DEF HarnessAssumption, BuildAssumption, Init, HarnessInit, TypeOK, HarnessTypes, NoPlan,
       Stop, Decision, Labels, Places, Children, Contents, Edited, Evidence, NoTrace

(* An event more, or three.                                                *)
BuildEvents == [phase : BuildPhases, success : BOOLEAN]
LEMMA EventsTyped ==
    ASSUME NEW new \in Seq(BuildEvents), events \in Seq(BuildEvents), Reports(new)
    PROVE  events' \in Seq(BuildEvents)
BY ConcatProperties DEF Reports

LEMMA EventTyped ==
    ASSUME NEW p \in BuildPhases, NEW s \in BOOLEAN
    PROVE  Event(p, s) \in BuildEvents
BY DEF Event, BuildEvents

LEMMA EventsOf ==
    ASSUME NEW e \in BuildEvents, NEW f \in BuildEvents
    PROVE  <<e>> \in Seq(BuildEvents) /\ <<e, f>> \in Seq(BuildEvents)
OBVIOUS

LEMMA ForgetsTyped ==
    ASSUME HarnessAssumption, HarnessTypes, Forgets, UNCHANGED disk
    PROVE  /\ HarnessTypes' /\ events' \in Seq(BuildEvents)
           /\ decision'.surfaces \subseteq Surfaces
BY DEF Forgets, HarnessTypes, Places, Children, NoTrace, Evidence, NoPlan, Stop, Decision

LEMMA TypeStep ==
    ASSUME HarnessAssumption, BuildAssumption, TypeOK, [Next]_vars
    PROVE  TypeOK'
<1> USE DEF TypeOK
<1>0. /\ events \in Seq(BuildEvents)
      /\ \A b \in Builders : pc[b] \in Labels /\ madeFor[b] \in 1..MaxGeneration
                             /\ madeFor[b] \in Contents
      /\ 1 \in 1..MaxGeneration
  BY DEF BuildEvents, HarnessAssumption, Contents, Edited
<1>1. CASE Harness \/ Child
  <2>1. PICK b \in Builders : lock = b
    BY <1>1 DEF Harness, Child, Validating
  <2>2. HarnessTypes'
    BY <1>0, <1>1, <2>1, HarnessTyped DEF Harness, Child, HarnessStep, HarnessTypes
  <2> QED
    BY <1>1, <2>2 DEF Harness, Child, buildVars
<1>2. CASE NewGeneration
  BY <1>2 DEF NewGeneration, harnessVars, HarnessTypes, HarnessAssumption
<1>3. ASSUME NEW s \in Surfaces, Generate(s) \/ Edit(s)
      PROVE  TypeOK'
  <2>1. disk' \in [Surfaces -> Contents]
    BY <1>3 DEF Generate, Edit, HarnessTypes, Contents, Edited, HarnessAssumption
  <2>2. HarnessTypes'
    BY <1>3, <2>1 DEF Generate, Edit, harnessVars, HarnessTypes
  <2> QED
    BY <1>3, <2>2 DEF Generate, Edit, buildVars, BuildAssumption
<1> SUFFICES ASSUME NEW b \in Builders,
                    Resume(b) \/ Build(b) \/ Crash(b) \/ Restart(b) \/ ClearLock(b)
             PROVE  TypeOK'
  <2>1. CASE UNCHANGED vars
    BY <2>1 DEF vars, harnessVars, buildVars, HarnessTypes
  <2> QED
    BY <1>1, <1>2, <1>3, <2>1 DEF Next
<1>4. ASSUME NEW place \in Labels, Goes(b, place)
      PROVE  pc' \in [Builders -> Labels]
  BY <1>4 DEF Goes
<1>5. ASSUME NotMade(b)
      PROVE  /\ madeFor' \in [Builders -> 1..MaxGeneration]
             /\ conflicted' \in [Builders -> SUBSET Surfaces]
  BY <1>0, <1>5 DEF NotMade
<1>6. CASE Resume(b)
  <2>1. HarnessTypes'
    BY <1>6 DEF Resume, harnessVars, HarnessTypes
  <2>2. \A g \in 1..generation : g \in 1..MaxGeneration
    BY DEF HarnessAssumption
  <2>3. /\ madeFor' \in [Builders -> 1..MaxGeneration]
        /\ conflicted' \in [Builders -> SUBSET Surfaces]
    BY <1>6, <2>2 DEF Resume
  <2>4. pc' \in [Builders -> Labels]
    BY <1>4, <1>6 DEF Resume, Labels
  <2> QED
    BY <1>6, <2>1, <2>3, <2>4 DEF Resume
<1>7. CASE TakeLock(b)
  <2>1. HarnessTypes' /\ decision'.surfaces \subseteq Surfaces
    BY <1>7 DEF TakeLock, HarnessTypes, Places, NoPlan, Stop, Decision
  <2>2. pc' \in [Builders -> Labels]
    BY <1>4, <1>7 DEF TakeLock, Labels, Working
  <2> QED
    BY <1>7, <2>1, <2>2 DEF TakeLock
<1>8. CASE Locked(b) \/ Restart(b) \/ ClearLock(b)
  <2>1. HarnessTypes'
    BY <1>8 DEF Locked, Restart, ClearLock, harnessVars, HarnessTypes
  <2>2. pc' \in [Builders -> Labels]
    BY <1>4, <1>8 DEF Locked, Restart, ClearLock, Labels
  <2>3. lock' \in Builders \cup {Nobody}
    BY <1>8 DEF Locked, Restart, ClearLock, Unlocks
  <2> QED
    BY <1>5, <1>8, <2>1, <2>2, <2>3 DEF Locked, Restart, ClearLock
<1>9. CASE JournalInput(b)
  <2>1. HarnessTypes'
    BY <1>9 DEF JournalInput, harnessVars, HarnessTypes
  <2>2. events' \in Seq(BuildEvents)
    <3>1. Event("VALIDATE_INPUT", TRUE) \in BuildEvents
      BY EventTyped DEF BuildPhases
    <3> QED
      BY <1>0, <1>9, <3>1, EventsOf, EventsTyped DEF JournalInput
  <2>3. pc' \in [Builders -> Labels]
    BY <1>4, <1>9 DEF JournalInput, Labels, Working
  <2> QED
    BY <1>9, <2>1, <2>2, <2>3 DEF JournalInput, BuildEvents
<1>10. CASE JournalGeneration(b)
  <2>1. HarnessTypes'
    BY <1>0, <1>10, HarnessTyped DEF JournalGeneration, HarnessStep, HarnessTypes
  <2>2. events' \in Seq(BuildEvents)
    <3>1. Event("VALIDATE_GENERATION", TRUE) \in BuildEvents
      BY EventTyped DEF BuildPhases
    <3> QED
      BY <1>0, <1>10, <3>1, EventsOf, EventsTyped DEF JournalGeneration
  <2>3. pc' \in [Builders -> Labels]
    BY <1>4, <1>10 DEF JournalGeneration, Labels, Working
  <2> QED
    BY <1>10, <2>1, <2>2, <2>3 DEF JournalGeneration, BuildEvents
<1>11. CASE SeeReport(b)
  <2>1. HarnessTypes'
    BY <1>11 DEF SeeReport, harnessVars, HarnessTypes
  <2>2. /\ <<Event("RUNTIME_VALIDATE", TRUE), Event("COMPLETE", TRUE)>> \in Seq(BuildEvents)
        /\ <<Event("RUNTIME_VALIDATE", FALSE)>> \in Seq(BuildEvents)
    <3>1. \A p \in {"RUNTIME_VALIDATE", "COMPLETE"}, s \in BOOLEAN : Event(p, s) \in BuildEvents
      BY EventTyped DEF BuildPhases
    <3> QED
      BY <3>1, EventsOf
  <2>3. events' \in Seq(BuildEvents)
    BY <1>0, <1>11, <2>2, EventsTyped DEF SeeReport
  <2>4. pc' \in [Builders -> Labels]
    BY <1>4, <1>11 DEF SeeReport, Labels, Working
  <2> QED
    BY <1>11, <2>1, <2>3, <2>4 DEF SeeReport, BuildEvents
<1>12. CASE Judge(b)
  <2>1. HarnessTypes'
    BY <1>12 DEF Judge, harnessVars, HarnessTypes
  <2>2. decision'.surfaces \subseteq Surfaces
    BY <1>12, PlanNamesSurfaces DEF Judge
  <2>3. /\ <<Event("LOCALIZE_FAILURE", TRUE), Event("FAILED", FALSE)>> \in Seq(BuildEvents)
        /\ <<Event("LOCALIZE_FAILURE", TRUE)>> \in Seq(BuildEvents)
    <3>1. \A p \in {"LOCALIZE_FAILURE", "FAILED"}, s \in BOOLEAN : Event(p, s) \in BuildEvents
      BY EventTyped DEF BuildPhases
    <3> QED
      BY <3>1, EventsOf
  <2>4. events' \in Seq(BuildEvents)
    BY <1>0, <1>12, <2>3, EventsTyped DEF Judge
  <2>5. pc' \in [Builders -> Labels]
    BY <1>4, <1>12 DEF Judge, Labels, Working
  <2> QED
    BY <1>12, <2>1, <2>2, <2>4, <2>5 DEF Judge, BuildEvents
<1>13. CASE Recover(b)
  <2>1. disk' \in [Surfaces -> Contents]
    BY <1>0, <1>13 DEF Recover, Regenerated, HarnessTypes
  <2>2. HarnessTypes'
    BY <1>0, <1>13, <2>1, HarnessTyped DEF Recover, HarnessStep
  <2>3. pc' \in [Builders -> Labels]
    BY <1>4, <1>13 DEF Recover, Labels, Working
  <2> QED
    BY <1>13, <2>2, <2>3 DEF Recover
<1>14. CASE Revalidated(b)
  <2>1. HarnessTypes'
    BY <1>14 DEF Revalidated, harnessVars, HarnessTypes
  <2>2. \A good \in BOOLEAN :
            <<Event("RECOVER", good), Event("REVALIDATE", good),
              Event(IF good THEN "COMPLETE" ELSE "FAILED", good)>> \in Seq(BuildEvents)
    BY EventTyped DEF BuildPhases
  <2>3. Succeeded(phases) \in BOOLEAN
    BY DEF Succeeded
  <2>4. events' \in Seq(BuildEvents)
    BY <1>0, <1>14, <2>2, <2>3, EventsTyped DEF Revalidated
  <2>5. pc' \in [Builders -> Labels]
    BY <1>4, <1>14 DEF Revalidated, Labels, Working
  <2> QED
    BY <1>14, <2>1, <2>4, <2>5 DEF Revalidated, BuildEvents
<1>15. CASE Close(b)
  <2>1. HarnessTypes'
    BY <1>15 DEF Close, harnessVars, HarnessTypes
  <2>2. pc' \in [Builders -> Labels]
    BY <1>4, <1>15 DEF Close, Labels, Working
  <2> QED
    BY <1>15, <2>1, <2>2 DEF Close
<1>16. CASE Raises(b)
  <2>1. HarnessTypes'
    BY <1>16 DEF Raises, harnessVars, HarnessTypes
  <2>2. events' \in Seq(BuildEvents)
    <3>1. Event("FAILED", FALSE) \in BuildEvents
      BY EventTyped DEF BuildPhases
    <3> QED
      BY <1>0, <1>16, <3>1, EventsOf, EventsTyped DEF Raises
  <2>3. pc' \in [Builders -> Labels]
    BY <1>4, <1>16 DEF Raises, Labels, Working
  <2> QED
    BY <1>16, <2>1, <2>2, <2>3 DEF Raises, BuildEvents
<1>17. CASE Return(b) \/ Interrupted(b)
  <2>1. /\ HarnessTypes' /\ events' \in Seq(BuildEvents)
        /\ decision'.surfaces \subseteq Surfaces
    BY <1>17, ForgetsTyped DEF Return, Interrupted
  <2>2. verdict' \in [Builders -> {"none", "success", "failure"}]
    BY <1>17 DEF Return, Interrupted
  <2>3. pc' \in [Builders -> Labels]
    BY <1>4, <1>17 DEF Return, Interrupted, Labels
  <2> QED
    BY <1>5, <1>17, <2>1, <2>2, <2>3 DEF Return, Interrupted, Unlocks, BuildEvents
<1>18. CASE Crash(b)
  <2>1. /\ HarnessTypes' /\ events' \in Seq(BuildEvents)
        /\ decision'.surfaces \subseteq Surfaces
    BY <1>0, <1>18, ForgetsTyped DEF Crash, harnessVars, HarnessTypes
  <2>2. pc' \in [Builders -> Labels]
    BY <1>4, <1>18 DEF Crash, Labels
  <2> QED
    BY <1>5, <1>18, <2>1, <2>2 DEF Crash, BuildAssumption, BuildEvents
<1> QED
  BY <1>6, <1>7, <1>8, <1>9, <1>10, <1>11, <1>12, <1>13, <1>14, <1>15, <1>16, <1>17, <1>18
  DEF Build

-----------------------------------------------------------------------------
(* What holds of the build a builder is in.                                *)
LastFailed == events # <<>> /\ events[Len(events)] = Event("FAILED", FALSE)

LockInv(b) ==
    /\ pc[b] \in Working => lock = b
    /\ lock = b \/ pc[b] = "locking" => verdict[b] = "none"

DoneInv(b) ==
    /\ pc[b] \in {"judge", "recover", "close"} => at = "done"
    /\ pc[b] = "return" => at = "done" \/ LastFailed

ValidInv(b) == pc[b] \in Working => HarnessInv(madeFor[b])

(* A surface the caller knew to be changed by the user is in the way of    *)
(* every validation: none gets further than its preparation.               *)
Untouched(known) ==
    /\ at \in {"off", "prepare", "done"}
    /\ at = "prepare" => \A s \in known : workspace[s] = 0
    /\ at = "done" => \E e \in Evidence : phases = <<Failed("PREPARE", e)>>

UserInv(b) ==
    /\ \A s \in conflicted[b] : disk[s] = Edited
    /\ pc[b] \in Working /\ conflicted[b] # {} => Untouched(conflicted[b])

JudgedInv(b) ==
    pc[b] = "recover" =>
        /\ Localizable(phases)
        /\ decision = Plan(TheFailure(phases), Localize(TheFailure(phases), conflicted[b]), 0)

BuildInv(b) == LockInv(b) /\ DoneInv(b) /\ ValidInv(b) /\ UserInv(b) /\ JudgedInv(b)
Inv == TypeOK /\ \A b \in Builders : BuildInv(b)

LEMMA HarnessUntouched ==
    ASSUME HarnessAssumption, HarnessTypes, NEW g \in 1..MaxGeneration,
           NEW known \in SUBSET Surfaces, known # {},
           \A s \in known : disk[s] = Edited,
           Untouched(known) \/ HarnessStart, HarnessStep(g)
    PROVE  Untouched(known)'
<1>1. CASE HarnessStart
  BY <1>1 DEF HarnessStart, Untouched
<1> SUFFICES ASSUME Untouched(known), HarnessWork(g) \/ ChildWork
             PROVE  Untouched(known)'
  BY <1>1 DEF HarnessStep
<1>2. g # Edited
  BY DEF Edited, HarnessAssumption
<1>3. CASE CopySurface(g)
  <2>1. NextSurface \notin known
    BY <1>2, <1>3 DEF CopySurface
  <2>2. \A s \in known : workspace'[s] = workspace[s]
    BY <1>3, <2>1 DEF CopySurface, HarnessTypes
  <2> QED
    BY <1>3, <2>2 DEF CopySurface, Untouched
<1>4. CASE SurfaceDiffers(g)
  <2>1. [named |-> {NextSurface}, hostile |-> FALSE] \in Evidence
    BY <1>4, FirstLeft DEF SurfaceDiffers, Evidence, Uncopied
  <2> QED
    BY <1>4, <2>1 DEF SurfaceDiffers, Untouched
<1>5. CASE PrepareFails
  BY <1>5, ResultsTyped DEF PrepareFails, Untouched
<1>6. CASE Prepared
  BY <1>6 DEF Prepared, Untouched, Uncopied
<1>7. CASE ChildWork
  BY <1>7 DEF ChildWork, ChildRuns, ChildDies, Untouched
<1> QED
  BY <1>3, <1>4, <1>5, <1>6, <1>7
  DEF HarnessWork, Untouched, Launch, SeeExit, HealthAnswered, DeadlinePasses,
      AlreadyGone, ChildStopped, StopUnanswered, GoneLate, NotReaped

LEMMA InitInv ==
    ASSUME HarnessAssumption, BuildAssumption, Init
    PROVE  Inv
BY InitType DEF Init, Inv, BuildInv, LockInv, DoneInv, ValidInv, UserInv, JudgedInv,
                Working, BuildAssumption

(* Steps outside the builders.                                             *)
LEMMA HarnessKeepsInv ==
    ASSUME HarnessAssumption, Inv, Harness \/ Child, NEW c \in Builders
    PROVE  BuildInv(c)'
<1>1. PICK b \in Builders : lock = b /\ pc[b] \in {"validate", "revalidate"}
  BY DEF Harness, Child, Validating
<1>2. /\ HarnessStep(madeFor[b]) /\ UNCHANGED disk /\ UNCHANGED buildVars
      /\ madeFor[b] \in 1..MaxGeneration /\ HarnessTypes
  BY <1>1 DEF Harness, Child, HarnessStep, Inv, TypeOK
<1>3. LockInv(c)'
  BY <1>2 DEF Inv, BuildInv, LockInv, buildVars
<1>4. CASE c # b
  <2>1. pc[c] \notin Working
    BY <1>1, <1>4 DEF Inv, BuildInv, LockInv
  <2> QED
    BY <1>2, <1>3, <2>1
    DEF Inv, BuildInv, DoneInv, ValidInv, UserInv, JudgedInv, buildVars, Working
<1>5. CASE c = b
  <2>1. ValidInv(b)'
    <3> PICK g : g = madeFor[b]
      OBVIOUS
    <3>1. HarnessInv(g)
      BY <1>1 DEF Inv, BuildInv, ValidInv, Working
    <3>2. HarnessInv(g)' /\ madeFor'[b] = g
      BY <1>2, <3>1, HarnessSafe DEF buildVars
    <3> QED
      BY <3>2 DEF ValidInv, HarnessInv, Whole
  <2>2. UserInv(b)'
    <3> PICK known : known = conflicted[b]
      OBVIOUS
    <3>1. known \in SUBSET Surfaces /\ \A s \in known : disk[s] = Edited
      BY DEF Inv, BuildInv, UserInv, TypeOK
    <3>2. known # {} => Untouched(known)
      BY <1>1 DEF Inv, BuildInv, UserInv, Working
    <3>3. known # {} => Untouched(known)'
      BY <1>2, <3>1, <3>2, HarnessUntouched
    <3>4. conflicted'[b] = known /\ disk' = disk
      BY <1>2 DEF buildVars
    <3> QED
      BY <3>1, <3>3, <3>4 DEF UserInv, Untouched
  <2> QED
    BY <1>1, <1>2, <1>3, <1>5, <2>1, <2>2
    DEF BuildInv, DoneInv, JudgedInv, buildVars
<1> QED
  BY <1>4, <1>5

LEMMA OutsideKeepsInv ==
    ASSUME Inv, NEW c \in Builders,
           NewGeneration \/ (\E s \in Surfaces : Generate(s) \/ Edit(s)) \/ UNCHANGED vars
    PROVE  BuildInv(c)'
<1>1. /\ UNCHANGED harnessVars
      /\ UNCHANGED <<madeFor, conflicted, lock, pc, events, decision, verdict>>
  BY DEF NewGeneration, Generate, Edit, buildVars, vars
<1>2. \A s \in Surfaces : disk[s] = Edited => disk'[s] = Edited
  BY DEF NewGeneration, Generate, Edit, vars, Inv, TypeOK, HarnessTypes
<1>3. conflicted[c] \subseteq Surfaces
  BY DEF Inv, TypeOK
<1>4. HarnessInv(madeFor[c]) => HarnessInv(madeFor[c])'
  BY <1>1 DEF HarnessInv, harnessVars, Whole, Alive
<1>5. UserInv(c)'
  BY <1>1, <1>2, <1>3 DEF Inv, BuildInv, UserInv, Untouched, harnessVars
<1> QED
  BY <1>1, <1>4, <1>5
  DEF Inv, BuildInv, LockInv, DoneInv, ValidInv, JudgedInv, LastFailed, harnessVars

BuilderStep(b) == Resume(b) \/ Build(b) \/ Crash(b) \/ Restart(b) \/ ClearLock(b)

(* A step of one builder leaves what another builder is doing as it is.    *)
LEMMA OthersKeepInv ==
    ASSUME BuildAssumption, Inv, NEW b \in Builders, BuilderStep(b), NEW c \in Builders \ {b}
    PROVE  BuildInv(c)'
<1>1. /\ pc'[c] = pc[c] /\ madeFor'[c] = madeFor[c] /\ conflicted'[c] = conflicted[c]
      /\ verdict'[c] = verdict[c]
      /\ lock' = lock \/ lock' = Nobody \/ lock' = b
      /\ c # b /\ c # Nobody
  BY DEF BuilderStep, Build, Resume, TakeLock, Locked, JournalInput, JournalGeneration,
         SeeReport, Judge, Recover, Revalidated, Close, Raises, Return, Interrupted, Crash,
         Restart, ClearLock, Goes, NotMade, Unlocks, Inv, TypeOK, BuildAssumption
<1>2. pc[b] \in Working => lock = b
  BY DEF Inv, BuildInv, LockInv
<1>3. \A s \in Surfaces : disk[s] = Edited => disk'[s] = Edited
  BY DEF BuilderStep, Build, Resume, TakeLock, Locked, JournalInput, JournalGeneration,
         SeeReport, Judge, Recover, Regenerated, Revalidated, Close, Raises, Return,
         Interrupted, Crash, Restart, ClearLock
<1>4. conflicted[c] \subseteq Surfaces
  BY DEF Inv, TypeOK
<1>5. CASE pc[c] \notin Working
  BY <1>1, <1>3, <1>4, <1>5
  DEF Inv, BuildInv, LockInv, DoneInv, ValidInv, UserInv, JudgedInv, Working
<1>6. CASE pc[c] \in Working
  <2>1. lock = c
    BY <1>6 DEF Inv, BuildInv, LockInv
  <2>2. Resume(b) \/ Locked(b) \/ Restart(b) \/ Crash(b)
    BY <1>1, <1>2, <2>1
    DEF BuilderStep, Build, TakeLock, JournalInput, JournalGeneration, SeeReport, Judge,
        Recover, Revalidated, Close, Raises, Return, Interrupted, ClearLock, Working
  <2>3. UNCHANGED harnessVars /\ UNCHANGED <<events, decision, disk, lock>>
    BY <1>1, <2>1, <2>2 DEF Resume, Locked, Restart, Crash
  <2>4. HarnessInv(madeFor[c]) => HarnessInv(madeFor[c])'
    BY <1>1, <2>3 DEF HarnessInv, harnessVars, Whole, Alive
  <2> QED
    BY <1>1, <2>3, <2>4
    DEF Inv, BuildInv, LockInv, DoneInv, ValidInv, UserInv, JudgedInv, Untouched, LastFailed,
        harnessVars
<1> QED
  BY <1>5, <1>6

(* The steps of a build, each seen from the builder that takes it.         *)
LEMMA OwnKeepsInv ==
    ASSUME HarnessAssumption, BuildAssumption, Inv, NEW b \in Builders, BuilderStep(b)
    PROVE  BuildInv(b)'
<1> USE DEF Inv, BuildInv
<1>1. /\ TypeOK /\ HarnessTypes /\ pc[b] \in Labels
      /\ b # Nobody /\ madeFor[b] \in 1..MaxGeneration
      /\ conflicted[b] \in SUBSET Surfaces /\ events \in Seq(BuildEvents)
  BY DEF TypeOK, BuildEvents, BuildAssumption
<1>2. ASSUME NEW place, Goes(b, place)
      PROVE  pc'[b] = place
  BY <1>1, <1>2 DEF Goes, TypeOK
<1>3. ASSUME NotMade(b)
      PROVE  conflicted'[b] = {}
  BY <1>1, <1>3 DEF NotMade, TypeOK
<1>4. CASE Resume(b)
  <2>1. pc'[b] = "locking" /\ verdict'[b] = "none"
    BY <1>2, <1>4 DEF Resume, TypeOK
  <2>2. \A s \in conflicted'[b] : disk'[s] = Edited
    BY <1>4 DEF Resume, TypeOK
  <2> QED
    BY <2>1, <2>2 DEF LockInv, DoneInv, ValidInv, UserInv, JudgedInv, Working
<1>5. CASE TakeLock(b)
  <2>1. /\ pc'[b] = "input" /\ lock' = b /\ at' = "off"
        /\ verdict'[b] = "none" /\ conflicted'[b] = conflicted[b] /\ disk' = disk
    BY <1>2, <1>5 DEF TakeLock, LockInv
  <2> QED
    BY <2>1 DEF LockInv, DoneInv, ValidInv, HarnessInv, UserInv, Untouched, JudgedInv, Working
<1>6. CASE Locked(b) \/ Interrupted(b) \/ Return(b)
  <2>1. pc'[b] = "idle" /\ conflicted'[b] = {}
    BY <1>2, <1>3, <1>6 DEF Locked, Interrupted, Return
  <2>2. lock' = b => verdict'[b] = "none"
    BY <1>1, <1>6 DEF Locked, Interrupted, Return, Unlocks, LockInv
  <2> QED
    BY <2>1, <2>2 DEF LockInv, DoneInv, ValidInv, UserInv, JudgedInv, Working
<1>7. CASE Crash(b) \/ Restart(b)
  <2>1. pc'[b] \in {"dead", "idle"} /\ lock' = lock /\ verdict' = verdict /\ disk' = disk
    BY <1>2, <1>7 DEF Crash, Restart
  <2>2. conflicted'[b] \subseteq conflicted[b]
    BY <1>3, <1>7 DEF Crash, Restart
  <2> QED
    BY <2>1, <2>2 DEF LockInv, DoneInv, ValidInv, UserInv, JudgedInv, Working
<1>8. CASE ClearLock(b)
  <2>1. /\ pc'[b] = pc[b] /\ lock' = Nobody /\ verdict' = verdict /\ disk' = disk
        /\ conflicted' = conflicted /\ pc[b] \notin Working
    BY <1>8 DEF ClearLock, Unlocks
  <2> QED
    BY <1>1, <2>1 DEF LockInv, DoneInv, ValidInv, UserInv, JudgedInv, Working
<1>9. ASSUME pc[b] \in Working, pc'[b] \in Working \ {"recover"},
             UNCHANGED <<harnessVars, madeFor, conflicted, lock, verdict, disk>>,
             DoneInv(b)'
      PROVE  BuildInv(b)'
  <2>1. HarnessInv(madeFor[b]) => HarnessInv(madeFor[b])'
    BY <1>9 DEF HarnessInv, harnessVars, Whole, Alive
  <2> QED
    BY <1>9, <2>1 DEF LockInv, ValidInv, UserInv, Untouched, JudgedInv, harnessVars
<1>10. CASE JournalInput(b) \/ SeeReport(b) \/ Revalidated(b) \/ Close(b)
  <2>1. /\ pc[b] \in Working /\ pc'[b] \in Working \ {"recover"}
        /\ UNCHANGED <<harnessVars, madeFor, conflicted, lock, verdict, disk>>
    BY <1>2, <1>10 DEF JournalInput, SeeReport, Revalidated, Close, Working
  <2>2. DoneInv(b)'
    BY <1>2, <1>10
    DEF JournalInput, SeeReport, Revalidated, Close, DoneInv, harnessVars
  <2> QED
    BY <1>9, <2>1, <2>2
<1>11. CASE Raises(b)
  <2>1. /\ pc[b] \in Working /\ pc'[b] = "return"
        /\ UNCHANGED <<harnessVars, madeFor, conflicted, lock, verdict, disk>>
    BY <1>2, <1>11 DEF Raises, Working
  <2>2. LastFailed'
    <3> DEFINE last == <<Event("FAILED", FALSE)>>
    <3>1. Event("FAILED", FALSE) \in BuildEvents
      BY EventTyped DEF BuildPhases
    <3>2. last \in Seq(BuildEvents) /\ Len(last) = 1 /\ last[1] = Event("FAILED", FALSE)
      BY <3>1, EventsOf
    <3>3. events' = events \o last
      BY <1>11 DEF Raises, Reports
    <3> HIDE DEF last
    <3> DEFINE n == Len(events) + 1
    <3>4. Len(events) \in Nat /\ n \in 1..(Len(events) + Len(last)) /\ ~(n <= Len(events))
          /\ n - Len(events) = 1
      BY <1>1, <3>2
    <3>5. /\ events' \in Seq(BuildEvents) /\ Len(events') = n
          /\ \A i \in 1..(Len(events) + Len(last)) :
                 events'[i] = IF i <= Len(events) THEN events[i] ELSE last[i - Len(events)]
      <4>1. /\ Len(events \o last) = Len(events) + Len(last)
            /\ \A i \in 1..(Len(events) + Len(last)) :
                  (events \o last)[i] = IF i <= Len(events) THEN events[i]
                                        ELSE last[i - Len(events)]
            /\ events \o last \in Seq(BuildEvents)
        BY <1>1, <3>2, ConcatProperties
      <4> QED
        BY <3>2, <3>3, <4>1
    <3> HIDE DEF n
    <3>6. events'[n] = last[1]
      BY <3>4, <3>5
    <3>7. events' # <<>>
      BY <3>4, <3>5 DEF n
    <3> QED
      BY <3>2, <3>5, <3>6, <3>7 DEF LastFailed
  <2>3. DoneInv(b)'
    BY <2>1, <2>2 DEF DoneInv
  <2> QED
    BY <1>9, <2>1, <2>3 DEF Working
<1>12. CASE Judge(b)
  <2> DEFINE plan == Plan(TheFailure(phases), Localize(TheFailure(phases), conflicted[b]), 0)
  <2>1. /\ pc[b] = "judge" /\ Localizable(phases) /\ decision' = plan
        /\ UNCHANGED <<harnessVars, madeFor, conflicted, lock, verdict, disk>>
    BY <1>12 DEF Judge
  <2>2. pc'[b] \in {"close", "recover"}
    BY <1>2, <1>12 DEF Judge
  <2>3. DoneInv(b)'
    BY <2>1, <2>2 DEF DoneInv, harnessVars
  <2>4. JudgedInv(b)'
    BY <2>1 DEF JudgedInv, harnessVars
  <2>5. HarnessInv(madeFor[b]) => HarnessInv(madeFor[b])'
    BY <2>1 DEF HarnessInv, harnessVars, Whole, Alive
  <2> QED
    BY <2>1, <2>2, <2>3, <2>4, <2>5 DEF LockInv, ValidInv, UserInv, Untouched, harnessVars, Working
<1>13. CASE JournalGeneration(b) \/ Recover(b)
  <2>1. /\ pc[b] \in Working /\ pc'[b] \in {"validate", "revalidate"} /\ HarnessStart
        /\ UNCHANGED <<madeFor, conflicted, lock, verdict>>
    BY <1>2, <1>13 DEF JournalGeneration, Recover, Working
  <2>2. \A s \in Surfaces : disk[s] = Edited => disk'[s] = Edited
    BY <1>13 DEF JournalGeneration, Recover, Regenerated
  <2>3. ValidInv(b)'
    BY <2>1 DEF ValidInv, HarnessInv, HarnessStart, Whole
  <2>4. UserInv(b)'
    BY <1>1, <2>1, <2>2 DEF UserInv, Untouched, HarnessStart
  <2> QED
    BY <2>1, <2>3, <2>4 DEF LockInv, DoneInv, JudgedInv, Working
<1> QED
  BY <1>4, <1>5, <1>6, <1>7, <1>8, <1>10, <1>11, <1>12, <1>13 DEF BuilderStep, Build

LEMMA StepInv ==
    ASSUME HarnessAssumption, BuildAssumption, Inv, [Next]_vars
    PROVE  Inv'
<1>1. TypeOK'
  BY TypeStep DEF Inv
<1>2. ASSUME NEW c \in Builders PROVE BuildInv(c)'
  BY HarnessKeepsInv, OutsideKeepsInv, OthersKeepInv, OwnKeepsInv DEF Next, BuilderStep
<1> QED
  BY <1>1, <1>2 DEF Inv

THEOREM Invariance == Spec => []Inv
BY HarnessAssumption, BuildAssumption, InitInv, StepInv, PTL DEF Spec

(* TypeOK.                                                                 *)
THEOREM BuildTypeOK == Spec => []TypeOK
BY Invariance, PTL DEF Inv

-----------------------------------------------------------------------------
LEMMA SuccessWhenCertified ==
    ASSUME Inv, NEW b \in Builders, pc[b] = "return", Certified
    PROVE  at = "done" /\ Succeeded(phases) /\ lock = b
<1>1. ~LastFailed
  BY DEF Certified, LastFailed, Event
<1> QED
  BY <1>1 DEF Inv, BuildInv, LockInv, DoneInv, Certified, Working

(* SuccessVerified: run() returns success only for the surfaces its        *)
(* orchestrator was made for, after their child answered its health check  *)
(* and is gone.                                                            *)
THEOREM BuildSuccessVerified == Spec => SuccessVerified
<1> DEFINE Sound == \A b \in Builders : verdict[b] # "success" /\ verdict'[b] = "success" =>
               /\ workspace = [s \in Surfaces |-> madeFor[b]]
               /\ \E i \in DOMAIN phases : phases[i] = Passed("API_SMOKE")
               /\ ~Alive
<1>1. ASSUME Inv, [Next]_vars PROVE Sound
  <2> SUFFICES ASSUME NEW b \in Builders, verdict[b] # "success", verdict'[b] = "success"
               PROVE  /\ workspace = [s \in Surfaces |-> madeFor[b]]
                      /\ \E i \in DOMAIN phases : phases[i] = Passed("API_SMOKE")
                      /\ ~Alive
    OBVIOUS
  <2>1. Return(b) /\ Certified
    BY <1>1 DEF Next, vars, buildVars, Harness, Child, NewGeneration, Generate, Edit, Resume,
            Build, TakeLock, Locked, JournalInput, JournalGeneration, SeeReport, Judge,
            Recover, Revalidated, Close, Raises, Return, Interrupted, Crash, Restart,
            ClearLock, Inv, TypeOK
  <2>2. at = "done" /\ Succeeded(phases)
    BY <1>1, <2>1, SuccessWhenCertified DEF Return
  <2>3. HarnessInv(madeFor[b])
    BY <1>1, <2>1 DEF Inv, BuildInv, ValidInv, Return, Working
  <2> QED
    BY <2>2, <2>3 DEF HarnessInv, Succeeded, AllPassed, Whole, Smoked
<1> QED
  BY <1>1, Invariance, PTL DEF Spec, SuccessVerified

(* RegeneratesOnlyProven: a recovery regenerates a surface only if the     *)
(* evidence of its one failure points at it alone, and at nothing of the   *)
(* user's.                                                                 *)
LEMMA OneFailureFound ==
    ASSUME NEW report \in Seq(Results), Localizable(report)
    PROVE  TheFailure(report) \in Results
<1>1. Failures(report) # {}
  <2>1. Cardinality({}) = 0
    BY FS_EmptySet
  <2>2. Cardinality(Failures(report)) # 0
    BY DEF Localizable
  <2> QED
    BY <2>1, <2>2
<1> QED
  BY <1>1 DEF TheFailure, Failures

LEMMA PlanRegeneratesProven ==
    ASSUME NEW failure \in Results, NEW known \in SUBSET Surfaces,
           Plan(failure, Localize(failure, known), 0).surfaces # {}
    PROVE  LET named == failure.evidence.named
               chosen == Plan(failure, Localize(failure, known), 0).surfaces IN
           /\ Cardinality(chosen) = 1
           /\ ~failure.evidence.hostile
           /\ named \in {{}, chosen}
           /\ named = chosen => chosen \cap known = {}
           /\ failure.phase # "PREPARE" \/ named = chosen
<1> DEFINE blame == Localize(failure, known)
           named == failure.evidence.named
           matched == named \cap (Surfaces \cup UserFiles)
           boundary == matched \cap (known \cup UserFiles)
           chosen == Plan(failure, blame, 0).surfaces
<1>1. /\ blame.confidence \notin {"BOUNDARY", "UNKNOWN", "MULTIPLE_CANDIDATES"}
      /\ Cardinality(blame.surfaces) = 1 /\ chosen = blame.surfaces
  BY DEF Plan, Stop, Repair, Decision
<1>2. named = matched
  BY DEF Results, Evidence
<1>3. ~failure.evidence.hostile /\ boundary = {}
  BY <1>1 DEF Localize, Blame
<1>4. CASE matched # {}
  <2>1. blame.surfaces = matched
    BY <1>3, <1>4 DEF Localize, BlameOneOf, Blame
  <2> QED
    BY <1>1, <1>2, <1>3, <2>1
<1>5. CASE matched = {}
  <2>1. blame = ByPhase(failure)
    BY <1>3, <1>5 DEF Localize
  <2>2. failure.phase # "PREPARE"
    <3> SUFFICES ASSUME failure.phase = "PREPARE" PROVE blame.confidence = "UNKNOWN"
      BY <1>1
    <3>1. PhaseGenerators("PREPARE") = {}
      BY DEF PhaseGenerators
    <3>2. PhaseGenerators(failure.phase) = {}
      BY <3>1
    <3>3. {s \in Surfaces : GeneratorOf[s] \in PhaseGenerators(failure.phase)} = {}
      BY <3>2
    <3> HIDE DEF blame
    <3> QED
      BY <2>1, <3>3 DEF ByPhase, Blame
  <2>3. chosen # {}
    OBVIOUS
  <2> QED
    BY <1>1, <1>2, <1>3, <1>5, <2>2, <2>3
<1> QED
  BY <1>4, <1>5

THEOREM BuildRegeneratesOnlyProven == Spec => []RegeneratesOnlyProven
<1>1. ASSUME Inv PROVE RegeneratesOnlyProven
  <2> SUFFICES ASSUME NEW b \in Builders, pc[b] = "recover", decision.surfaces # {}
               PROVE  LET failure == TheFailure(phases) IN
                      /\ Cardinality(Failures(phases)) = 1
                      /\ Cardinality(decision.surfaces) = 1
                      /\ ~failure.evidence.hostile
                      /\ failure.evidence.named \in {{}, decision.surfaces}
                      /\ decision.surfaces \cap conflicted[b] = {}
    BY DEF RegeneratesOnlyProven
  <2> DEFINE failure == TheFailure(phases)
             known == conflicted[b]
  <2>1. /\ phases \in Seq(Results) /\ known \in SUBSET Surfaces
        /\ Localizable(phases)
        /\ decision = Plan(failure, Localize(failure, known), 0)
        /\ at = "done"
        /\ known # {} => Untouched(known)
    BY <1>1 DEF Inv, TypeOK, HarnessTypes, BuildInv, DoneInv, UserInv, JudgedInv, Working
  <2>2. failure \in Results
    BY <2>1, OneFailureFound
  <2>3. /\ Cardinality(decision.surfaces) = 1 /\ ~failure.evidence.hostile
        /\ failure.evidence.named \in {{}, decision.surfaces}
        /\ failure.evidence.named = decision.surfaces => decision.surfaces \cap known = {}
        /\ failure.phase # "PREPARE" \/ failure.evidence.named = decision.surfaces
    <3> HIDE DEF failure, known
    <3> QED
      BY <2>1, <2>2, PlanRegeneratesProven
  <2>4. known # {} => failure.phase = "PREPARE"
    <3> SUFFICES ASSUME known # {} PROVE failure.phase = "PREPARE"
      OBVIOUS
    <3>1. PICK e \in Evidence : phases = <<Failed("PREPARE", e)>>
      BY <2>1 DEF Untouched
    <3>2. Failures(phases) = {1} /\ phases[1].phase = "PREPARE"
      BY <3>1 DEF Failures, Failed
    <3>3. TheFailure(phases) = phases[1]
      BY <3>2 DEF TheFailure
    <3> QED
      BY <3>2, <3>3
  <2> QED
    BY <2>1, <2>3, <2>4 DEF Localizable
<1> QED
  BY <1>1, Invariance, PTL

(* KeepsPromise: builders work on the application one at a time, and a     *)
(* build that reports success validated it last, while it was its own.     *)
THEOREM BuildKeepsPromise == Spec => KeepsPromise
<1> DEFINE Verified == lock # Nobody /\ at = "done" /\ Succeeded(phases)
<1>1. Init => Promise!Init
  BY DEF Init, Promise!Init
<1>2. Inv /\ [Next]_vars => [Promise!Next]_(Promise!vars)
  <2> SUFFICES ASSUME Inv, [Next]_vars
               PROVE  Promise!Next \/ UNCHANGED <<lock, Verified, verdict>>
    BY DEF Promise!vars
  <2>1. CASE Harness
    <3>1. lock # Nobody /\ UNCHANGED <<lock, verdict>>
      BY <2>1, BuildAssumption DEF Harness, Validating, buildVars
    <3> QED
      BY <3>1 DEF Promise!Next, Promise!Validate
  <2>2. CASE Child
    BY <2>2 DEF Child, ChildWork, ChildRuns, ChildDies, buildVars
  <2>3. CASE NewGeneration \/ (\E s \in Surfaces : Generate(s) \/ Edit(s)) \/ UNCHANGED vars
    BY <2>3 DEF NewGeneration, Generate, Edit, vars, buildVars, harnessVars
  <2>4. ASSUME NEW b \in Builders, BuilderStep(b)
        PROVE  Promise!Next \/ UNCHANGED <<lock, Verified, verdict>>
    <3>1. b # Nobody /\ (pc[b] \in Working => lock = b)
      BY BuildAssumption DEF Inv, BuildInv, LockInv
    <3>2. CASE Resume(b)
      <4>1. UNCHANGED <<lock, at, phases>>
        BY <3>2 DEF Resume, harnessVars
      <4>2. CASE lock = b
        <5>1. verdict[b] = "none"
          BY <4>2 DEF Inv, BuildInv, LockInv
        <5>2. verdict' = verdict
          BY <3>2, <5>1 DEF Resume, Inv, TypeOK
        <5> QED
          BY <4>1, <5>2
      <4>3. CASE lock # b
        <5>1. Promise!Ask(b)
          BY <3>2, <4>1, <4>3 DEF Resume, Promise!Ask
        <5> QED
          BY <5>1 DEF Promise!Next
      <4> QED
        BY <4>2, <4>3
    <3>3. CASE TakeLock(b)
      <4>1. Promise!Acquire(b)
        BY <3>3 DEF TakeLock, Promise!Acquire
      <4> QED
        BY <4>1 DEF Promise!Next
    <3>4. CASE JournalInput(b) \/ SeeReport(b) \/ Judge(b) \/ Revalidated(b) \/ Close(b)
               \/ Raises(b) \/ Locked(b) \/ Restart(b)
      BY <3>4 DEF JournalInput, SeeReport, Judge, Revalidated, Close, Raises, Locked, Restart,
                  harnessVars
    <3>5. CASE JournalGeneration(b) \/ Recover(b)
      <4>1. lock # Nobody /\ UNCHANGED <<lock, verdict>>
        BY <3>1, <3>5 DEF JournalGeneration, Recover, Working
      <4> QED
        BY <4>1 DEF Promise!Next, Promise!Validate
    <3>6. CASE Return(b)
      <4>1. lock = b /\ lock' = Nobody
        BY <3>1, <3>6 DEF Return, Unlocks, Working
      <4>2. Certified => Verified
        BY <3>1, <3>6, SuccessWhenCertified DEF Return
      <4>3. \/ verdict' = [verdict EXCEPT ![b] = IF Verified THEN "success" ELSE "failure"]
            \/ verdict' = [verdict EXCEPT ![b] = "failure"]
        BY <3>6, <4>2 DEF Return
      <4> QED
        BY <4>1, <4>3 DEF Promise!Next, Promise!Release
    <3>7. CASE Interrupted(b) \/ ClearLock(b)
      <4>1. lock = b /\ lock' = Nobody /\ UNCHANGED verdict
        BY <3>1, <3>7 DEF Interrupted, ClearLock, Unlocks, Working
      <4> QED
        BY <4>1 DEF Promise!Next, Promise!Release
    <3>8. CASE Crash(b)
      <4>1. UNCHANGED <<lock, verdict>>
        BY <3>8 DEF Crash
      <4>2. CASE lock = b
        BY <3>1, <4>1, <4>2 DEF Promise!Next, Promise!Validate
      <4>3. CASE lock # b
        BY <3>8, <4>1, <4>3 DEF Crash, harnessVars
      <4> QED
        BY <4>2, <4>3
    <3> QED
      BY <2>4, <3>2, <3>3, <3>4, <3>5, <3>6, <3>7, <3>8 DEF BuilderStep, Build
  <2> QED
    BY <2>1, <2>2, <2>3, <2>4 DEF Next, BuilderStep
<1> QED
  BY <1>1, <1>2, Invariance, PTL DEF Spec, KeepsPromise, Promise!Spec

=============================================================================
