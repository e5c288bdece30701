------------------------- MODULE BuildOrchestration -------------------------
(***************************************************************************)
(* tools/build_orchestrator.py: builders, each a process with an           *)
(* orchestrator made for one generation of the application, share a lock   *)
(* file and a journal.  A build validates the application, lets one        *)
(* recovery act on a failure it can place, validates again and reports.    *)
(* Meanwhile the application is regenerated and edited, and builders die.  *)
(*                                                                         *)
(* A step is one durable write, or one step of the validation.  Only the   *)
(* holder of the lock validates, so there is one validation at a time.     *)
(***************************************************************************)
EXTENDS RuntimeHarness, FiniteSets

CONSTANTS
    GeneratorOf,      \* the generator of each surface
    MaximumAttempts,  \* budget of the recovery planner
    Builders,
    Nobody,       \* no holder, no journal
    MaxEdits,     \* bound on edits of surfaces
    MaxCrashes    \* bound on deaths of builders

ASSUME BuildAssumption ==
    /\ IsFiniteSet(Surfaces)
    /\ Surfaces \cap UserFiles = {}
    /\ MaximumAttempts \in 1..5
    /\ Nobody \notin Builders
    /\ MaxEdits \in Nat /\ MaxCrashes \in Nat

(***************************************************************************)
(* tools/failure_localization.py and tools/recovery_workflow.py: which     *)
(* surfaces a failed validation is blamed on, and what one recovery may do *)
(* about it.  Pure functions of a report, of what the ownership manifest   *)
(* says of each surface, and of what the caller knows the user to own.     *)
(***************************************************************************)
PhaseGenerators(phase) ==
    CASE phase = "HEALTH" -> {"runtime", "health", "configuration"}
      [] phase = "API_SMOKE" -> {"router", "service", "crud"}
      [] phase = "GENERATED_TESTS" -> {"test"}
      [] phase = "MIGRATION" -> {"migration"}
      [] OTHER -> {}

Failures(report) == {i \in DOMAIN report : ~report[i].success}
TheFailure(report) == report[CHOOSE i \in Failures(report) : TRUE]

\* _validate_report: one failure, or the evidence is refused
Localizable(report) == Cardinality(Failures(report)) = 1

Blame(reason, confidence, surfaces) ==
    [reason |-> reason, confidence |-> confidence, surfaces |-> surfaces]
BlameOneOf(surfaces, one, many) ==
    IF Cardinality(surfaces) = 1 THEN Blame(one, "PROVEN", surfaces)
                                 ELSE Blame(many, "MULTIPLE_CANDIDATES", surfaces)

\* a failure that names no surface is blamed on what its phase runs
ByPhase(failure) ==
    LET candidates == {s \in Surfaces : GeneratorOf[s] \in PhaseGenerators(failure.phase)} IN
    IF failure.phase = "DATABASE" THEN Blame("EXTERNAL_DATABASE", "PROVEN", {})
    ELSE IF failure.phase = "SHUTDOWN" THEN Blame("EXTERNAL_INFRASTRUCTURE", "PROVEN", {})
    ELSE IF candidates # {}
    THEN BlameOneOf(candidates, "PHASE_PROVENANCE", "AMBIGUOUS_GENERATED_SURFACES")
    ELSE Blame("NO_PROVABLE_SURFACE", "UNKNOWN", {})

(* conflicted are the surfaces the caller gave an override for: generated, *)
(* but changed by the user as far as the caller knew.                      *)
LocalizeFirstNamed(failure, conflicted) ==  \* mutant: what is named is enough
    LET matched == failure.evidence.named \cap (Surfaces \cup UserFiles) IN
    IF matched # {}
    THEN BlameOneOf(matched, "SURFACE_PATH_MATCH", "AMBIGUOUS_GENERATED_SURFACES")
    ELSE ByPhase(failure)
Localize(failure, conflicted) ==
    LET matched == failure.evidence.named \cap (Surfaces \cup UserFiles)
        boundary == matched \cap (conflicted \cup UserFiles) IN
    IF failure.evidence.hostile THEN Blame("HOSTILE_EVIDENCE", "UNKNOWN", {})
    ELSE IF boundary # {}
    THEN Blame(IF boundary \cap conflicted # {} THEN "USER_MODIFIED_GENERATED_SURFACE"
               ELSE "USER_OWNED_SURFACE", "BOUNDARY", boundary)
    ELSE IF matched # {}
    THEN BlameOneOf(matched, "SURFACE_PATH_MATCH", "AMBIGUOUS_GENERATED_SURFACES")
    ELSE ByPhase(failure)
-----------------------------------------------------------------------------
Decision(disposition, action, surfaces, number) ==
    [disposition |-> disposition, action |-> action,
     surfaces |-> surfaces, number |-> number]
Stop(disposition, number) == Decision(disposition, "STOP", {}, number)
Repair(surfaces, number) ==
    Decision("RECOVERABLE",
             IF \E s \in surfaces : GeneratorOf[s] = "migration"
             THEN "RECOVER_MIGRATION_STATE" ELSE "REGENERATE_RESPONSIBLE_SURFACE",
             surfaces, number)

\* RecoveryPlanner.plan, after a number of earlier attempts
Plan(failure, blame, attempts) ==
    LET number == attempts + 1 IN
    IF number > MaximumAttempts THEN Stop("TERMINAL", MaximumAttempts)
    ELSE IF blame.confidence = "BOUNDARY" THEN Stop("BLOCKED_USER_OWNED", number)
    ELSE IF failure.phase = "READINESS"
    THEN Decision("RETRYABLE_TRANSIENT", "RETRY_RUNTIME", {}, number)
    ELSE IF blame.confidence \in {"UNKNOWN", "MULTIPLE_CANDIDATES"}
    THEN Stop("AMBIGUOUS", number)
    ELSE IF Cardinality(blame.surfaces) = 1 THEN Repair(blame.surfaces, number)
    ELSE Stop("TERMINAL", number)
-----------------------------------------------------------------------------
VARIABLES
    generation,  \* newest generation of the application
    madeFor,     \* the generation each running orchestrator was made for
    conflicted,  \* the surfaces its localizer was told the user changed
    lock,        \* build.lock: who wrote it
    journal,     \* build-journal.json
    pc,          \* where each builder is
    events,      \* events of the build that holds the lock
    decision,    \* its recovery plan
    verdict,     \* what each builder's last build reported
    edits, crashes

buildVars == <<generation, madeFor, conflicted, lock, journal, pc, events,
                decision, verdict, edits, crashes>>
vars == <<disk, harnessVars, buildVars>>

Working == {"input", "generation", "validate", "judge", "recover", "revalidate",
            "close", "return", "interrupted"}
Labels == {"idle", "locking", "dead"} \cup Working
BuildPhases == {"VALIDATE_INPUT", "VALIDATE_GENERATION", "RUNTIME_VALIDATE",
                "LOCALIZE_FAILURE", "RECOVER", "REVALIDATE", "COMPLETE", "FAILED"}
NoPlan == Stop("TERMINAL", 1)

Init ==
    /\ disk = [s \in Surfaces |-> 1]
    /\ HarnessInit
    /\ generation = 1
    /\ madeFor = [b \in Builders |-> 1]
    /\ conflicted = [b \in Builders |-> {}]
    /\ lock = Nobody
    /\ journal = Nobody
    /\ pc = [b \in Builders |-> "idle"]
    /\ events = <<>>
    /\ decision = NoPlan
    /\ verdict = [b \in Builders |-> "none"]
    /\ edits = 0
    /\ crashes = 0
-----------------------------------------------------------------------------
Goes(b, place) == pc' = [pc EXCEPT ![b] = place]
Event(phase, success) == [phase |-> phase, success |-> success]
Reports(new) == events' = events \o new

\* _resume: a journal of another generation is refused, and run() with it.
Resumable(g) == journal # Nobody => journal.generation = g

(* run() of an orchestrator made for the manifests of some generation, and  *)
(* with what its maker knew of edited surfaces.                             *)
Resume(b) ==
    /\ pc[b] = "idle"
    /\ \E g \in 1..generation, known \in {{}, {s \in Surfaces : disk[s] = Edited}} :
           /\ Resumable(g)
           /\ madeFor' = [madeFor EXCEPT ![b] = g]
           /\ conflicted' = [conflicted EXCEPT ![b] = known]
    /\ verdict' = [verdict EXCEPT ![b] = "none"]
    /\ Goes(b, "locking")
    /\ UNCHANGED <<disk, harnessVars, generation, lock, journal,
                   events, decision, edits, crashes>>

\* an orchestrator that is not running
NotMade(b) == madeFor' = [madeFor EXCEPT ![b] = 1] /\ conflicted' = [conflicted EXCEPT ![b] = {}]

TakeLockAnyway(b) ==  \* mutant: the lock is written, not published exclusively
    /\ pc[b] = "locking"
    /\ lock' = b
    /\ events' = <<>>
    /\ decision' = NoPlan
    /\ at' = "off"
    /\ Goes(b, "input")
    /\ UNCHANGED <<disk, workspace, phases, child, trace, generation, madeFor, conflicted,
                   journal, verdict, edits, crashes>>
TakeLock(b) ==
    /\ pc[b] = "locking"
    /\ lock = Nobody
    /\ lock' = b
    /\ events' = <<>>
    /\ decision' = NoPlan
    /\ at' = "off"
    /\ Goes(b, "input")
    /\ UNCHANGED <<disk, workspace, phases, child, trace, generation, madeFor, conflicted,
                   journal, verdict, edits, crashes>>

Locked(b) ==
    /\ pc[b] = "locking"
    /\ lock # Nobody
    /\ Goes(b, "idle")
    /\ NotMade(b)
    /\ UNCHANGED <<disk, harnessVars, generation, lock, journal,
                   events, decision, verdict, edits, crashes>>

\* _journal: one atomic write.  The identity of the predecessor goes into the
\* file, but nothing reads it.
Journal(b, phase) == journal' = [generation |-> madeFor[b], phase |-> phase]

JournalInput(b) ==
    /\ pc[b] = "input"
    /\ Reports(<<Event("VALIDATE_INPUT", TRUE)>>)
    /\ Journal(b, "VALIDATE_INPUT")
    /\ Goes(b, "generation") \/ Goes(b, "interrupted")
    /\ UNCHANGED <<disk, harnessVars, generation, madeFor, conflicted, lock,
                   decision, verdict, edits, crashes>>

JournalGeneration(b) ==
    /\ pc[b] = "generation"
    /\ Reports(<<Event("VALIDATE_GENERATION", TRUE)>>)
    /\ Journal(b, "VALIDATE_GENERATION")
    /\ HarnessStart
    /\ Goes(b, "validate")
    /\ UNCHANGED <<disk, generation, madeFor, conflicted, lock,
                   decision, verdict, edits, crashes>>

SeeReport(b) ==
    /\ pc[b] = "validate"
    /\ at = "done"
    /\ Journal(b, "RUNTIME_VALIDATE")
    /\ IF Succeeded(phases)
       THEN /\ Reports(<<Event("RUNTIME_VALIDATE", TRUE), Event("COMPLETE", TRUE)>>)
            /\ Goes(b, "close")
       ELSE /\ Reports(<<Event("RUNTIME_VALIDATE", FALSE)>>)
            /\ Goes(b, "judge")
    /\ UNCHANGED <<disk, harnessVars, generation, madeFor, conflicted, lock,
                   decision, verdict, edits, crashes>>

\* The localizer refuses a report of two failures: that is an exception.
Judge(b) ==
    LET failure == TheFailure(phases)
        plan == Plan(failure, Localize(failure, conflicted[b]), 0) IN
    /\ pc[b] = "judge"
    /\ Localizable(phases)
    /\ decision' = plan
    /\ IF plan.action = "STOP"
       THEN /\ Reports(<<Event("LOCALIZE_FAILURE", TRUE), Event("FAILED", FALSE)>>)
            /\ Goes(b, "close")
       ELSE /\ Reports(<<Event("LOCALIZE_FAILURE", TRUE)>>)
            /\ Goes(b, "recover")
    /\ UNCHANGED <<disk, harnessVars, generation, madeFor, conflicted, lock, journal,
                   verdict, edits, crashes>>

(* The callbacks are the caller's.  What regenerates goes through the      *)
(* minimal regeneration, which writes what it owns and leaves what a user  *)
(* changed; it writes what this build was made for.                        *)
Regenerated(b) ==
    disk' = [s \in Surfaces |->
                IF s \in decision.surfaces /\ disk[s] # Edited THEN madeFor[b] ELSE disk[s]]

Recover(b) ==
    /\ pc[b] = "recover"
    /\ IF decision.action = "REGENERATE_RESPONSIBLE_SURFACE" THEN Regenerated(b)
       ELSE UNCHANGED disk
    /\ HarnessStart
    /\ Goes(b, "revalidate")
    /\ UNCHANGED <<generation, madeFor, conflicted, lock, journal,
                   events, decision, verdict, edits, crashes>>

Revalidated(b) ==
    LET good == Succeeded(phases) IN
    /\ pc[b] = "revalidate"
    /\ at = "done"
    /\ Reports(<<Event("RECOVER", good), Event("REVALIDATE", good),
                 Event(IF good THEN "COMPLETE" ELSE "FAILED", good)>>)
    /\ Goes(b, "close")
    /\ UNCHANGED <<disk, harnessVars, generation, madeFor, conflicted, lock, journal,
                   decision, verdict, edits, crashes>>

Close(b) ==
    /\ pc[b] = "close"
    /\ journal' = Nobody
    /\ Goes(b, "return")
    /\ UNCHANGED <<disk, harnessVars, generation, madeFor, conflicted, lock,
                   events, decision, verdict, edits, crashes>>

(* Every other exception ends in a report of failure and leaves the journal *)
(* as it is: a write that fails, evidence that is refused, a callback or a  *)
(* validation that raises.                                                  *)
Raises(b) ==
    /\ \/ pc[b] \in {"input", "generation", "recover", "close"}
       \/ pc[b] \in {"validate", "revalidate"} /\ at = "raised"
       \/ pc[b] = "validate" /\ at = "done"
       \/ pc[b] = "judge" /\ ~Localizable(phases)
    /\ Reports(<<Event("FAILED", FALSE)>>)
    /\ Goes(b, "return")
    /\ UNCHANGED <<disk, harnessVars, generation, madeFor, conflicted, lock, journal,
                   decision, verdict, edits, crashes>>

\* BuildReport.create: success needs the validation right before it.
Certified ==
    LET n == Len(events) IN
    /\ n > 1
    /\ events[n] = Event("COMPLETE", TRUE)
    /\ events[n - 1].phase \in {"RUNTIME_VALIDATE", "REVALIDATE"}
    /\ events[n - 1].success
    /\ Succeeded(phases)

Unlocks == lock' = Nobody
Forgets ==  \* the locals of a call that ends or dies
    /\ events' = <<>>
    /\ decision' = NoPlan
    /\ at' = "off"
    /\ workspace' = [s \in Surfaces |-> 0]
    /\ phases' = <<>>
    /\ child' = "none"
    /\ trace' = NoTrace

Return(b) ==
    /\ pc[b] = "return"
    /\ verdict' = [verdict EXCEPT ![b] = IF Certified THEN "success" ELSE "failure"]
    /\ Unlocks
    /\ Forgets
    /\ Goes(b, "idle")
    /\ NotMade(b)
    /\ UNCHANGED <<disk, generation, journal, edits, crashes>>

Interrupted(b) ==
    /\ pc[b] = "interrupted"
    /\ Unlocks
    /\ Forgets
    /\ Goes(b, "idle")
    /\ NotMade(b)
    /\ UNCHANGED <<disk, generation, journal, verdict, edits, crashes>>

Validating == \E b \in Builders : lock = b /\ pc[b] \in {"validate", "revalidate"}

Harness ==
    /\ Validating
    /\ HarnessWork(madeFor[lock])
    /\ UNCHANGED <<disk, buildVars>>
Child ==
    /\ Validating
    /\ ChildWork
    /\ UNCHANGED <<disk, buildVars>>

Build(b) ==
    \/ TakeLock(b) \/ Locked(b) \/ JournalInput(b) \/ JournalGeneration(b) \/ SeeReport(b)
    \/ Judge(b) \/ Recover(b) \/ Revalidated(b) \/ Close(b) \/ Raises(b)
    \/ Return(b) \/ Interrupted(b)
-----------------------------------------------------------------------------
\* A builder dies; its child, if any, is on its own from then on.
Crash(b) ==
    /\ pc[b] \in Working \cup {"locking"}
    /\ crashes < MaxCrashes
    /\ crashes' = crashes + 1
    /\ Goes(b, "dead")
    /\ NotMade(b)
    /\ IF lock = b THEN Forgets ELSE UNCHANGED <<harnessVars, events, decision>>
    /\ UNCHANGED <<disk, generation, lock, journal, verdict, edits>>

Restart(b) ==
    /\ pc[b] = "dead"
    /\ Goes(b, "idle")
    /\ UNCHANGED <<disk, harnessVars, generation, madeFor, conflicted, lock, journal,
                   events, decision, verdict, edits, crashes>>

\* Somebody removes the lock of a build that is no more; no code does.
ClearLock(b) ==
    /\ lock = b
    /\ pc[b] \notin Working
    /\ Unlocks
    /\ UNCHANGED <<disk, harnessVars, generation, madeFor, conflicted, journal, pc,
                   events, decision, verdict, edits, crashes>>

\* The application is generated anew, surface by surface.
NewGeneration ==
    /\ generation < MaxGeneration
    /\ generation' = generation + 1
    /\ UNCHANGED <<disk, harnessVars, madeFor, conflicted, lock, journal, pc,
                   events, decision, verdict, edits, crashes>>

Generate(s) ==
    /\ disk[s] \notin {generation, Edited}
    /\ disk' = [disk EXCEPT ![s] = generation]
    /\ UNCHANGED <<harnessVars, buildVars>>

Edit(s) ==
    /\ edits < MaxEdits
    /\ edits' = edits + 1
    /\ disk' = [disk EXCEPT ![s] = Edited]
    /\ UNCHANGED <<harnessVars, generation, madeFor, conflicted, lock, journal, pc,
                   events, decision, verdict, crashes>>

Next ==
    \/ Harness \/ Child \/ NewGeneration
    \/ \E b \in Builders : Resume(b) \/ Build(b)
                           \/ Crash(b) \/ Restart(b) \/ ClearLock(b)
    \/ \E s \in Surfaces : Generate(s) \/ Edit(s)

Spec == Init /\ [][Next]_vars

(* A build that was begun goes on unless its process dies, and so does the *)
(* validation: its waits are bounded.  Nothing is assumed of the child, of *)
(* those who edit, or of who clears a lock.                                *)
FairSpec == Spec /\ WF_vars(Harness) /\ \A b \in Builders : WF_vars(Build(b))
-----------------------------------------------------------------------------
TypeOK ==
    /\ HarnessTypes
    /\ generation \in 1..MaxGeneration
    /\ madeFor \in [Builders -> 1..MaxGeneration]
    /\ conflicted \in [Builders -> SUBSET Surfaces]
    /\ lock \in Builders \cup {Nobody}
    /\ pc \in [Builders -> Labels]
    /\ events \in Seq([phase : BuildPhases, success : BOOLEAN])
    /\ decision.surfaces \subseteq Surfaces
    /\ verdict \in [Builders -> {"none", "success", "failure"}]
    /\ edits \in 0..MaxEdits
    /\ crashes \in 0..MaxCrashes

(* run() returns success only if a child made of exactly the surfaces the  *)
(* orchestrator was made for, all of one generation whatever was generated *)
(* or edited meanwhile, answered its health check and is gone again.       *)
SuccessVerified ==
    [][\A b \in Builders : verdict[b] # "success" /\ verdict'[b] = "success" =>
           /\ workspace = [s \in Surfaces |-> madeFor[b]]
           /\ \E i \in DOMAIN phases : phases[i] = Passed("API_SMOKE")
           /\ ~Alive]_vars

(* A build's recovery regenerates a surface only if the evidence of its one *)
(* failure points at it alone, and neither a user-owned file nor a surface  *)
(* the caller declared as changed by the user is among what was named.      *)
RegeneratesOnlyProven ==
    \A b \in Builders :
        pc[b] = "recover" /\ decision.surfaces # {} =>
            LET failure == TheFailure(phases) IN
            /\ Cardinality(Failures(phases)) = 1
            /\ Cardinality(decision.surfaces) = 1
            /\ ~failure.evidence.hostile
            /\ failure.evidence.named \in {{}, decision.surfaces}
            /\ decision.surfaces \cap conflicted[b] = {}

\* the orchestrator implements its promise
Promise == INSTANCE BuildPromise WITH
    holder <- lock,
    verified <- lock # Nobody /\ at = "done" /\ Succeeded(phases)
KeepsPromise == Promise!Spec

(* Every build that was begun ends: with a report, refused, or with the     *)
(* death of its process.                                                    *)
BuildsEnd == \A b \in Builders : pc[b] \in Working \cup {"locking"} ~>
                                 pc[b] \notin Working \cup {"locking"}
=============================================================================
