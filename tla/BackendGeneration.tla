------------------------- MODULE BackendGeneration -------------------------
(***************************************************************************)
(* arcadev/backend_generation.py, generation_dependencies.py and           *)
(* _generation_process.py: one call of generate_backend.  It orders the    *)
(* modules, digests the repository's source file by file, copies the       *)
(* trusted generator into a temporary workspace, runs one generator        *)
(* process per module against a deadline, validates what they made,        *)
(* removes the workspace, digests the source again and records the run.    *)
(* Developers edit the source while it goes on.                            *)
(*                                                                         *)
(* A source file is its version: edits number up, and a number stands for  *)
(* contents no earlier version had.  Gone is the version of a removed file.*)
(***************************************************************************)
EXTENDS ModuleGeneration

CONSTANTS
    Files,          \* source files the snapshots digest
    Trusted,        \* those of them the generator is made of
    MaxVersion,     \* bound on the versions of a file
    Unparsable,     \* versions that are not Python
    Graphs          \* prerequisites of each module: the requests there may be

Gone == MaxVersion + 1
Versions == 0..Gone

ASSUME SourceAssumption ==
    /\ Modules # {} /\ Trusted \subseteq Files /\ MaxVersion \in Nat
    /\ Unparsable \subseteq 1..MaxVersion
    /\ Graphs \subseteq [Modules -> SUBSET Modules]
    /\ \A g \in Graphs : \A m \in Modules : m \notin g[m]

VARIABLES
    source,         \* version of each source file
    request,        \* the request: its prerequisites, and whether all is supported
    pending,        \* modules the dependency plan has not placed
    level,          \* round of the plan that placed a module
    round,
    stage,          \* where the call is
    before,         \* the first snapshot of the source
    bundle,         \* the generator as it was copied
    after,          \* the last snapshot
    todo,           \* files the running stage still has to read
    remaining,      \* modules no generator was run for
    count,          \* generators started
    diagnostic,     \* what went wrong, or "none"
    manifest,       \* artifacts and registry as validated, or NoManifest
    present,        \* the temporary directory is there
    run             \* what the caller got

planVars == <<request, pending, level, round>>
sourceVars == <<source, before, bundle, after, todo>>
callVars == <<remaining, count, diagnostic, manifest, present, run>>
vars == <<generatorVars, planVars, sourceVars, callVars, stage>>

NoManifest == [none |-> TRUE]
Manifests == [outputs : SUBSET Outputs, registry : SUBSET Modules]

Diagnostics ==
    {"process_setup", "nonzero_exit", "timeout", "output_limit", "process_cleanup",
     "workspace_setup", "artifact_validation", "source_changed", "workspace_cleanup"}

Runs ==
    [disposition : {"GENERATED", "FAILED_GENERATION", "FAILED_VALIDATION"},
     manifest : Manifests \cup {NoManifest}, count : Nat,
     diagnostic : Diagnostics \cup {"none"},
     unchanged : BOOLEAN, cleaned : BOOLEAN]

\* What a call ends in besides a run that executed: nothing yet, a request that
\* cannot be built, BLOCKED_INCOMPATIBLE, an exception, evidence _build refuses.
NoRun(why) == [why |-> why]
OtherEnds == {NoRun(w) : w \in {"running", "refused", "blocked", "raised", "unbuildable"}}

Present == {f \in Files : source[f] # Gone}
Nothing == [f \in Files |-> Gone]

Init ==
    /\ workspace = EmptyWorkspace /\ generator = NoGenerator
    /\ source = [f \in Files |-> 0]
    /\ \E g \in Graphs, s \in BOOLEAN : request = [requires |-> g, supported |-> s]
    /\ pending = Modules /\ level = [m \in Modules |-> 0] /\ round = 1
    /\ stage = "planning"
    /\ before = Nothing /\ bundle = Nothing /\ after = Nothing /\ todo = {}
    /\ remaining = Modules /\ count = 0 /\ diagnostic = "none"
    /\ manifest = NoManifest /\ present = FALSE /\ run = NoRun("running")

Ends(why) ==
    /\ stage' = "done"
    /\ run' = NoRun(why)
-----------------------------------------------------------------------------
(* generation_dependency_plan, round by round, while the request is built    *)

Ready == {m \in pending : request.requires[m] \cap pending = {}}

PlanRound ==
    /\ stage = "planning" /\ Ready # {}
    /\ level' = [m \in Modules |-> IF m \in Ready THEN round ELSE level[m]]
    /\ round' = round + 1
    /\ pending' = pending \ Ready
    /\ UNCHANGED <<generatorVars, request, sourceVars, callVars, stage>>

RefuseCycle ==
    /\ stage = "planning" /\ Ready = {} /\ pending # {}
    /\ Ends("refused")
    /\ UNCHANGED <<generatorVars, planVars, sourceVars,
                   remaining, count, diagnostic, manifest, present>>

Block ==
    /\ stage = "planning" /\ pending = {} /\ ~request.supported
    /\ Ends("blocked")
    /\ UNCHANGED <<generatorVars, planVars, sourceVars,
                   remaining, count, diagnostic, manifest, present>>

Admit ==
    /\ stage = "planning" /\ pending = {} /\ request.supported
    /\ stage' = "before" /\ todo' = Present
    /\ UNCHANGED <<generatorVars, planVars, source, before, bundle, after, callVars>>
-----------------------------------------------------------------------------
(* _source_snapshot before and after, and _trusted_bundle between them       *)

ReadBefore(f) ==
    /\ stage = "before" /\ f \in todo /\ source[f] # Gone
    /\ before' = [before EXCEPT ![f] = source[f]]
    /\ todo' = todo \ {f}
    /\ UNCHANGED <<generatorVars, planVars, source, bundle, after, callVars, stage>>

\* f went before its directory was listed, or after: then reading it raises,
\* outside of every try of generate_backend.
MissFile(f) ==
    /\ stage \in {"before", "after"} /\ f \in todo /\ source[f] = Gone
    /\ \/ todo' = todo \ {f} /\ UNCHANGED <<stage, run>>
       \/ Ends("raised") /\ UNCHANGED todo
    /\ UNCHANGED <<generatorVars, planVars, source, before, bundle, after,
                   remaining, count, diagnostic, manifest, present>>

BeginBundle ==
    /\ stage = "before" /\ todo = {}
    /\ stage' = "bundle" /\ todo' = Trusted
    /\ UNCHANGED <<generatorVars, planVars, source, before, bundle, after, callVars>>

CopyTrusted(f) ==
    /\ stage = "bundle" /\ f \in todo /\ source[f] \notin Unparsable \cup {Gone}
    /\ bundle' = [bundle EXCEPT ![f] = source[f]]
    /\ todo' = todo \ {f}
    /\ UNCHANGED <<generatorVars, planVars, source, before, after, callVars, stage>>

\* SyntaxError is neither an OSError nor a ValueError.
CopyUnparsable(f) ==
    /\ stage = "bundle" /\ f \in todo /\ source[f] \in Unparsable
    /\ Ends("raised")
    /\ UNCHANGED <<generatorVars, planVars, sourceVars,
                   remaining, count, diagnostic, manifest, present>>

\* Listing the source again; files that are gone are left out.
BeginAfter ==
    /\ stage' = "after"
    /\ todo' = Present

\* A trusted file is missing or too large, the temporary directory would lie in
\* the repository: WORKSPACE_SETUP, with no directory made.
BundleFails ==
    /\ stage = "bundle"
    /\ diagnostic' = "workspace_setup"
    /\ BeginAfter
    /\ UNCHANGED <<generatorVars, planVars, source, before, bundle, after,
                   remaining, count, manifest, present, run>>

Prepare ==
    /\ stage = "bundle" /\ todo = {}
    /\ present' = TRUE
    /\ stage' = "launch"
    /\ UNCHANGED <<generatorVars, planVars, sourceVars,
                   remaining, count, diagnostic, manifest, run>>

\* OSError while the copies are written, inside the with.
PrepareFails ==
    /\ stage = "bundle" /\ todo = {}
    /\ present' = TRUE
    /\ diagnostic' = "workspace_setup" /\ stage' = "cleanup"
    /\ UNCHANGED <<generatorVars, planVars, sourceVars, remaining, count, manifest, run>>

\* mutant: a digest of the first snapshot is used again
ReadAfterCached(f) ==
    /\ stage = "after" /\ f \in todo /\ source[f] # Gone
    /\ after' = [after EXCEPT ![f] = before[f]]
    /\ todo' = todo \ {f}
    /\ UNCHANGED <<generatorVars, planVars, source, before, bundle, callVars, stage>>

ReadAfter(f) ==
    /\ stage = "after" /\ f \in todo /\ source[f] # Gone
    /\ after' = [after EXCEPT ![f] = source[f]]
    /\ todo' = todo \ {f}
    /\ UNCHANGED <<generatorVars, planVars, source, before, bundle, callVars, stage>>
-----------------------------------------------------------------------------
(* _invoke_dependency_plan and _run_process, a generator at a time           *)

\* The plan's order: by round, within a round by module name.
IsNext(m) ==
    /\ m \in remaining
    /\ \A n \in remaining : level[m] < level[n] \/ (level[m] = level[n] /\ m <= n)

Launch(m) ==
    /\ stage = "launch" /\ IsNext(m)
    /\ Started(m)
    /\ stage' = "running"
    /\ UNCHANGED <<workspace, planVars, sourceVars, callVars>>

\* Popen raises; or the process started and could not be contained.
LaunchFails(m) ==
    /\ stage = "launch" /\ IsNext(m)
    /\ diagnostic' = "process_setup"
    /\ \/ /\ stage' = "cleanup"
          /\ UNCHANGED generator
       \/ /\ Started(m)
          /\ stage' = "stopping"
    /\ UNCHANGED <<workspace, planVars, sourceVars, remaining, count, manifest, present, run>>

SeeExit ==
    /\ stage = "running" /\ ~Running
    /\ stage' = "stopping"
    /\ diagnostic' = IF generator.state = "exited" THEN "none" ELSE "nonzero_exit"
    /\ UNCHANGED <<generatorVars, planVars, sourceVars, remaining, count, manifest, present, run>>

\* poll() saw it alive; the deadline has passed, or a stream has too much output.
GiveUp ==
    /\ stage = "running" /\ Running
    /\ \/ diagnostic' = "timeout"
       \/ diagnostic' = "output_limit" /\ generator.noisy
    /\ stage' = "stopping"
    /\ UNCHANGED <<generatorVars, planVars, sourceVars, remaining, count, manifest, present, run>>

\* mutant: the process that was started is killed, not its group
StopLeader == generator' = [generator EXCEPT !.state = IF Running THEN "dying" ELSE @]

StopGroup == generator' = KilledGroup

\* The finally of _run_process: the signal is sent, then the generator waited for.
Kill ==
    /\ stage = "stopping"
    /\ StopGroup
    /\ stage' = "waiting"
    /\ UNCHANGED <<workspace, planVars, sourceVars, callVars>>

\* wait() returns, the generator itself has ended, its formatter may not have: the
\* rest of the finally, and the accounting of _invoke_dependency_plan.  The
\* readers' threads end in five seconds, or somebody still holds the pipes.
Stop ==
    /\ stage = "waiting" /\ generator.state # "dying"
    /\ diagnostic' \in IF generator.noisy THEN {"output_limit"}
                       ELSE {diagnostic, "process_cleanup"}
    /\ count' = count + 1
    /\ remaining' = remaining \ {generator.module}
    /\ stage' = IF diagnostic' = "none"
                THEN (IF remaining' = {} THEN "validate" ELSE "launch")
                ELSE "cleanup"
    /\ UNCHANGED <<generatorVars, planVars, sourceVars, manifest, present, run>>

\* The generator has not ended after five seconds: wait() raises TimeoutExpired,
\* which is not an OSError, and the call leaves it behind.
WaitExpires ==
    /\ stage = "waiting" /\ generator.state = "dying"
    /\ present' \in BOOLEAN
    /\ Ends("raised")
    /\ UNCHANGED <<generatorVars, planVars, sourceVars,
                   remaining, count, diagnostic, manifest>>
-----------------------------------------------------------------------------
(* _validate_artifacts, the end of the with statement, the run's record      *)

Complete ==
    /\ workspace.outputs = Outputs
    /\ workspace.registry = Modules
    /\ ~workspace.temporary

\* What was generated is Python with the promised classes and no secret, or not.
Validate ==
    /\ stage = "validate"
    /\ \/ /\ Complete
          /\ manifest' = [outputs |-> workspace.outputs, registry |-> workspace.registry]
          /\ UNCHANGED diagnostic
       \/ diagnostic' = "artifact_validation" /\ UNCHANGED manifest
    /\ stage' = "cleanup"
    /\ UNCHANGED <<generatorVars, planVars, sourceVars, remaining, count, present, run>>

Cleanup ==
    /\ stage = "cleanup"
    /\ present' = FALSE
    /\ BeginAfter
    /\ UNCHANGED <<generatorVars, planVars, source, before, bundle, after,
                   remaining, count, diagnostic, manifest, run>>

\* rmtree raises OSError: the handler of WORKSPACE_SETUP runs.
CleanupFails ==
    /\ stage = "cleanup"
    /\ manifest' = NoManifest /\ diagnostic' = "workspace_setup"
    /\ BeginAfter
    /\ UNCHANGED <<generatorVars, planVars, source, before, bundle, after,
                   remaining, count, present, run>>

Changed == before # after

Disposition ==
    IF Changed \/ present THEN "FAILED_VALIDATION"
    ELSE IF diagnostic = "none" THEN "GENERATED"
    ELSE IF diagnostic = "artifact_validation" THEN "FAILED_VALIDATION"
    ELSE "FAILED_GENERATION"

Evidence ==
    [disposition |-> Disposition,
     manifest |-> IF Changed \/ present THEN NoManifest ELSE manifest,
     count |-> count,
     diagnostic |-> IF Changed THEN "source_changed"
                    ELSE IF present THEN "workspace_cleanup" ELSE diagnostic,
     unchanged |-> before = after, cleaned |-> ~present]

\* BackendGenerationRun._build: the evidence a run may carry.
Buildable(e) ==
    /\ e.count <= Cardinality(Modules)
    /\ IF e.disposition = "GENERATED"
       THEN /\ e.count = Cardinality(Modules) /\ e.count > 0
            /\ e.diagnostic = "none" /\ e.unchanged /\ e.cleaned
            /\ e.manifest = [outputs |-> Outputs, registry |-> Modules]
       ELSE e.manifest = NoManifest /\ e.diagnostic # "none"

Record ==
    /\ stage = "after" /\ todo = {}
    /\ stage' = "done"
    /\ run' = IF Buildable(Evidence) THEN Evidence ELSE NoRun("unbuildable")
    /\ UNCHANGED <<generatorVars, planVars, sourceVars,
                   remaining, count, diagnostic, manifest, present>>
-----------------------------------------------------------------------------
\* The generator process goes on by itself while it is watched or stopped.
GeneratorStep ==
    /\ stage \in {"running", "stopping"}
    /\ Generate
    /\ UNCHANGED <<planVars, sourceVars, callVars, stage>>

\* Who was signalled ends, whatever the call does meanwhile.
DieAtLast ==
    /\ Die
    /\ UNCHANGED <<planVars, sourceVars, callVars, stage>>

\* A developer changes or removes a file, never back to what it was.
Edit(f) ==
    /\ stage # "done" /\ source[f] # Gone
    /\ \E v \in source[f] + 1 .. Gone : source' = [source EXCEPT ![f] = v]
    /\ UNCHANGED <<generatorVars, planVars, before, bundle, after, todo, callVars, stage>>

Planning == PlanRound \/ RefuseCycle \/ Block \/ Admit

Reading ==
    \/ BeginBundle
    \/ BundleFails
    \/ Prepare
    \/ PrepareFails
    \/ \E f \in Files :
          \/ ReadBefore(f)
          \/ MissFile(f)
          \/ CopyTrusted(f)
          \/ CopyUnparsable(f)
          \/ ReadAfter(f)

Invoking ==
    \/ \E m \in Modules : Launch(m) \/ LaunchFails(m)
    \/ SeeExit
    \/ GiveUp
    \/ Kill
    \/ Stop
    \/ WaitExpires

Concluding == Validate \/ Cleanup \/ CleanupFails \/ Record

Call == Planning \/ Reading \/ Invoking \/ Concluding

Next == Call \/ GeneratorStep \/ DieAtLast \/ \E f \in Files : Edit(f)

Spec == Init /\ [][Next]_vars
-----------------------------------------------------------------------------
Stages ==
    {"planning", "before", "bundle", "launch", "running", "stopping", "waiting",
     "validate", "cleanup", "after", "done"}

TypeOK ==
    /\ ModuleTypeOK
    /\ source \in [Files -> Versions]
    /\ request \in [requires : Graphs, supported : BOOLEAN]
    /\ pending \subseteq Modules /\ level \in [Modules -> Nat] /\ round \in Nat
    /\ stage \in Stages
    /\ before \in [Files -> Versions]
    /\ bundle \in [Files -> Versions]
    /\ after \in [Files -> Versions]
    /\ todo \subseteq Files
    /\ remaining \subseteq Modules /\ count \in Nat
    /\ diagnostic \in Diagnostics \cup {"none"}
    /\ manifest \in Manifests \cup {NoManifest}
    /\ present \in BOOLEAN
    /\ run \in Runs \cup OtherEnds

Generated == run \in Runs /\ run.disposition = "GENERATED"

\* A run that says GENERATED has every artifact of every module, made by the very
\* files both snapshots saw, although each file was read at another moment and
\* edited in between: the comparison of before and after in generate_backend.
GeneratedFromSource ==
    Generated =>
        /\ run.manifest = [outputs |-> Outputs, registry |-> Modules]
        /\ \A f \in Trusted : bundle[f] = before[f] /\ bundle[f] = after[f]

\* Whatever a generator did before it was stopped, who is left of it and of its
\* formatter after _run_process has been sent SIGKILL and not died yet; and
\* nobody at all is left when the next module builds on the workspace, when it is
\* validated, and after a GENERATED run: a generator that was given up, or that
\* left its formatter behind, is the last of its call.  What was validated is what
\* is there (the finally of _run_process and _invoke_dependency_plan).
ValidatedAlone ==
    /\ stage \notin {"running", "stopping"} => ~Running /\ generator.helper # "runs"
    /\ stage \in {"launch", "validate"} \/ Generated => ~ProcessLeft
    /\ manifest # NoManifest =>
          /\ manifest.outputs = workspace.outputs
          /\ manifest.registry = workspace.registry

\* A generator runs only when the modules its relationships name were generated
\* completely; a request whose modules wait for each other runs none
\* (generation_dependency_plan and _invoke_dependency_plan).
PrerequisitesFirst ==
    Running =>
        /\ request.requires[generator.module] \subseteq workspace.registry
        /\ \A p \in request.requires[generator.module] :
              {p} \X Layers \subseteq workspace.outputs

\* Whatever went wrong, the evidence generate_backend gathered is evidence that
\* BackendGenerationRun accepts.
EvidenceAccepted == run # NoRun("unbuildable")

=============================================================================
