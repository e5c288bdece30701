-------------------------- MODULE ModuleGeneration --------------------------
(***************************************************************************)
(* tools/generate.py as a process: the public generator makes one module   *)
(* in a workspace.  It snapshots the paths it may write, renders the five  *)
(* layers one by one through a temporary file that a formatter process     *)
(* edits, registers the module, and puts the snapshots back when anything  *)
(* raises.  Nothing is journalled: a killed generator leaves a mixture.    *)
(*                                                                         *)
(* One generator runs in a workspace at a time.                            *)
(***************************************************************************)
EXTENDS Naturals, FiniteSets

CONSTANTS
    Modules,        \* the requested modules, as ranks of their names
    LayerCount      \* how many layers a module has (five in the code)

ASSUME ModulesAssumption ==
    Modules \subseteq Nat \ {0} /\ IsFiniteSet(Modules) /\ LayerCount \in Nat \ {0}

VARIABLES
    workspace,      \* the outputs that exist, the registered modules, a temporary file
    generator       \* the generator process, or the last one that ran

generatorVars == <<workspace, generator>>

Layers == 1..LayerCount
Outputs == Modules \X Layers
RegistryPath == LayerCount + 1

Contents == [outputs : SUBSET Outputs, registry : SUBSET Modules, temporary : BOOLEAN]
EmptyWorkspace == [outputs |-> {}, registry |-> {}, temporary |-> FALSE]

Alive == {"parsing", "writing", "rendering", "restoring"}
Failures == {"failed", "broken"}
States == Alive \cup Failures \cup {"none", "exited", "dying", "killed"}

\* at: the path it is at, layer by layer and then the registry; found: the
\* snapshots; noisy: more output than is drained; helper: its formatter.  Dying
\* is who was sent SIGKILL and has not ended yet.
Generators ==
    [module : Modules \cup {0}, state : States, at : 1..RegistryPath,
     found : Contents, noisy : BOOLEAN, helper : {"none", "runs", "dying"}]

NoGenerator ==
    [module |-> 0, state |-> "none", at |-> 1, found |-> EmptyWorkspace,
     noisy |-> FALSE, helper |-> "none"]

Running == generator.state \in Alive
ProcessLeft == Running \/ generator.state = "dying" \/ generator.helper # "none"

Started(m) ==
    generator' = [NoGenerator EXCEPT !.module = m, !.state = "parsing"]
-----------------------------------------------------------------------------
\* generate_module, up to its try: bad declarations raise before the snapshots.
ParseDeclarations ==
    /\ generator.state = "parsing"
    /\ \/ generator' = [generator EXCEPT !.state = "writing", !.found = workspace]
       \/ generator' = [generator EXCEPT !.state = "failed"]
    /\ UNCHANGED workspace

\* render_template: a temporary file beside the output, formatted by a child.
RenderLayer ==
    /\ generator.state = "writing" /\ generator.at \in Layers
    /\ generator' = [generator EXCEPT !.state = "rendering", !.helper = "runs"]
    /\ workspace' = [workspace EXCEPT !.temporary = TRUE]

\* The formatter has ended, and a failure of it is only printed.
PublishLayer ==
    /\ generator.state = "rendering"
    /\ generator' = [generator EXCEPT !.state = "writing", !.helper = "none",
                                      !.at = generator.at + 1]
    /\ workspace' = [workspace EXCEPT !.temporary = FALSE,
                        !.outputs = @ \cup {<<generator.module, generator.at>>}]

Register ==
    /\ generator.state = "writing" /\ generator.at = RegistryPath
    /\ generator' = [generator EXCEPT !.state = "exited"]
    /\ workspace' = [workspace EXCEPT !.registry = @ \cup {generator.module}]

\* An exception inside the try; the temporary file and its formatter go first.
Raise ==
    /\ generator.state \in {"writing", "rendering"}
    /\ generator' = [generator EXCEPT !.state = "restoring", !.at = 1, !.helper = "none"]
    /\ workspace' = [workspace EXCEPT !.temporary = FALSE]

\* mutant: a path that was absent is left there
RestoredPresent(path) ==
    IF path = RegistryPath
    THEN [workspace EXCEPT !.registry = generator.found.registry]
    ELSE [workspace EXCEPT !.outputs =
             @ \cup (generator.found.outputs \cap {<<generator.module, path>>})]

\* _restore_generation, path by path: the outputs, then the registry.
Restored(path) ==
    IF path = RegistryPath
    THEN [workspace EXCEPT !.registry = generator.found.registry]
    ELSE [workspace EXCEPT !.outputs =
             (@ \ {<<generator.module, path>>})
                 \cup (generator.found.outputs \cap {<<generator.module, path>>})]

RestorePath ==
    /\ generator.state = "restoring"
    /\ workspace' = Restored(generator.at)
    /\ generator' = IF generator.at = RegistryPath
                    THEN [generator EXCEPT !.state = "failed"]
                    ELSE [generator EXCEPT !.at = generator.at + 1]

\* A path cannot be put back, or the process is killed from outside: what is
\* there stays, a formatter that runs goes on running.
Break ==
    /\ Running
    /\ generator' = [generator EXCEPT !.state = "broken"]
    /\ UNCHANGED workspace

\* More output than MAX_OUTPUT_BYTES on a stream.
Chatter ==
    /\ Running
    /\ generator' = [generator EXCEPT !.noisy = TRUE]
    /\ UNCHANGED workspace

Generate ==
    \/ ParseDeclarations
    \/ RenderLayer
    \/ PublishLayer
    \/ Register
    \/ Raise
    \/ RestorePath
    \/ Break
    \/ Chatter

\* os.killpg(SIGKILL), or closing the Job: the generator and all it started are
\* told to end, and execute nothing more.
KilledGroup ==
    [generator EXCEPT !.state = IF Running THEN "dying" ELSE @,
                      !.helper = IF @ = "runs" THEN "dying" ELSE @]

\* They end when the system lets them, one by one, however late.
Die ==
    /\ \/ generator.state = "dying" /\ generator' = [generator EXCEPT !.state = "killed"]
       \/ generator.helper = "dying" /\ generator' = [generator EXCEPT !.helper = "none"]
    /\ UNCHANGED workspace
-----------------------------------------------------------------------------
ModuleTypeOK == workspace \in Contents /\ generator \in Generators

\* A generator that failed by itself, and was not stopped in the middle, leaves
\* every output and the registry as it found them: generate_module's except
\* clause and _restore_generation.
FailedLeavesAsFound ==
    (generator.state = "failed" /\ generator.at = RegistryPath) =>
        /\ workspace.outputs = generator.found.outputs
        /\ workspace.registry = generator.found.registry
=============================================================================
