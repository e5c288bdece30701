---------------------- MODULE BackendGenerationProofs ----------------------
(* Proofs about controlled backend generation: for any modules, layers,    *)
(* prerequisites, source files, versions and edits.                        *)
EXTENDS BackendGeneration, TLAPS, FiniteSetTheorems

(* An output is there exactly if the generator found it there.             *)
AsFound(m, l) ==
    <<m, l>> \in workspace.outputs <=> <<m, l>> \in generator.found.outputs

Own(m) == m = generator.module

(* What a generator has done where it is: the layers below its place exist *)
(* and nothing of other modules is touched; restoring, the paths below its *)
(* place are as they were found.                                           *)
GenInv ==
    /\ ModuleTypeOK
    /\ generator.state \in {"parsing", "writing", "rendering", "restoring", "exited"} =>
          generator.module \in Modules
    /\ generator.state = "rendering" => generator.at \in Layers
    /\ generator.state = "parsing" => generator.at = 1
    /\ generator.state \in {"writing", "rendering"} =>
          /\ workspace.registry = generator.found.registry
          /\ \A l \in Layers : l < generator.at =>
                <<generator.module, l>> \in workspace.outputs
          /\ \A m \in Modules, l \in Layers : ~Own(m) => AsFound(m, l)
    /\ generator.state = "exited" =>
          /\ generator.module \in workspace.registry
          /\ \A l \in Layers : <<generator.module, l>> \in workspace.outputs
    /\ generator.state = "restoring" =>
          /\ workspace.registry = generator.found.registry
          /\ \A m \in Modules, l \in Layers :
                (~Own(m) \/ l < generator.at) => AsFound(m, l)
    /\ generator.state = "failed" /\ generator.at = RegistryPath =>
          /\ workspace.registry = generator.found.registry
          /\ \A m \in Modules, l \in Layers : AsFound(m, l)
    /\ generator.state \in {"none", "parsing", "writing", "restoring", "exited"} =>
          generator.helper = "none"

(* A step of the generator keeps that.                                     *)
LEMMA GenerateKeeps ==
    ASSUME GenInv, Generate
    PROVE  GenInv'
<1> USE DEF GenInv, ModuleTypeOK, Generators, Contents, States, Alive, Failures,
            Layers, RegistryPath, Own, AsFound
<1>0. LayerCount \in Nat \ {0}
  BY ModulesAssumption
<1>1. CASE ParseDeclarations
  <2>1. generator.state = "parsing" /\ generator.at = 1 /\ workspace' = workspace
    BY <1>1 DEF ParseDeclarations
  <2>2. CASE generator' = [generator EXCEPT !.state = "writing", !.found = workspace]
    <3>1. /\ generator' \in Generators
          /\ generator'.state = "writing" /\ generator'.module = generator.module
          /\ generator'.at = generator.at /\ generator'.found = workspace
          /\ generator'.helper = generator.helper
      BY <2>2
    <3> QED
      BY <1>0, <2>1, <3>1
  <2>3. CASE generator' = [generator EXCEPT !.state = "failed"]
    <3>1. /\ generator' \in Generators
          /\ generator'.state = "failed" /\ generator'.at = generator.at
      BY <2>3
    <3> QED
      BY <1>0, <2>1, <3>1
  <2> QED
    BY <1>1, <2>2, <2>3 DEF ParseDeclarations
<1>2. CASE RenderLayer
  BY <1>0, <1>2 DEF RenderLayer
<1>3. CASE PublishLayer
  <2> DEFINE made == <<generator.module, generator.at>>
  <2>1. /\ generator.state = "rendering" /\ generator.module \in Modules
        /\ generator.at \in 1..LayerCount /\ made \in Outputs
    BY <1>3 DEF PublishLayer, Outputs
  <2>2. /\ generator' \in Generators
        /\ generator'.state = "writing" /\ generator'.module = generator.module
        /\ generator'.at = generator.at + 1 /\ generator'.found = generator.found
        /\ generator'.helper = "none"
    <3>1. generator.at + 1 \in 1..(LayerCount + 1)
      BY <1>0, <2>1
    <3>2. generator' = [[[generator EXCEPT !.state = "writing"]
                                EXCEPT !.helper = "none"]
                                EXCEPT !.at = generator.at + 1]
      BY <1>3 DEF PublishLayer
    <3> QED
      BY <3>1, <3>2
  <2>3. /\ workspace' \in Contents
        /\ workspace'.outputs = workspace.outputs \cup {made}
        /\ workspace'.registry = workspace.registry
    BY <1>3, <2>1 DEF PublishLayer
  <2>4. \A l \in 1..LayerCount : l < generator'.at =>
           <<generator'.module, l>> \in workspace'.outputs
    BY <1>0, <2>1, <2>2, <2>3
  <2>5. \A m \in Modules, l \in 1..LayerCount :
           m # generator'.module => AsFound(m, l)'
    BY <2>1, <2>2, <2>3
  <2> QED
    BY <1>0, <2>1, <2>2, <2>3, <2>4, <2>5
<1>4. CASE Register
  <2>1. generator.state = "writing" /\ generator.at = LayerCount + 1
    BY <1>4 DEF Register
  <2>2. /\ generator' \in Generators
        /\ generator'.state = "exited" /\ generator'.module = generator.module
        /\ generator'.helper = generator.helper
    BY <1>0, <1>4, <2>1 DEF Register
  <2>3. /\ workspace' \in Contents
        /\ workspace'.outputs = workspace.outputs
        /\ workspace'.registry = workspace.registry \cup {generator.module}
    BY <1>4, <2>1 DEF Register
  <2> QED
    BY <1>0, <2>1, <2>2, <2>3
<1>5. CASE Raise
  <2>1. generator.state \in {"writing", "rendering"}
    BY <1>5 DEF Raise
  <2>2. /\ generator' \in Generators
        /\ generator'.state = "restoring" /\ generator'.module = generator.module
        /\ generator'.at = 1 /\ generator'.found = generator.found
        /\ generator'.helper = "none"
    <3>1. 1 \in 1..(LayerCount + 1)
      BY <1>0
    <3>2. generator' = [[[generator EXCEPT !.state = "restoring"]
                                EXCEPT !.at = 1]
                                EXCEPT !.helper = "none"]
      BY <1>5 DEF Raise
    <3> QED
      BY <3>1, <3>2
  <2>3. /\ workspace' \in Contents
        /\ workspace'.outputs = workspace.outputs
        /\ workspace'.registry = workspace.registry
    BY <1>5, <2>1 DEF Raise
  <2> QED
    BY <1>0, <2>1, <2>2, <2>3
<1>6. CASE RestorePath
  <2> DEFINE path == <<generator.module, generator.at>>
  <2>1. /\ generator.state = "restoring" /\ generator.module \in Modules
        /\ generator.found \in Contents
    BY <1>6 DEF RestorePath
  <2>2. CASE generator.at = LayerCount + 1
    <3>1. /\ generator' \in Generators
          /\ generator'.state = "failed" /\ generator'.found = generator.found
          /\ generator'.module = generator.module /\ generator'.at = generator.at
      BY <1>6, <2>2 DEF RestorePath
    <3>2. /\ workspace' \in Contents
          /\ workspace'.outputs = workspace.outputs
          /\ workspace'.registry = generator.found.registry
      BY <1>6, <2>1, <2>2 DEF RestorePath, Restored
    <3> QED
      BY <1>0, <2>1, <2>2, <3>1, <3>2
  <2>3. CASE generator.at # LayerCount + 1
    <3>1. generator.at \in 1..LayerCount
      BY <1>0, <2>3
    <3>2. /\ generator' \in Generators
          /\ generator'.state = "restoring" /\ generator'.found = generator.found
          /\ generator'.helper = generator.helper
          /\ generator'.module = generator.module /\ generator'.at = generator.at + 1
      BY <1>0, <1>6, <2>1, <2>3, <3>1 DEF RestorePath
    <3>3. /\ workspace' \in Contents
          /\ workspace'.outputs = (workspace.outputs \ {path})
                                      \cup (generator.found.outputs \cap {path})
          /\ workspace'.registry = workspace.registry
      BY <1>6, <2>1, <2>3 DEF RestorePath, Restored
    <3>4. \A m \in Modules, l \in 1..LayerCount :
             (m # generator.module \/ l < generator.at + 1) => AsFound(m, l)'
      BY <1>0, <2>1, <3>1, <3>2, <3>3
    <3> QED
      BY <1>0, <2>1, <3>1, <3>2, <3>3, <3>4
  <2> QED
    BY <2>2, <2>3
<1>7. CASE Break
  BY <1>0, <1>7 DEF Break, Running
<1>8. CASE Chatter
  BY <1>0, <1>8 DEF Chatter, Running
<1> QED
  BY <1>1, <1>2, <1>3, <1>4, <1>5, <1>6, <1>7, <1>8 DEF Generate

(* So do starting one and killing its group.                               *)
LEMMA StartKeeps ==
    ASSUME GenInv, NEW m \in Modules, Started(m), UNCHANGED workspace
    PROVE  /\ GenInv'
           /\ generator'.module = m /\ generator'.state = "parsing"
<1>0. LayerCount \in Nat \ {0}
  BY ModulesAssumption
<1>1. NoGenerator \in Generators /\ NoGenerator.at = 1
  BY <1>0 DEF NoGenerator, Generators, Contents, EmptyWorkspace, States, RegistryPath
<1>2. /\ generator' \in Generators
      /\ generator'.module = m /\ generator'.state = "parsing" /\ generator'.at = 1
      /\ generator'.helper = "none"
  BY <1>1 DEF NoGenerator, Started, Generators, States, Alive
<1>3. ModuleTypeOK'
  BY <1>2 DEF GenInv, ModuleTypeOK
<1> QED
  BY <1>2, <1>3 DEF GenInv

(* ... after which nothing of the group does anything but end ...          *)
LEMMA KillKeeps ==
    ASSUME GenInv, generator' = KilledGroup, UNCHANGED workspace
    PROVE  /\ GenInv'
           /\ ~Running' /\ generator'.helper # "runs"
           /\ generator'.module = generator.module
           /\ generator.state = "exited" => generator'.state = "exited"
<1>1. /\ generator' \in Generators
      /\ generator'.state = IF Running THEN "dying" ELSE generator.state
      /\ generator'.module = generator.module /\ generator'.at = generator.at
      /\ generator'.found = generator.found
      /\ generator'.helper = IF generator.helper = "runs" THEN "dying" ELSE generator.helper
  <2>1. generator' = [[generator EXCEPT
                         !.state = IF Running THEN "dying" ELSE generator.state]
                         EXCEPT !.helper = IF generator.helper = "runs" THEN "dying"
                                                                       ELSE generator.helper]
    BY DEF KilledGroup
  <2> QED
    BY <2>1 DEF GenInv, ModuleTypeOK, Generators, States
<1>2. ~Running'
  BY <1>1 DEF Running, Alive
<1>3. ModuleTypeOK'
  BY <1>1 DEF GenInv, ModuleTypeOK
<1>4. GenInv'
  BY <1>1, <1>2, <1>3 DEF GenInv, AsFound, Own, Running, Alive
<1> QED
  BY <1>1, <1>2, <1>4 DEF Running, Alive

(* ... as does its end.                                                    *)
LEMMA DieKeeps ==
    ASSUME GenInv, Die
    PROVE  /\ GenInv'
           /\ generator'.module = generator.module
           /\ Running' <=> Running
           /\ generator'.helper \in {generator.helper, "none"}
           /\ ProcessLeft' => ProcessLeft
           /\ generator.state = "exited" => generator'.state = "exited"
           /\ UNCHANGED workspace
<1> USE DEF GenInv, ModuleTypeOK, Generators, States, Running, Alive, ProcessLeft
<1>1. CASE /\ generator.state = "dying" /\ UNCHANGED workspace
           /\ generator' = [generator EXCEPT !.state = "killed"]
  BY <1>1
<1>2. CASE /\ generator.helper = "dying" /\ UNCHANGED workspace
           /\ generator' = [generator EXCEPT !.helper = "none"]
  <2>1. /\ generator' \in Generators /\ generator'.helper = "none"
        /\ generator'.module = generator.module /\ generator'.state = generator.state
        /\ generator'.at = generator.at /\ generator'.found = generator.found
    BY <1>2
  <2> QED
    BY <1>2, <2>1 DEF AsFound, Own
<1> QED
  BY <1>1, <1>2 DEF Die

(* The parts of the type invariant beside the generator.                   *)
LEMMA TypeInit == Init => TypeOK /\ GenInv
<1> SUFFICES ASSUME Init PROVE TypeOK /\ GenInv
  OBVIOUS
<1>0. LayerCount \in Nat \ {0} /\ MaxVersion \in Nat
  BY ModulesAssumption, SourceAssumption
<1>1. ModuleTypeOK /\ generator.state = "none" /\ generator.helper = "none"
  BY <1>0 DEF Init, ModuleTypeOK, NoGenerator, Generators, Contents, EmptyWorkspace,
              States, RegistryPath
<1>2. GenInv
  BY <1>1 DEF GenInv
<1>3. /\ source \in [Files -> Versions]
      /\ before \in [Files -> Versions]
      /\ bundle \in [Files -> Versions]
      /\ after \in [Files -> Versions]
  BY <1>0 DEF Init, Versions, Gone, Nothing
<1>4. run \in OtherEnds
  BY DEF Init, OtherEnds
<1>5. PICK g \in Graphs, s \in BOOLEAN : request = [requires |-> g, supported |-> s]
  BY DEF Init
<1> QED
  BY <1>1, <1>2, <1>3, <1>4, <1>5 DEF Init, TypeOK, Stages

(* Every step keeps the types and what the generator has done.             *)
LEMMA TypeStep ==
    ASSUME TypeOK, GenInv, [Next]_vars
    PROVE  TypeOK' /\ GenInv'
<1> USE DEF TypeOK, Stages, Diagnostics, vars, planVars, sourceVars, callVars,
            generatorVars, Ends, OtherEnds
<1>0. /\ UNCHANGED generatorVars => GenInv' /\ ModuleTypeOK'
      /\ GenInv' => ModuleTypeOK'
  BY DEF GenInv, ModuleTypeOK, AsFound, Own
<1>1. CASE Planning
  <2>1. CASE PlanRound
    BY <1>0, <2>1 DEF PlanRound, Ready
  <2>2. CASE RefuseCycle
    BY <1>0, <2>2 DEF RefuseCycle
  <2>3. CASE Block
    BY <1>0, <2>3 DEF Block
  <2>4. CASE Admit
    BY <1>0, <2>4 DEF Admit, Present
  <2> QED
    BY <1>1, <2>1, <2>2, <2>3, <2>4 DEF Planning
<1>2. CASE Reading
  <2>1. CASE BeginBundle
    BY <1>0, <2>1, SourceAssumption DEF BeginBundle
  <2>2. CASE BundleFails
    BY <1>0, <2>2 DEF BundleFails, BeginAfter, Present
  <2>3. CASE Prepare
    BY <1>0, <2>3 DEF Prepare
  <2>4. CASE PrepareFails
    BY <1>0, <2>4 DEF PrepareFails
  <2>5. ASSUME NEW f \in Files, ReadBefore(f) PROVE TypeOK' /\ GenInv'
    BY <1>0, <2>5 DEF ReadBefore
  <2>6. ASSUME NEW f \in Files, MissFile(f) PROVE TypeOK' /\ GenInv'
    BY <1>0, <2>6 DEF MissFile
  <2>7. ASSUME NEW f \in Files, CopyTrusted(f) PROVE TypeOK' /\ GenInv'
    BY <1>0, <2>7 DEF CopyTrusted
  <2>8. ASSUME NEW f \in Files, CopyUnparsable(f) PROVE TypeOK' /\ GenInv'
    BY <1>0, <2>8 DEF CopyUnparsable
  <2>9. ASSUME NEW f \in Files, ReadAfter(f) PROVE TypeOK' /\ GenInv'
    BY <1>0, <2>9 DEF ReadAfter
  <2> QED
    BY <1>2, <2>1, <2>2, <2>3, <2>4, <2>5, <2>6, <2>7, <2>8, <2>9 DEF Reading
<1>3. CASE Invoking
  <2>1. ASSUME NEW m \in Modules, Launch(m) PROVE TypeOK' /\ GenInv'
    BY <1>0, <2>1, StartKeeps DEF Launch
  <2>2. ASSUME NEW m \in Modules, LaunchFails(m) PROVE TypeOK' /\ GenInv'
    BY <1>0, <2>2, StartKeeps DEF LaunchFails
  <2>3. CASE SeeExit
    BY <1>0, <2>3 DEF SeeExit
  <2>4. CASE GiveUp
    BY <1>0, <2>4 DEF GiveUp
  <2>5. CASE Kill
    <3>1. GenInv'
      BY <2>5, KillKeeps DEF Kill, StopGroup
    <3> QED
      BY <1>0, <2>5, <3>1 DEF Kill
  <2>6. CASE Stop
    <3>1. diagnostic' \in Diagnostics \cup {"none"}
      BY <2>6 DEF Stop
    <3> QED
      BY <1>0, <2>6, <3>1 DEF Stop
  <2>7. CASE WaitExpires
    BY <1>0, <2>7 DEF WaitExpires
  <2> QED
    BY <1>3, <2>1, <2>2, <2>3, <2>4, <2>5, <2>6, <2>7 DEF Invoking
<1>4. CASE Concluding
  <2>1. CASE Validate
    BY <1>0, <2>1 DEF Validate, Manifests, GenInv, ModuleTypeOK, Contents
  <2>2. CASE Cleanup
    BY <1>0, <2>2 DEF Cleanup, BeginAfter, Present
  <2>3. CASE CleanupFails
    BY <1>0, <2>3 DEF CleanupFails, BeginAfter, Present
  <2>4. CASE Record
    <3>1. Evidence \in Runs
      BY DEF Evidence, Runs, Disposition
    <3> QED
      BY <1>0, <2>4, <3>1 DEF Record
  <2> QED
    BY <1>4, <2>1, <2>2, <2>3, <2>4 DEF Concluding
<1>5. CASE GeneratorStep
  BY <1>0, <1>5, GenerateKeeps DEF GeneratorStep
<1>6. CASE DieAtLast
  BY <1>0, <1>6, DieKeeps DEF DieAtLast
<1>7. ASSUME NEW f \in Files, Edit(f) PROVE TypeOK' /\ GenInv'
  <2>1. PICK v \in source[f] + 1 .. Gone : source' = [source EXCEPT ![f] = v]
    BY <1>7 DEF Edit
  <2>2. v \in Versions
    BY <2>1, SourceAssumption DEF Versions, Gone
  <2> QED
    BY <1>0, <1>7, <2>1, <2>2 DEF Edit
<1>8. CASE UNCHANGED vars
  BY <1>0, <1>8
<1> QED
  BY <1>1, <1>2, <1>3, <1>4, <1>5, <1>6, <1>7, <1>8 DEF Next, Call

(* A value of every variable is of its type, whatever the constants.       *)
THEOREM TypeCorrect == Spec => [](TypeOK /\ GenInv)
<1>1. Init => TypeOK /\ GenInv
  BY TypeInit
<1>2. (TypeOK /\ GenInv) /\ [Next]_vars => (TypeOK /\ GenInv)'
  BY TypeStep
<1> QED
  BY <1>1, <1>2, PTL DEF Spec

(* What a generator that failed by itself leaves is what it found          *)
(* (FailedLeavesAsFound).                                                  *)
THEOREM FailureRestores == Spec => []FailedLeavesAsFound
<1>1. TypeOK /\ GenInv => FailedLeavesAsFound
  <2> SUFFICES ASSUME GenInv, generator.state = "failed", generator.at = RegistryPath
               PROVE  /\ workspace.outputs = generator.found.outputs
                      /\ workspace.registry = generator.found.registry
    BY DEF FailedLeavesAsFound
  <2>1. \A m \in Modules, l \in Layers : AsFound(m, l)
    BY DEF GenInv
  <2>2. workspace.outputs \subseteq Outputs /\ generator.found.outputs \subseteq Outputs
    BY DEF GenInv, ModuleTypeOK, Generators, Contents
  <2>3. \A o \in Outputs : o \in workspace.outputs <=> o \in generator.found.outputs
    BY <2>1 DEF AsFound, Outputs
  <2> QED
    BY <2>2, <2>3 DEF GenInv
<1> QED
  BY <1>1, TypeCorrect, PTL
-----------------------------------------------------------------------------
(* The versions of a file only grow, and a stage reads every file once:    *)
(* what the first snapshot read is no later than what was copied, which is *)
(* no later than the source is now and than what the last snapshot read.   *)
Copying == {"launch", "running", "stopping", "waiting", "validate", "cleanup"}
BeforeAfter == Copying \cup {"planning", "before", "bundle"}

Copied(f) == before[f] <= bundle[f] /\ bundle[f] <= source[f]

SourceInv ==
    /\ stage = "planning" => before = Nothing
    /\ stage \in BeforeAfter => after = Nothing
    /\ stage = "before" => \A f \in todo : before[f] = Gone
    /\ stage \in {"before", "bundle"} =>
          \A f \in Files : (stage = "before" /\ f \in todo) \/ before[f] <= source[f]
    /\ stage = "bundle" => \A f \in Trusted \ todo : Copied(f)
    /\ stage \in Copying => \A f \in Trusted : Copied(f)
    /\ stage = "after" => \A f \in todo : after[f] = Gone
    /\ stage = "after" /\ diagnostic = "none" =>
          \A f \in Trusted : Copied(f) /\ (f \in todo \/ bundle[f] <= after[f])
    /\ Generated => stage = "done" /\ GeneratedFromSource

(* Nothing has been read when the call begins.                             *)
LEMMA SourceInit == Init => SourceInv
BY DEF Init, SourceInv, Copying, BeforeAfter, Generated, Runs, NoRun

(* An end without a record is not a GENERATED one.                         *)
LEMMA NotARun ==
    ASSUME NEW why, run' = NoRun(why)
    PROVE  ~Generated'
BY DEF Generated, Runs, NoRun

(* Every step keeps the order of the versions.                             *)
LEMMA SourceStep ==
    ASSUME TypeOK, SourceInv, [Next]_vars
    PROVE  SourceInv'
<1> USE DEF SourceInv, Copying, BeforeAfter, Copied, vars, planVars, sourceVars,
            callVars, generatorVars, Ends
<1>0. /\ MaxVersion \in Nat /\ Trusted \subseteq Files /\ Gone \in Nat
      /\ \A f \in Files : /\ source[f] \in Nat /\ source[f] <= Gone
                          /\ before[f] \in Nat /\ before[f] <= Gone
                          /\ bundle[f] \in Nat /\ bundle[f] <= Gone
                          /\ after[f] \in Nat /\ after[f] <= Gone
  BY SourceAssumption DEF TypeOK, Versions, Gone
<1>1. UNCHANGED <<run, bundle, before, after>> =>
         (Generated' <=> Generated) /\ (GeneratedFromSource' <=> GeneratedFromSource)
  BY DEF Generated, GeneratedFromSource
<1>2. stage # "done" => ~Generated
  OBVIOUS
<1>3. UNCHANGED run => (Generated' <=> Generated)
  BY DEF Generated
<1>4. CASE Planning
  <2>1. CASE PlanRound
    BY <1>0, <1>1, <2>1 DEF PlanRound
  <2>2. CASE RefuseCycle
    BY <1>0, NotARun, <2>2 DEF RefuseCycle
  <2>3. CASE Block
    BY <1>0, NotARun, <2>3 DEF Block
  <2>4. CASE Admit
    BY <1>0, <1>2, <1>3, <2>4 DEF Admit, Present, Nothing
  <2> QED
    BY <1>4, <2>1, <2>2, <2>3, <2>4 DEF Planning
<1>5. CASE Reading
  <2>1. CASE BeginBundle
    BY <1>0, <1>2, <1>3, <2>1 DEF BeginBundle
  <2>2. CASE BundleFails
    BY <1>0, <1>2, <1>3, <2>2 DEF BundleFails, BeginAfter, Present, Nothing
  <2>3. CASE Prepare
    BY <1>0, <1>2, <1>3, <2>3 DEF Prepare
  <2>4. CASE PrepareFails
    BY <1>0, <1>2, <1>3, <2>4 DEF PrepareFails
  <2>5. ASSUME NEW f \in Files, ReadBefore(f) PROVE SourceInv'
    BY <1>0, <1>2, <1>3, <2>5 DEF ReadBefore, TypeOK
  <2>6. ASSUME NEW f \in Files, MissFile(f) PROVE SourceInv'
    <3>1. CASE UNCHANGED <<stage, run>>
      BY <1>0, <1>2, <1>3, <2>6, <3>1 DEF MissFile
    <3>2. CASE Ends("raised")
      BY <1>0, NotARun, <2>6, <3>2 DEF MissFile
    <3> QED
      BY <2>6, <3>1, <3>2 DEF MissFile
  <2>7. ASSUME NEW f \in Files, CopyTrusted(f) PROVE SourceInv'
    BY <1>0, <1>2, <1>3, <2>7 DEF CopyTrusted, TypeOK
  <2>8. ASSUME NEW f \in Files, CopyUnparsable(f) PROVE SourceInv'
    BY <1>0, NotARun, <2>8 DEF CopyUnparsable
  <2>9. ASSUME NEW f \in Files, ReadAfter(f) PROVE SourceInv'
    BY <1>0, <1>2, <1>3, <2>9 DEF ReadAfter, TypeOK
  <2> QED
    BY <1>5, <2>1, <2>2, <2>3, <2>4, <2>5, <2>6, <2>7, <2>8, <2>9 DEF Reading
<1>6. CASE Invoking
  <2>1. ASSUME NEW m \in Modules, Launch(m) PROVE SourceInv'
    BY <1>0, <1>2, <1>3, <2>1 DEF Launch
  <2>2. ASSUME NEW m \in Modules, LaunchFails(m) PROVE SourceInv'
    BY <1>0, <1>2, <1>3, <2>2 DEF LaunchFails
  <2>3. CASE SeeExit
    BY <1>0, <1>2, <1>3, <2>3 DEF SeeExit
  <2>4. CASE GiveUp
    BY <1>0, <1>2, <1>3, <2>4 DEF GiveUp
  <2>5. CASE Kill
    BY <1>0, <1>2, <1>3, <2>5 DEF Kill
  <2>6. CASE Stop
    BY <1>0, <1>2, <1>3, <2>6 DEF Stop
  <2>7. CASE WaitExpires
    BY <1>0, NotARun, <2>7 DEF WaitExpires
  <2> QED
    BY <1>6, <2>1, <2>2, <2>3, <2>4, <2>5, <2>6, <2>7 DEF Invoking
<1>7. CASE Concluding
  <2>1. CASE Validate
    BY <1>0, <1>2, <1>3, <2>1 DEF Validate
  <2>2. CASE Cleanup
    BY <1>0, <1>2, <1>3, <2>2 DEF Cleanup, BeginAfter, Present, Nothing
  <2>3. CASE CleanupFails
    BY <1>0, <1>2, <1>3, <2>3 DEF CleanupFails, BeginAfter, Present, Nothing
  <2>4. CASE Record
    <3>1. CASE ~Buildable(Evidence)
      BY <1>0, NotARun, <2>4, <3>1 DEF Record
    <3>2. CASE Buildable(Evidence)
      <4>1. run' = Evidence /\ stage = "after" /\ todo = {} /\ stage' = "done"
            /\ UNCHANGED <<before, bundle, after, source, diagnostic, todo>>
        BY <2>4, <3>2 DEF Record
      <4>2. CASE Disposition = "GENERATED"
        <5>1. Evidence.disposition = "GENERATED" /\ before = after
          BY <4>2 DEF Evidence, Disposition, Changed
        <5>2. /\ diagnostic = "none"
              /\ run'.manifest = [outputs |-> Outputs, registry |-> Modules]
          BY <4>1, <4>2, <3>2, <5>1 DEF Buildable, Evidence, Disposition
        <5>3. \A f \in Trusted : bundle[f] = before[f] /\ bundle[f] = after[f]
          BY <1>0, <4>1, <5>1, <5>2
        <5>4. GeneratedFromSource'
          BY <4>1, <5>2, <5>3 DEF GeneratedFromSource
        <5> QED
          BY <4>1, <5>4
      <4>3. CASE Disposition # "GENERATED"
        <5>1. ~Generated'
          BY <4>1, <4>3 DEF Generated, Evidence
        <5> QED
          BY <4>1, <5>1
      <4> QED
        BY <4>2, <4>3
    <3> QED
      BY <3>1, <3>2
  <2> QED
    BY <1>7, <2>1, <2>2, <2>3, <2>4 DEF Concluding
<1>8. CASE GeneratorStep \/ DieAtLast
  BY <1>0, <1>1, <1>8 DEF GeneratorStep, DieAtLast
<1>9. ASSUME NEW f \in Files, Edit(f) PROVE SourceInv'
  <2>1. PICK v \in source[f] + 1 .. Gone : source' = [source EXCEPT ![f] = v]
    BY <1>9 DEF Edit
  <2>2. \A g \in Files : source[g] <= source'[g] /\ source'[g] \in Nat
    BY <1>0, <2>1 DEF TypeOK
  <2> QED
    BY <1>0, <1>1, <1>9, <2>2 DEF Edit
<1>10. CASE UNCHANGED vars
  BY <1>0, <1>1, <1>10
<1> QED
  BY <1>4, <1>5, <1>6, <1>7, <1>8, <1>9, <1>10 DEF Next, Call

(* Equal snapshots on both sides of the copy leave nothing for the copy to *)
(* differ in, and only complete evidence is GENERATED                      *)
(* (GeneratedFromSource).                                                  *)
THEOREM MadeFromSource == Spec => []GeneratedFromSource
<1>1. (TypeOK /\ SourceInv) /\ [Next]_vars => SourceInv'
  BY SourceStep
<1>2. SourceInv => GeneratedFromSource
  BY DEF SourceInv, GeneratedFromSource
<1> QED
  BY <1>1, <1>2, SourceInit, TypeCorrect, PTL DEF Spec
-----------------------------------------------------------------------------
(* What a generator does to the modules that are not its own: nothing.     *)
Complete1(n) == n \in workspace.registry /\ {n} \X Layers \subseteq workspace.outputs

(* A complete module stays complete while another one is generated.        *)
LEMMA OthersUntouched ==
    ASSUME GenInv, Generate, NEW n \in Modules, ~Own(n), Complete1(n)
    PROVE  Complete1(n)'
<1> USE DEF Complete1, Own
<1>1. CASE ParseDeclarations \/ Break \/ Chatter
  <2>1. UNCHANGED workspace
    BY <1>1 DEF ParseDeclarations, Break, Chatter
  <2> QED
    BY <2>1 DEF Layers
<1>2. CASE RenderLayer \/ PublishLayer \/ Register \/ Raise
  <2>1. /\ workspace.registry \subseteq workspace'.registry
        /\ workspace.outputs \subseteq workspace'.outputs
    BY <1>2 DEF RenderLayer, PublishLayer, Register, Raise, GenInv, ModuleTypeOK, Contents
  <2> QED
    BY <2>1 DEF Layers
<1>3. CASE RestorePath
  <2>1. workspace.registry = generator.found.registry
    BY <1>3 DEF RestorePath, GenInv
  <2>2. CASE generator.at = RegistryPath
    <3>1. /\ workspace'.registry = generator.found.registry
          /\ workspace'.outputs = workspace.outputs
      BY <1>3, <2>2 DEF RestorePath, Restored, GenInv, ModuleTypeOK, Contents
    <3> QED
      BY <2>1, <3>1 DEF Layers
  <2>3. CASE generator.at # RegistryPath
    <3>1. /\ workspace'.registry = workspace.registry
          /\ workspace.outputs \ {<<generator.module, generator.at>>}
                \subseteq workspace'.outputs
      BY <1>3, <2>3 DEF RestorePath, Restored, GenInv, ModuleTypeOK, Contents
    <3> QED
      BY <3>1 DEF Layers
  <2> QED
    BY <2>2, <2>3
<1> QED
  BY <1>1, <1>2, <1>3 DEF Generate

(* The plan: a placed module has its prerequisites in earlier rounds.      *)
PlanInv ==
    /\ \A m \in Modules \ pending :
          /\ level[m] < round
          /\ request.requires[m] \cap pending = {}
          /\ \A p \in request.requires[m] : level[p] < level[m]
    /\ stage \notin {"planning", "done"} => pending = {}

(* Who may be alive when: whoever acts, at running and stopping only; and  *)
(* nobody at all where the workspace is built on or judged, nor where      *)
(* nothing went wrong.  The modules not remaining are complete, and those  *)
(* the running one requires are among them.                                *)
Watched == {"running", "stopping", "waiting"}
Silent == ~Running /\ generator.helper # "runs"

CallInv ==
    /\ stage \notin {"running", "stopping"} => Silent
    /\ stage \in {"planning", "before", "bundle", "launch", "validate"} => ~ProcessLeft
    /\ stage \in {"cleanup", "after"} /\ diagnostic = "none" => ~ProcessLeft
    /\ Generated => stage = "done" /\ ~ProcessLeft
    /\ stage \in Watched =>
          /\ generator.module \in remaining
          /\ request.requires[generator.module] \cap remaining = {}
    /\ stage \in Watched \cup {"launch"} => \A n \in Modules \ remaining : Complete1(n)
    /\ stage \in {"planning", "before", "bundle"} => remaining = Modules
    /\ stage \in {"stopping", "waiting"} /\ diagnostic = "none" => generator.state = "exited"

(* What went wrong is known, and a manifest there is only if nothing did.  *)
EvidenceInv ==
    /\ count + Cardinality(remaining) = Cardinality(Modules)
    /\ stage \in {"planning", "before", "bundle", "launch", "running", "validate"} =>
          diagnostic = "none"
    /\ stage \notin {"cleanup", "after", "done"} => manifest = NoManifest
    /\ manifest # NoManifest =>
          /\ manifest.outputs = workspace.outputs
          /\ manifest.registry = workspace.registry
    /\ stage = "validate" => remaining = {}
    /\ stage \in {"cleanup", "after"} =>
          IF diagnostic = "none"
          THEN remaining = {} /\ manifest = [outputs |-> Outputs, registry |-> Modules]
          ELSE manifest = NoManifest
    /\ EvidenceAccepted

RunInv == PlanInv /\ CallInv /\ EvidenceInv

(* The requested modules can be counted.                                   *)
LEMMA FiniteModules ==
    /\ IsFiniteSet(Modules) /\ Cardinality(Modules) \in Nat /\ Cardinality(Modules) > 0
    /\ \A S \in SUBSET Modules : IsFiniteSet(S) /\ Cardinality(S) \in Nat
<1>1. IsFiniteSet(Modules) /\ Modules # {}
  BY ModulesAssumption, SourceAssumption
<1>2. \A S \in SUBSET Modules : IsFiniteSet(S)
  BY <1>1, FS_Subset
<1>3. Cardinality(Modules) # 0
  BY <1>1, FS_EmptySet
<1> QED
  BY <1>1, <1>2, <1>3, FS_CardinalityType

(* It holds when the call begins.                                          *)
LEMMA RunInit == Init => RunInv
<1> SUFFICES ASSUME Init PROVE RunInv
  OBVIOUS
<1>1. PlanInv
  BY DEF Init, PlanInv
<1>2. CallInv
  <2>1. ~Generated
    BY DEF Init, Generated, Runs, NoRun
  <2> QED
    BY <2>1 DEF Init, CallInv, Silent, Watched, ProcessLeft, Running, Alive, NoGenerator
<1>3. EvidenceInv
  BY FiniteModules DEF Init, EvidenceInv, EvidenceAccepted, NoRun
<1> QED
  BY <1>1, <1>2, <1>3 DEF RunInv

(* A round of the plan keeps what the earlier rounds fixed.                *)
LEMMA PlanStep ==
    ASSUME TypeOK, PlanInv, [Next]_vars
    PROVE  PlanInv'
<1> USE DEF PlanInv, vars, planVars, generatorVars, sourceVars, callVars, Ends
<1>1. CASE PlanRound
  <2>1. /\ level \in [Modules -> Nat] /\ round \in Nat /\ pending \subseteq Modules
        /\ \A m \in Modules : request.requires[m] \subseteq Modules
    BY SourceAssumption DEF TypeOK
  <2>2. /\ round' = round + 1 /\ pending' = pending \ Ready
        /\ \A m \in Modules : level'[m] = IF m \in Ready THEN round ELSE level[m]
        /\ UNCHANGED <<request, stage>> /\ stage = "planning"
    BY <1>1 DEF PlanRound
  <2>3. ASSUME NEW m \in Modules \ pending'
        PROVE  /\ level'[m] < round'
               /\ request.requires[m] \cap pending' = {}
               /\ \A p \in request.requires[m] : level'[p] < level'[m]
    <3>1. \A p \in request.requires[m] : p \in Modules \ pending /\ p \notin Ready
      BY <2>1, <2>2, <2>3 DEF Ready
    <3>2. CASE m \in Ready
      BY <2>1, <2>2, <2>3, <3>1, <3>2
    <3>3. CASE m \notin Ready
      BY <2>1, <2>2, <2>3, <3>1, <3>3
    <3> QED
      BY <3>2, <3>3
  <2> QED
    BY <2>2, <2>3
<1>2. CASE RefuseCycle \/ Block \/ Admit
  BY <1>2 DEF RefuseCycle, Block, Admit
<1>3. CASE Reading
  BY <1>3 DEF Reading, BeginBundle, BundleFails, Prepare, PrepareFails, ReadBefore,
              MissFile, CopyTrusted, CopyUnparsable, ReadAfter, BeginAfter
<1>4. CASE Invoking
  BY <1>4 DEF Invoking, Launch, LaunchFails, SeeExit, GiveUp, Kill, Stop, WaitExpires
<1>5. CASE Concluding
  BY <1>5 DEF Concluding, Validate, Cleanup, CleanupFails, Record, BeginAfter
<1>6. CASE GeneratorStep \/ DieAtLast
  BY <1>6 DEF GeneratorStep, DieAtLast
<1>7. ASSUME NEW f \in Files, Edit(f) PROVE PlanInv'
  BY <1>7 DEF Edit
<1>8. CASE UNCHANGED vars
  BY <1>8
<1> QED
  BY <1>1, <1>2, <1>3, <1>4, <1>5, <1>6, <1>7, <1>8 DEF Next, Call, Planning

(* The module the plan has next requires none that remains.                *)
LEMMA NextIsReady ==
    ASSUME TypeOK, PlanInv, stage = "launch", NEW m \in Modules, IsNext(m)
    PROVE  request.requires[m] \cap remaining = {}
<1>1. /\ level \in [Modules -> Nat] /\ request.requires[m] \subseteq Modules
      /\ \A p \in request.requires[m] : level[p] < level[m]
  BY SourceAssumption DEF TypeOK, PlanInv
<1> QED
  BY <1>1 DEF IsNext

(* Who is alive, and what is complete, after every step.                   *)
LEMMA CallStep ==
    ASSUME TypeOK, GenInv, PlanInv, CallInv, EvidenceInv, [Next]_vars
    PROVE  CallInv'
<1> USE DEF CallInv, Watched, vars, planVars, generatorVars, sourceVars, callVars, Ends
<1>0. /\ UNCHANGED workspace => \A n \in Modules : Complete1(n) => Complete1(n)'
      /\ UNCHANGED generator => (ProcessLeft' <=> ProcessLeft) /\ (Silent' <=> Silent)
      /\ UNCHANGED run => (Generated' <=> Generated)
      /\ ~ProcessLeft => Silent
  BY DEF Complete1, Layers, ProcessLeft, Running, Silent, Generated
<1>9. \A why \in {"refused", "blocked", "raised"} : run' = NoRun(why) => ~Generated'
  BY NotARun
<1>1. CASE Planning
  BY <1>0, <1>9, <1>1 DEF Planning, PlanRound, RefuseCycle, Block, Admit
<1>2. CASE Reading
  BY <1>0, <1>9, <1>2 DEF Reading, BeginBundle, BundleFails, Prepare, PrepareFails,
         ReadBefore, MissFile, CopyTrusted, CopyUnparsable, ReadAfter, BeginAfter
<1>3. CASE Invoking
  <2>1. ASSUME NEW m \in Modules, Launch(m) PROVE CallInv'
    <3>1. generator'.module = m /\ UNCHANGED <<request, remaining, workspace>>
      BY <2>1, StartKeeps DEF Launch
    <3>2. m \in remaining /\ request.requires[m] \cap remaining = {}
      BY <2>1, NextIsReady DEF Launch, IsNext
    <3> QED
      BY <1>0, <2>1, <3>1, <3>2 DEF Launch
  <2>2. ASSUME NEW m \in Modules, LaunchFails(m) PROVE CallInv'
    <3>1. m \in remaining /\ request.requires[m] \cap remaining = {}
      BY <2>2, NextIsReady DEF LaunchFails, IsNext
    <3>2. CASE stage' = "cleanup" /\ UNCHANGED generator
      BY <1>0, <2>2, <3>2 DEF LaunchFails
    <3>3. CASE Started(m) /\ stage' = "stopping"
      <4>1. generator'.module = m
        BY <2>2, <3>3, StartKeeps DEF LaunchFails
      <4> QED
        BY <1>0, <2>2, <3>1, <3>3, <4>1 DEF LaunchFails
    <3> QED
      BY <2>2, <3>2, <3>3 DEF LaunchFails
  <2>3. CASE SeeExit
    BY <1>0, <2>3 DEF SeeExit
  <2>4. CASE GiveUp
    BY <1>0, <2>4 DEF GiveUp
  <2>5. CASE Kill
    <3>1. /\ Silent' /\ generator'.module = generator.module
          /\ generator.state = "exited" => generator'.state = "exited"
      BY <2>5, KillKeeps DEF Kill, StopGroup, Silent
    <3> QED
      BY <1>0, <2>5, <3>1 DEF Kill
  <2>6. CASE Stop
    <3>1. /\ UNCHANGED <<workspace, generator, run>>
          /\ remaining' = remaining \ {generator.module}
          /\ stage' \in {"validate", "launch", "cleanup"}
          /\ stage' = "cleanup" => diagnostic' # "none"
      BY <2>6 DEF Stop
    <3>2. ASSUME stage' \in {"launch", "validate"}
          PROVE  Complete1(generator.module) /\ ~ProcessLeft
      <4>1. generator.state = "exited"
        BY <2>6, <3>2 DEF Stop, Diagnostics
      <4> QED
        BY <4>1 DEF GenInv, Complete1, ProcessLeft, Running, Alive
    <3>3. ASSUME stage' = "launch", NEW n \in Modules \ remaining'
          PROVE  Complete1(n)
      BY <2>6, <3>1, <3>2, <3>3 DEF Stop
    <3>4. stage = "waiting" /\ Silent /\ ~Generated
      BY <2>6 DEF Stop
    <3> QED
      BY <1>0, <3>1, <3>2, <3>3, <3>4
  <2>7. CASE WaitExpires
    <3>1. ~Generated'
      BY <2>7, NotARun DEF WaitExpires
    <3> QED
      BY <1>0, <2>7, <3>1 DEF WaitExpires
  <2> QED
    BY <1>3, <2>1, <2>2, <2>3, <2>4, <2>5, <2>6, <2>7 DEF Invoking
<1>4. CASE Concluding
  <2>1. CASE Record
    <3>1. Generated' => diagnostic = "none"
      BY <2>1, NotARun DEF Record, Generated, Evidence, Disposition, EvidenceInv
    <3> QED
      BY <1>0, <2>1, <3>1 DEF Record
  <2> QED
    BY <1>0, <1>4, <2>1 DEF Concluding, Validate, Cleanup, CleanupFails, BeginAfter
<1>5. CASE GeneratorStep
  <2>1. Generate /\ stage \in {"running", "stopping"}
        /\ UNCHANGED <<stage, request, remaining, diagnostic, run>>
    BY <1>5 DEF GeneratorStep
  <2>2. generator'.module = generator.module
    BY <2>1 DEF GenInv, ModuleTypeOK, Generators, Generate, ParseDeclarations,
                RenderLayer, PublishLayer, Register, Raise, RestorePath, Break, Chatter
  <2>3. generator.state # "exited"
    BY <2>1 DEF Generate, ParseDeclarations, RenderLayer, PublishLayer, Register,
                Raise, RestorePath, Break, Chatter, Running, Alive
  <2>4. \A n \in Modules \ remaining : Complete1(n)'
    BY <2>1, OthersUntouched DEF Own
  <2> QED
    BY <1>0, <2>1, <2>2, <2>3, <2>4
<1>6. CASE DieAtLast
  <2>1. /\ UNCHANGED <<workspace, stage, request, remaining, diagnostic, run>>
        /\ generator'.module = generator.module
        /\ Silent => Silent'
        /\ ProcessLeft' => ProcessLeft
        /\ generator.state = "exited" => generator'.state = "exited"
    BY <1>6, DieKeeps DEF DieAtLast, Silent
  <2> QED
    BY <1>0, <2>1
<1>7. ASSUME NEW f \in Files, Edit(f) PROVE CallInv'
  BY <1>0, <1>7 DEF Edit
<1>8. CASE UNCHANGED vars
  BY <1>0, <1>8
<1> QED
  BY <1>1, <1>2, <1>3, <1>4, <1>5, <1>6, <1>7, <1>8 DEF Next, Call

(* What _build refuses never comes about.                                  *)
LEMMA GatheredIsAccepted ==
    ASSUME TypeOK, EvidenceInv, stage = "after"
    PROVE  Buildable(Evidence)
<1> DEFINE full == [outputs |-> Outputs, registry |-> Modules]
<1>1. /\ count \in Nat /\ count <= Cardinality(Modules)
      /\ remaining = {} => count = Cardinality(Modules)
  <2>1. Cardinality(remaining) \in Nat /\ Cardinality({}) = 0
    BY FiniteModules, FS_EmptySet DEF TypeOK
  <2> QED
    BY <2>1, FiniteModules DEF EvidenceInv, TypeOK
<1>2. CASE Changed \/ present
  BY <1>1, <1>2 DEF Buildable, Evidence, Disposition
<1>3. CASE ~Changed /\ ~present
  <2>1. CASE diagnostic = "none"
    <3>1. manifest = full /\ remaining = {} /\ before = after
      BY <1>3, <2>1 DEF EvidenceInv, Changed
    <3>2. /\ Disposition = "GENERATED" /\ Evidence.disposition = Disposition
          /\ Evidence.count = count /\ Evidence.diagnostic = "none"
          /\ Evidence.unchanged /\ Evidence.cleaned /\ Evidence.manifest = full
      BY <1>3, <2>1, <3>1 DEF Evidence, Disposition
    <3> QED
      BY <1>1, <3>1, <3>2, FiniteModules DEF Buildable
  <2>2. CASE diagnostic # "none"
    BY <1>1, <1>3, <2>2 DEF Buildable, Evidence, Disposition, EvidenceInv
  <2> QED
    BY <2>1, <2>2
<1> QED
  BY <1>2, <1>3

(* What is known to have gone wrong, after every step.                     *)
LEMMA EvidenceStep ==
    ASSUME TypeOK, GenInv, CallInv, EvidenceInv, [Next]_vars
    PROVE  EvidenceInv'
<1> USE DEF EvidenceInv, EvidenceAccepted, vars, planVars, generatorVars, sourceVars,
            callVars, Ends
<1>0. /\ NoRun("refused") # NoRun("unbuildable")
      /\ NoRun("blocked") # NoRun("unbuildable")
      /\ NoRun("raised") # NoRun("unbuildable")
  BY DEF NoRun
<1>1. CASE Planning
  BY <1>0, <1>1 DEF Planning, PlanRound, RefuseCycle, Block, Admit
<1>2. CASE Reading
  <2>1. CASE BeginBundle \/ Prepare \/ PrepareFails \/ BundleFails
    BY <2>1 DEF BeginBundle, Prepare, PrepareFails, BundleFails, BeginAfter
  <2>2. ASSUME NEW f \in Files,
               ReadBefore(f) \/ MissFile(f) \/ CopyTrusted(f) \/ CopyUnparsable(f)
                  \/ ReadAfter(f)
        PROVE  EvidenceInv'
    BY <1>0, <2>2 DEF ReadBefore, MissFile, CopyTrusted, CopyUnparsable, ReadAfter
  <2> QED
    BY <1>2, <2>1, <2>2 DEF Reading
<1>3. CASE Invoking
  <2>1. ASSUME NEW m \in Modules, Launch(m) PROVE EvidenceInv'
    BY <2>1 DEF Launch
  <2>2. ASSUME NEW m \in Modules, LaunchFails(m) PROVE EvidenceInv'
    BY <2>2 DEF LaunchFails
  <2>3. CASE SeeExit
    BY <2>3 DEF SeeExit
  <2>4. CASE GiveUp
    BY <2>4 DEF GiveUp
  <2>5. CASE Kill
    BY <2>5 DEF Kill
  <2>6. CASE Stop
    <3>1. generator.module \in remaining /\ remaining \subseteq Modules
      BY <2>6 DEF Stop, CallInv, Watched, TypeOK
    <3>2. /\ IsFiniteSet(remaining) /\ Cardinality(remaining) \in Nat
          /\ Cardinality(remaining \ {generator.module}) = Cardinality(remaining) - 1
      BY <3>1, FiniteModules, FS_RemoveElement
    <3>3. count' + Cardinality(remaining') = Cardinality(Modules)
      BY <2>6, <3>2, FiniteModules DEF Stop, TypeOK
    <3>4. /\ stage' \in {"validate", "launch"} => diagnostic' = "none"
          /\ stage' = "validate" => remaining' = {}
          /\ stage' \in {"validate", "launch", "cleanup"}
          /\ stage' = "cleanup" => diagnostic' # "none"
          /\ manifest = NoManifest /\ UNCHANGED <<manifest, run>>
      BY <2>6 DEF Stop
    <3> QED
      BY <3>3, <3>4
  <2>7. CASE WaitExpires
    BY <1>0, <2>7 DEF WaitExpires
  <2> QED
    BY <1>3, <2>1, <2>2, <2>3, <2>4, <2>5, <2>6, <2>7 DEF Invoking
<1>4. CASE Concluding
  <2>1. CASE Validate
    <3>1. CASE Complete /\ UNCHANGED diagnostic
               /\ manifest' = [outputs |-> workspace.outputs,
                               registry |-> workspace.registry]
      BY <2>1, <3>1 DEF Validate, Complete
    <3>2. CASE diagnostic' = "artifact_validation" /\ UNCHANGED manifest
      BY <2>1, <3>2 DEF Validate
    <3> QED
      BY <2>1, <3>1, <3>2 DEF Validate
  <2>2. CASE Cleanup
    BY <2>2 DEF Cleanup, BeginAfter
  <2>3. CASE CleanupFails
    BY <2>3 DEF CleanupFails, BeginAfter
  <2>4. CASE Record
    <3>1. Buildable(Evidence)
      BY <2>4, GatheredIsAccepted DEF Record
    <3>2. run' # NoRun("unbuildable")
      BY <2>4, <3>1 DEF Record, Evidence, NoRun
    <3> QED
      BY <2>4, <3>2 DEF Record
  <2> QED
    BY <1>4, <2>1, <2>2, <2>3, <2>4 DEF Concluding
<1>5. CASE GeneratorStep
  BY <1>5 DEF GeneratorStep
<1>8. CASE DieAtLast
  BY <1>8, DieKeeps DEF DieAtLast
<1>6. ASSUME NEW f \in Files, Edit(f) PROVE EvidenceInv'
  BY <1>6 DEF Edit
<1>7. CASE UNCHANGED vars
  BY <1>7
<1> QED
  BY <1>1, <1>2, <1>3, <1>4, <1>5, <1>6, <1>7, <1>8 DEF Next, Call

(* The plan, the generators and the evidence agree in every state.         *)
THEOREM RunCorrect == Spec => [](TypeOK /\ GenInv /\ RunInv)
<1>1. (TypeOK /\ GenInv /\ RunInv) /\ [Next]_vars => RunInv'
  BY PlanStep, CallStep, EvidenceStep DEF RunInv
<1> QED
  BY <1>1, RunInit, TypeCorrect, PTL DEF Spec

(* After _run_process, who is left was signalled; where the workspace is   *)
(* built on, judged or was judged good, nobody is left: a generator       *)
(* that ended well has awaited its formatter; and a manifest says what the *)
(* workspace holds (ValidatedAlone).                                       *)
THEOREM NobodyLeft == Spec => []ValidatedAlone
<1>1. RunInv => ValidatedAlone
  BY DEF RunInv, CallInv, EvidenceInv, ValidatedAlone, Silent
<1> QED
  BY <1>1, RunCorrect, PTL

(* Rounds order the generators: a running one has all it requires          *)
(* (PrerequisitesFirst).                                                   *)
THEOREM RoundsOrder == Spec => []PrerequisitesFirst
<1>1. TypeOK /\ GenInv /\ RunInv => PrerequisitesFirst
  <2> SUFFICES ASSUME TypeOK, GenInv, RunInv, Running,
                      NEW p \in request.requires[generator.module]
               PROVE  Complete1(p)
    BY DEF PrerequisitesFirst, Complete1
  <2>1. stage \in Watched
    BY DEF RunInv, CallInv, Silent, Watched
  <2>2. generator.module \in Modules
    BY <2>1 DEF RunInv, CallInv, TypeOK
  <2>3. p \in Modules \ remaining
    BY <2>1, <2>2, SourceAssumption DEF RunInv, CallInv, TypeOK
  <2> QED
    BY <2>1, <2>3 DEF RunInv, CallInv
<1> QED
  BY <1>1, RunCorrect, PTL

(* The evidence of a call is always evidence that may be recorded          *)
(* (EvidenceAccepted).                                                     *)
THEOREM EvidenceRecorded == Spec => []EvidenceAccepted
<1>1. RunInv => EvidenceAccepted
  BY DEF RunInv, EvidenceInv
<1> QED
  BY <1>1, RunCorrect, PTL
=============================================================================
