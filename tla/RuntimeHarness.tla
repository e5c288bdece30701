--------------------------- MODULE RuntimeHarness ---------------------------
(***************************************************************************)
(* tools/runtime_harness.py and runtime_child.py: one validation of a      *)
(* generated application.  The surfaces are copied into a disposable       *)
(* workspace if they are the ones the ownership manifest names, a child is *)
(* started but held back until it is contained, asked for its health until *)
(* a deadline, and stopped.  The child is a process of its own.            *)
(*                                                                         *)
(* Contents are generations: disk[s] is the generation a surface was       *)
(* written by, or Edited; a file that is missing counts as an older one.   *)
(***************************************************************************)
EXTENDS Naturals, Sequences

CONSTANTS
    Surfaces,       \* generated paths, as ranks in sort order
    UserFiles,      \* other paths, declared user-owned
    MaxGeneration,  \* bound on the generations of the application
    Traces          \* what the output of a dying child may name

NoTrace == [named |-> {}, hostile |-> FALSE]
Edited == MaxGeneration + 1

ASSUME HarnessAssumption ==
    /\ Surfaces \subseteq Nat
    /\ MaxGeneration \in Nat \ {0}
    /\ Traces \subseteq [named : SUBSET (Surfaces \cup UserFiles), hostile : BOOLEAN]

VARIABLES
    disk,      \* content of each surface
    at,        \* where the call of run() is
    workspace, \* what was copied of each surface, 0 before it is
    phases,    \* results so far, the last one last
    child,     \* the process of the generated application
    trace      \* what its captured output names

harnessVars == <<at, workspace, phases, child, trace>>

Places == {"off", "prepare", "start", "probe", "stop", "reap", "done", "raised"}
Children == {"none", "held", "up", "gone"}
Contents == 1..Edited
Evidence == [named : SUBSET (Surfaces \cup UserFiles), hostile : BOOLEAN]
Phases == {"PREPARE", "IMPORT", "STARTUP", "READINESS", "HEALTH", "DATABASE",
           "API_SMOKE", "GENERATED_TESTS", "MIGRATION", "SHUTDOWN"}
Results == [phase : Phases, success : BOOLEAN, evidence : Evidence]

Passed(p) == [phase |-> p, success |-> TRUE, evidence |-> NoTrace]
Failed(p, e) == [phase |-> p, success |-> FALSE, evidence |-> e]
Succeeded(report) == report # <<>> /\ \A i \in DOMAIN report : report[i].success

Alive == child \in {"held", "up"}

HarnessInit ==
    /\ at = "off"
    /\ workspace = [s \in Surfaces |-> 0]
    /\ phases = <<>>
    /\ child = "none"
    /\ trace = NoTrace
-----------------------------------------------------------------------------
HarnessStart ==
    /\ at \in {"off", "done", "raised"}
    /\ at' = "prepare"
    /\ workspace' = [s \in Surfaces |-> 0]
    /\ phases' = <<>>
    /\ child' = "none"
    /\ trace' = NoTrace

Uncopied == {s \in Surfaces : workspace[s] = 0}
NextSurface == CHOOSE s \in Uncopied : \A r \in Uncopied : s <= r

\* _prepare: the digest is taken of the very bytes that are copied.
CopyUnseen(g) ==  \* mutant: what is there is copied
    /\ at = "prepare"
    /\ Uncopied # {}
    /\ workspace' = [workspace EXCEPT ![NextSurface] = disk[NextSurface]]
    /\ UNCHANGED <<at, phases, child, trace>>
CopySurface(g) ==
    /\ at = "prepare"
    /\ Uncopied # {}
    /\ disk[NextSurface] = g
    /\ workspace' = [workspace EXCEPT ![NextSurface] = g]
    /\ UNCHANGED <<at, phases, child, trace>>

SurfaceDiffers(g) ==
    /\ at = "prepare"
    /\ Uncopied # {}
    /\ disk[NextSurface] # g
    /\ phases' = <<Failed("PREPARE", [named |-> {NextSurface}, hostile |-> FALSE])>>
    /\ at' = "done"
    /\ UNCHANGED <<workspace, child, trace>>

\* the manifest's references do not hold, or the workspace cannot be written
PrepareFails ==
    /\ at = "prepare"
    /\ phases' = <<Failed("PREPARE", NoTrace)>>
    /\ at' = "done"
    /\ UNCHANGED <<workspace, child, trace>>

Prepared ==
    /\ at = "prepare"
    /\ Uncopied = {}
    /\ phases' = <<Passed("PREPARE")>>
    /\ at' = "start"
    /\ UNCHANGED <<workspace, child, trace>>

StopWith(p, e) == phases' = Append(phases, Failed(p, e)) /\ at' = "stop"

(* _start_contained and the ready file: a child that cannot be contained is *)
(* killed at once, one that cannot be released is left to the stop.         *)
Launch ==
    /\ at = "start"
    /\ \/ child' = "held" /\ phases' = Append(phases, Passed("STARTUP")) /\ at' = "probe"
       \/ StopWith("HEALTH", NoTrace) /\ child' \in {"none", "held"}
    /\ UNCHANGED <<workspace, trace>>

\* The child sees the ready file, imports the application and serves; or dies.
ChildRuns ==
    /\ child = "held"
    /\ at = "probe"
    /\ child' = "up"
    /\ UNCHANGED <<at, workspace, phases, trace>>

ChildDies ==
    /\ Alive
    /\ child' = "gone"
    /\ trace' \in IF at = "probe" THEN Traces ELSE {NoTrace}
    /\ UNCHANGED <<at, workspace, phases>>
-----------------------------------------------------------------------------
\* One turn of the loop that ends it; the turns that do not change nothing.
SeeExit ==
    /\ at = "probe"
    /\ child = "gone"
    /\ StopWith("STARTUP", trace)
    /\ trace' = NoTrace
    /\ UNCHANGED <<workspace, child>>

HealthAnswered ==
    /\ at = "probe"
    /\ child = "up"
    /\ \/ /\ phases' = phases \o <<Passed("IMPORT"), Passed("READINESS"), Passed("HEALTH"),
                                   Passed("DATABASE"), Passed("API_SMOKE")>>
          /\ at' = "stop"
       \/ \* 200, but not what the contract asks for
          /\ phases' = phases \o <<Passed("IMPORT"), Passed("READINESS"),
                                   Failed("HEALTH", NoTrace)>>
          /\ at' = "stop"
       \/ \* another status
          StopWith("HEALTH", NoTrace)
    /\ UNCHANGED <<workspace, child, trace>>

DeadlineOfAnswers ==  \* mutant: the deadline is looked at after an answer
    /\ at = "probe"
    /\ child = "up"
    /\ StopWith("READINESS", NoTrace)
    /\ UNCHANGED <<workspace, child, trace>>
DeadlinePasses ==
    /\ at = "probe"
    /\ StopWith("READINESS", NoTrace)
    /\ UNCHANGED <<workspace, child, trace>>

(* The finally block.  _shutdown_tree asks the process group to stop, then *)
(* forces it, waiting for a bounded time after each; a signal that finds no *)
(* group makes it return, and the last wait decides.                       *)
Conclude(results, raises) ==
    /\ phases' = IF results[Len(results)].phase = "SHUTDOWN" THEN results
                 ELSE Append(results, Passed("SHUTDOWN"))
    /\ at' = IF raises THEN "raised" ELSE "done"

AlreadyGone ==
    /\ at = "stop"
    /\ ~Alive
    /\ Conclude(phases, FALSE)
    /\ UNCHANGED <<workspace, child, trace>>

ChildStopped ==
    /\ at \in {"stop", "reap"}
    /\ Alive
    /\ child' = "gone"
    /\ Conclude(phases, FALSE)
    /\ UNCHANGED <<workspace, trace>>

StopUnanswered ==
    /\ at = "stop"
    /\ Alive
    /\ phases' \in {phases, Append(phases, Failed("SHUTDOWN", NoTrace))}
    /\ at' = "reap"
    /\ UNCHANGED <<workspace, child, trace>>

GoneLate ==
    /\ at = "reap"
    /\ ~Alive
    /\ Conclude(phases, FALSE)
    /\ UNCHANGED <<workspace, child, trace>>

\* The workspace of a child that lives on may refuse to be removed.
NotReaped ==
    /\ at = "reap"
    /\ Alive
    /\ \E raises \in BOOLEAN :
           Conclude(Append(phases, Failed("SHUTDOWN", NoTrace)), raises)
    /\ UNCHANGED <<workspace, child, trace>>

\* what run() does itself, and what its child does
HarnessWork(g) ==
    \/ CopySurface(g) \/ SurfaceDiffers(g) \/ PrepareFails \/ Prepared
    \/ Launch \/ SeeExit \/ HealthAnswered \/ DeadlinePasses
    \/ AlreadyGone \/ ChildStopped \/ StopUnanswered \/ GoneLate \/ NotReaped
ChildWork == ChildRuns \/ ChildDies

HarnessTypes ==
    /\ disk \in [Surfaces -> Contents]
    /\ at \in Places
    /\ workspace \in [Surfaces -> Contents \cup {0}]
    /\ child \in Children
    /\ phases \in Seq(Results)
    /\ trace \in Evidence
=============================================================================
