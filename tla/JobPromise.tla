----------------------------- MODULE JobPromise -----------------------------
(***************************************************************************)
(* What the job executor of ArcaCore promises of every job, whoever asks   *)
(* for it to be run and however often: its handler is started at most      *)
(* MaxAttempts times, never twice at once, and never after it succeeded.   *)
(***************************************************************************)
EXTENDS Naturals

CONSTANTS Jobs, MaxAttempts

VARIABLES
    starts,     \* how often the handler of each job was started
    running,    \* the jobs whose handler runs now
    succeeded   \* the jobs reported as done

vars == <<starts, running, succeeded>>

Init == starts = [j \in Jobs |-> 0] /\ running = {} /\ succeeded = {}

Start(j) ==
    /\ j \notin running \cup succeeded
    /\ starts[j] < MaxAttempts
    /\ starts' = [starts EXCEPT ![j] = @ + 1]
    /\ running' = running \cup {j}
    /\ UNCHANGED succeeded

Finish(j) ==
    /\ j \in running
    /\ running' = running \ {j}
    /\ succeeded' \in {succeeded, succeeded \cup {j}}
    /\ UNCHANGED starts

Next == \E j \in Jobs : Start(j) \/ Finish(j)

Spec == Init /\ [][Next]_vars
=============================================================================
