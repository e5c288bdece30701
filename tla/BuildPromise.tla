---------------------------- MODULE BuildPromise ----------------------------
(***************************************************************************)
(* What the build orchestrator promises whoever asks it for builds of one  *)
(* application: they work on it one at a time, each validates what it      *)
(* leaves as often as it likes, and success is only reported by a build    *)
(* whose last validation passed while the application was its own.         *)
(***************************************************************************)
CONSTANTS Builders, Nobody

VARIABLES
    holder,    \* whose build it is now
    verified,  \* its last validation passed
    verdict    \* what each builder was told last

vars == <<holder, verified, verdict>>

Init == /\ holder = Nobody
        /\ verified = FALSE
        /\ verdict = [b \in Builders |-> "none"]

Ask(b) ==
    /\ holder # b
    /\ verdict' = [verdict EXCEPT ![b] = "none"]
    /\ UNCHANGED <<holder, verified>>

Acquire(b) ==
    /\ holder = Nobody
    /\ holder' = b
    /\ verified' = FALSE
    /\ UNCHANGED verdict

Validate ==
    /\ holder # Nobody
    /\ verified' \in BOOLEAN
    /\ UNCHANGED <<holder, verdict>>

Release(b) ==
    /\ holder = b
    /\ holder' = Nobody
    /\ verified' = FALSE
    /\ \/ UNCHANGED verdict     \* an interruption, or a death that was seen
       \/ verdict' = [verdict EXCEPT ![b] = IF verified THEN "success" ELSE "failure"]
       \/ verdict' = [verdict EXCEPT ![b] = "failure"]

Next == Validate \/ \E b \in Builders : Ask(b) \/ Acquire(b) \/ Release(b)

Spec == Init /\ [][Next]_vars
=============================================================================
