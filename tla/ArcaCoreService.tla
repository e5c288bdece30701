-------------------------- MODULE ArcaCoreService --------------------------
(***************************************************************************)
(* The SDK service in front of the job executor (tools/sdk.py): it prepares*)
(* builds as jobs and keeps a bounded table of its operations.  Workers and*)
(* trusted code use the same executor directly.  Reading an operation's    *)
(* status changes nothing and is left out.                                 *)
(***************************************************************************)
EXTENDS JobExecutor

CONSTANT MaxOperations      \* maximum_operations

ASSUME ServiceAssumption == MaxOperations \in Nat \ {0}

VARIABLES
    operations,     \* the operations table: the identities of prepared builds
    answer          \* the latest response to a build request, none at first

vars == <<jobVars, operations, answer>>

Init == JobInit /\ operations = {} /\ answer = {}

Full == Cardinality(operations) >= MaxOperations

PrepareBuild(j) ==
    /\ ~Full
    /\ Enqueue(j)
    /\ operations' = operations \cup {j}
    /\ answer' = {[job |-> j, refused |-> FALSE]}

RefuseBuild(j) ==
    /\ Full
    /\ answer' = {[job |-> j, refused |-> TRUE]}
    /\ UNCHANGED <<jobVars, operations>>

Next ==
    \/ \E j \in Requests : PrepareBuild(j) \/ RefuseBuild(j)
    \/ JobNext /\ UNCHANGED <<operations, answer>>

\* A call goes on by itself, and handlers and sleeps come to an end.
Fairness == \A c \in Callers : WF_vars(Working(c) /\ UNCHANGED <<operations, answer>>)

Spec == Init /\ [][Next]_vars /\ Fairness
-----------------------------------------------------------------------------
(* The types of the job executor, and of the operations table and answers. *)
TypeOK ==
    /\ JobTypeOK
    /\ operations \subseteq Known
    /\ Cardinality(operations) <= MaxOperations
    /\ answer \subseteq [job : Requests, refused : BOOLEAN]

(* The handler of a job is started a bounded number of times, never twice  *)
(* at once and never after it succeeded: the service implements the promise*)
(* of the jobs, through every overlap of calls and edit at rest.           *)
KeepsPromise == Promise!Spec
=============================================================================
