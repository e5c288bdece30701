---------------------------- MODULE JobExecutor ----------------------------
(***************************************************************************)
(* Background jobs (tools/jobs.py): invocations identified by client, key  *)
(* and payload, and calls of execute() that overlap while a handler runs   *)
(* or a retry waits.  The invocation is a mutable object in the hands of   *)
(* its holders; "recorded" is what the executor itself knows of it.        *)
(***************************************************************************)
EXTENDS Naturals, FiniteSets

CONSTANTS
    Clients,        \* principals, each with its tenant
    Payloads,
    Requests,       \* the identities in use: who asks, with which key, for what
    Held,           \* those whose invocation object somebody got hold of
    Callers,        \* calls of execute() that may overlap
    MaxAttempts     \* RetryPolicy.maximum_attempts

ASSUME JobAssumption ==
    /\ \A j \in Requests : j.who \in Clients /\ j.payload \in Payloads
    /\ Held \subseteq Requests
    /\ MaxAttempts \in Nat \ {0}

VARIABLES
    invocation,     \* the JobInvocation of each identity enqueued so far
    recorded,       \* _states: the status and attempts the executor wrote
    call            \* where each call of execute() is

jobVars == <<invocation, recorded, call>>

Statuses == {"queued", "running", "succeeded", "failed", "cancelled"}
Known == DOMAIN invocation

idle == [at |-> "idle"]
At(c, place) == call[c].at = place
Calling(j) == {c \in Callers : ~At(c, "idle") /\ call[c].job = j}

JobInit ==
    /\ invocation = [j \in {} |-> j]
    /\ recorded = [j \in {} |-> j]
    /\ call = [c \in Callers |-> idle]
-----------------------------------------------------------------------------
\* The same request again finds the invocation it made the first time.
Enqueued(j) ==
    IF j \in Known
    THEN UNCHANGED <<invocation, recorded>>
    ELSE /\ invocation' =
               [i \in Known \cup {j} |->
                   IF i = j THEN [status |-> "queued", attempts |-> 0,
                                  payload |-> j.payload]
                   ELSE invocation[i]]
         /\ recorded' =
               [i \in Known \cup {j} |->
                   IF i = j THEN [status |-> "queued", attempts |-> 0]
                   ELSE recorded[i]]

Enqueue(j) == Enqueued(j) /\ UNCHANGED call

\* JobInvocation.transition, and the executor's note of it.
Allowed(from, to) ==
    \/ from = "queued" /\ to \in {"running", "cancelled"}
    \/ from = "running" /\ to \in {"succeeded", "failed"}
    \/ from = "failed" /\ to = "running"

Transition(j, to, attempts) ==
    /\ Allowed(invocation[j].status, to)
    /\ invocation' = [invocation EXCEPT ![j].status = to, ![j].attempts = attempts]
    /\ recorded' = [recorded EXCEPT ![j] = [status |-> to, attempts |-> attempts]]

Goes(c, place) == call' = [call EXCEPT ![c].at = place]
Returns(c) == call' = [call EXCEPT ![c] = idle]

(* The checks of execute(): the object is as the executor left it, it may  *)
(* be run, and it still carries what was enqueued.  The payload is read    *)
(* here once for all attempts.                                             *)
ExecutableAsHeld(j) ==
    /\ invocation[j].status \in {"queued", "failed"}
    /\ invocation[j].payload = j.payload
ExecutableAnyPayload(j) ==
    /\ recorded[j] = [status |-> invocation[j].status,
                      attempts |-> invocation[j].attempts]
    /\ invocation[j].status \in {"queued", "failed"}
Executable(j) ==
    /\ recorded[j] = [status |-> invocation[j].status,
                      attempts |-> invocation[j].attempts]
    /\ invocation[j].status \in {"queued", "failed"}
    /\ invocation[j].payload = j.payload

Execute(c, j) ==
    /\ At(c, "idle")
    /\ j \in Known
    /\ Executable(j)
    /\ call' = [call EXCEPT ![c] = [at |-> "loop", job |-> j,
                                    raw |-> invocation[j].payload, late |-> FALSE]]
    /\ UNCHANGED <<invocation, recorded>>

Exhausted(j) == invocation[j].attempts >= MaxAttempts

\* One turn of the loop: an attempt, a return, or the ValueError of a
\* transition another call has made impossible.
Attempt(c) ==
    LET j == call[c].job IN
    /\ At(c, "loop")
    /\ ~Exhausted(j)
    /\ Transition(j, "running", invocation[j].attempts + 1)
    /\ Goes(c, "handler")

GiveUp(c) ==
    LET j == call[c].job IN
    /\ At(c, "loop")
    /\ Exhausted(j) \/ ~Allowed(invocation[j].status, "running")
    /\ Returns(c)
    /\ UNCHANGED <<invocation, recorded>>

\* The handler returned before the deadline of this call.
Succeed(c) ==
    /\ At(c, "handler")
    /\ ~call[c].late
    /\ Transition(call[c].job, "succeeded", invocation[call[c].job].attempts)
    /\ Returns(c)

(* The handler raised something worth a retry, or it did its work but the  *)
(* deadline had passed: that is a TimeoutError, and every later attempt of *)
(* this call will be late too.                                             *)
FailRetryable(c) ==
    LET j == call[c].job IN
    /\ At(c, "handler")
    /\ Transition(j, "failed", invocation[j].attempts)
    /\ IF Exhausted(j) THEN Returns(c)
       ELSE \E late \in {call[c].late, TRUE} :
                call' = [call EXCEPT ![c].at = "asleep", ![c].late = late]

FailForGood(c) ==
    /\ At(c, "handler")
    /\ Transition(call[c].job, "failed", invocation[call[c].job].attempts)
    /\ Returns(c)

Wake(c) ==
    /\ At(c, "asleep")
    /\ Goes(c, "loop")
    /\ UNCHANGED <<invocation, recorded>>

\* transition() is public, and the executor does not learn of it.
Cancel(j) ==
    /\ j \in Known
    /\ Allowed(invocation[j].status, "cancelled")
    /\ invocation' = [invocation EXCEPT ![j].status = "cancelled"]
    /\ UNCHANGED <<recorded, call>>

\* Holders may write to the object: its payload at any time, its status and
\* attempts while no call works on it.
EditPayload(j) ==
    /\ j \in Known
    /\ \E p \in Payloads :
           invocation' = [invocation EXCEPT ![j].payload = p]
    /\ UNCHANGED <<recorded, call>>

EditStatus(j) ==
    /\ j \in Known
    /\ Calling(j) = {}
    /\ \E s \in Statuses, n \in 0..MaxAttempts :
           invocation' = [invocation EXCEPT ![j].status = s, ![j].attempts = n]
    /\ UNCHANGED <<recorded, call>>

Working(c) ==
    \/ Attempt(c) \/ GiveUp(c)
    \/ Succeed(c) \/ FailRetryable(c) \/ FailForGood(c)
    \/ Wake(c)

JobNext ==
    \/ \E j \in Requests : Enqueue(j)
    \/ \E j \in Held : Cancel(j) \/ EditPayload(j) \/ EditStatus(j)
    \/ \E c \in Callers : Working(c) \/ \E j \in Requests : Execute(c, j)
-----------------------------------------------------------------------------
(* The types of JobInvocation, of the executor's record and of a call.     *)
Invocations == [status : Statuses, attempts : 0..MaxAttempts, payload : Payloads]
Records == [status : Statuses, attempts : 0..MaxAttempts]
Calls == {idle} \cup [at : {"loop", "handler", "asleep"}, job : Requests,
                      raw : Payloads, late : BOOLEAN]
JobTypeOK ==
    /\ Known \subseteq Requests
    /\ invocation \in [Known -> Invocations]
    /\ recorded \in [Known -> Records]
    /\ call \in [Callers -> Calls]
    /\ \A c \in Callers : ~At(c, "idle") => call[c].job \in Known

(* The promise, and how it reads off the executor's own record: who holds  *)
(* the invocation can rewrite its status but not what was really done.     *)
Promise == INSTANCE JobPromise WITH
    Jobs <- Requests,
    starts <- [j \in Requests |-> IF j \in Known THEN recorded[j].attempts ELSE 0],
    running <- {call[c].job : c \in {d \in Callers : At(d, "handler")}},
    succeeded <- {j \in Known : recorded[j].status = "succeeded"}

(* Every handler is given exactly what was enqueued under its identity,    *)
(* whatever the holders did to the invocation before or between attempts.  *)
EnqueuedPayloadOnly ==
    \A c \in Callers : At(c, "handler") => call[c].raw = call[c].job.payload

=============================================================================
