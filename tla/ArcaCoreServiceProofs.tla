----------------------- MODULE ArcaCoreServiceProofs -----------------------
(* Proofs about background jobs behind the SDK: for any clients, requests, *)
(* overlapping calls, attempts and table size.                             *)
EXTENDS ArcaCoreService, TLAPS, FiniteSetTheorems

(* Allowed transitions lead to statuses.                                   *)
LEMMA TransitionEffect ==
    ASSUME JobTypeOK, NEW j \in Known, NEW to \in Statuses,
           NEW n \in 0..MaxAttempts, Transition(j, to, n)
    PROVE  /\ invocation' \in [Known -> Invocations]
           /\ recorded' \in [Known -> Records]
           /\ Known' = Known
           /\ invocation'[j].status = to
           /\ invocation'[j].attempts = n
           /\ invocation'[j].payload = invocation[j].payload
           /\ recorded'[j].status = to
           /\ recorded'[j].attempts = n
           /\ \A i \in Known \ {j} : /\ invocation'[i] = invocation[i]
                                     /\ recorded'[i] = recorded[i]
<1> DEFINE new == [invocation[j] EXCEPT !.status = to, !.attempts = n]
<1>1. invocation[j] \in Invocations
  BY DEF JobTypeOK
<1>2. /\ new \in Invocations
      /\ new.status = to /\ new.attempts = n
      /\ new.payload = invocation[j].payload
  BY <1>1 DEF Invocations
<1>3. invocation' = [invocation EXCEPT ![j] = new]
  BY DEF Transition, JobTypeOK
<1>4. recorded' = [recorded EXCEPT ![j] = [status |-> to, attempts |-> n]]
  BY DEF Transition
<1>5. [status |-> to, attempts |-> n] \in Records
  BY DEF Records
<1> HIDE DEF new
<1>6. /\ invocation' \in [Known -> Invocations]
      /\ invocation'[j] = new
      /\ \A i \in Known \ {j} : invocation'[i] = invocation[i]
  BY <1>2, <1>3 DEF JobTypeOK
<1>7. /\ recorded' \in [Known -> Records]
      /\ recorded'[j] = [status |-> to, attempts |-> n]
      /\ \A i \in Known \ {j} : recorded'[i] = recorded[i]
  BY <1>4, <1>5 DEF JobTypeOK
<1> QED
  BY <1>2, <1>6, <1>7 DEF Known

(* The three things one step of a call can be, seen from its job.          *)
Starts(c, j) ==
    /\ At(c, "loop") /\ At(c, "handler")'
    /\ invocation[j].status \in {"queued", "failed"}
    /\ invocation[j].attempts < MaxAttempts
    /\ invocation'[j].status = "running" /\ recorded'[j].status = "running"
    /\ invocation'[j].attempts = invocation[j].attempts + 1
    /\ recorded'[j].attempts = invocation[j].attempts + 1

Finishes(c, j) ==
    /\ At(c, "handler") /\ ~At(c, "handler")'
    /\ recorded'[j].status \in {"succeeded", "failed"}
    /\ invocation'[j].status = recorded'[j].status
    /\ invocation'[j].attempts = invocation[j].attempts
    /\ recorded'[j].attempts = invocation[j].attempts

MovesOn(c) ==
    /\ ~At(c, "handler") /\ ~At(c, "handler")'
    /\ UNCHANGED <<invocation, recorded>>

Moved(c, j) ==
    /\ call' \in [Callers -> Calls]
    /\ \A d \in Callers \ {c} : call'[d] = call[d]
    /\ \/ At(c, "idle")'
       \/ call'[c].job = j /\ call'[c].raw = call[c].raw

Touches(j) ==
    /\ invocation' \in [Known -> Invocations]
    /\ recorded' \in [Known -> Records]
    /\ Known' = Known
    /\ \A i \in Known \ {j} :
           invocation'[i] = invocation[i] /\ recorded'[i] = recorded[i]

(* A call that is not idle holds a job of the executor's.                  *)
LEMMA CallTyped ==
    ASSUME JobTypeOK, NEW c \in Callers, ~At(c, "idle")
    PROVE  /\ call[c] \in [at : {"loop", "handler", "asleep"}, job : Requests,
                            raw : Payloads, late : BOOLEAN]
           /\ call[c].job \in Known
           /\ invocation[call[c].job] \in Invocations
<1>1. call[c] \in Calls /\ call[c] # idle
  BY DEF JobTypeOK, At, idle
<1>2. call[c].job \in Known
  BY DEF JobTypeOK
<1> QED
  BY <1>1, <1>2 DEF Calls, JobTypeOK

(* A call that goes elsewhere, to sleep or back to its caller.             *)
LEMMA CallGoes ==
    ASSUME JobTypeOK, NEW c \in Callers, ~At(c, "idle"),
           NEW place \in {"loop", "handler", "asleep"}, NEW late \in BOOLEAN,
           call' = [call EXCEPT ![c] = [@ EXCEPT !.at = place, !.late = late]]
    PROVE  Moved(c, call[c].job) /\ At(c, place)'
<1> DEFINE new == [call[c] EXCEPT !.at = place, !.late = late]
<1>1. call[c] \in [at : {"loop", "handler", "asleep"}, job : Requests,
                   raw : Payloads, late : BOOLEAN]
  BY CallTyped
<1>2. /\ new \in Calls
      /\ new.at = place /\ new.job = call[c].job /\ new.raw = call[c].raw
  BY <1>1 DEF Calls
<1>3. call' = [call EXCEPT ![c] = new]
  OBVIOUS
<1> HIDE DEF new
<1>4. /\ call' \in [Callers -> Calls] /\ call'[c] = new
      /\ \A d \in Callers \ {c} : call'[d] = call[d]
  BY <1>2, <1>3 DEF JobTypeOK
<1> QED
  BY <1>2, <1>4 DEF Moved, At

LEMMA CallPlaced ==
    ASSUME JobTypeOK, NEW c \in Callers, ~At(c, "idle"),
           NEW place \in {"loop", "handler", "asleep"}, Goes(c, place)
    PROVE  Moved(c, call[c].job) /\ At(c, place)'
<1>1. call[c] \in [at : {"loop", "handler", "asleep"}, job : Requests,
                   raw : Payloads, late : BOOLEAN]
  BY CallTyped
<1>2. call[c].late \in BOOLEAN
  BY <1>1
<1>3. [call[c] EXCEPT !.at = place]
        = [call[c] EXCEPT !.at = place, !.late = call[c].late]
  BY <1>1
<1>4. call' = [call EXCEPT ![c] = [call[c] EXCEPT !.at = place, !.late = call[c].late]]
  BY <1>3 DEF Goes, JobTypeOK
<1> QED
  BY <1>2, <1>4, CallGoes DEF JobTypeOK

LEMMA CallReturns ==
    ASSUME JobTypeOK, NEW c \in Callers, Returns(c), NEW j
    PROVE  Moved(c, j) /\ At(c, "idle")'
BY DEF JobTypeOK, Returns, Moved, At, Calls, idle

(* Every step a call takes by itself is a start of its job's handler, the  *)
(* end of one, or neither, and touches no other call and no other job.     *)
LEMMA WorkingEffect ==
    ASSUME JobTypeOK, JobAssumption, NEW c \in Callers, Working(c)
    PROVE  LET j == call[c].job
           IN  /\ ~At(c, "idle") /\ j \in Known
               /\ Moved(c, j) /\ Touches(j)
               /\ Starts(c, j) \/ Finishes(c, j) \/ MovesOn(c)
<1> DEFINE j == call[c].job
<1>1. ~At(c, "idle")
  BY DEF Working, Attempt, GiveUp, Succeed, FailRetryable, FailForGood, Wake, At
<1>2. /\ j \in Known /\ call[c].late \in BOOLEAN
      /\ invocation[j] \in Invocations
  BY <1>1, CallTyped
<1>3. invocation[j].attempts \in 0..MaxAttempts
  BY <1>2 DEF Invocations
<1>4. Touches(j) \/ ~UNCHANGED <<invocation, recorded>>
  BY DEF JobTypeOK, Touches, Known
<1> HIDE DEF j
<1>5. CASE Attempt(c)
  <2>1. /\ At(c, "loop") /\ ~Exhausted(j) /\ Goes(c, "handler")
        /\ Transition(j, "running", invocation[j].attempts + 1)
    BY <1>5 DEF Attempt, j
  <2>2. /\ invocation[j].attempts < MaxAttempts
        /\ invocation[j].attempts + 1 \in 0..MaxAttempts
    BY <1>3, <2>1, JobAssumption DEF Exhausted, JobAssumption
  <2>3. invocation[j].status \in {"queued", "failed"}
    BY <2>1 DEF Transition, Allowed
  <2>4. /\ Touches(j)
        /\ invocation'[j].status = "running" /\ recorded'[j].status = "running"
        /\ invocation'[j].attempts = invocation[j].attempts + 1
        /\ recorded'[j].attempts = invocation[j].attempts + 1
    BY <1>2, <2>1, <2>2, TransitionEffect DEF Touches, Statuses
  <2>5. Moved(c, j) /\ At(c, "handler")'
    BY <1>1, <2>1, CallPlaced DEF j
  <2> QED
    BY <1>1, <1>2, <2>1, <2>2, <2>3, <2>4, <2>5 DEF Starts, j
<1>6. CASE GiveUp(c)
  <2>1. At(c, "loop") /\ Returns(c) /\ UNCHANGED <<invocation, recorded>>
    BY <1>6 DEF GiveUp
  <2>2. Moved(c, j) /\ At(c, "idle")'
    BY <2>1, CallReturns
  <2>3. MovesOn(c)
    BY <2>1, <2>2 DEF MovesOn, At
  <2> QED
    BY <1>1, <1>2, <1>4, <2>1, <2>2, <2>3 DEF j
<1>7. CASE Wake(c)
  <2>1. At(c, "asleep") /\ Goes(c, "loop") /\ UNCHANGED <<invocation, recorded>>
    BY <1>7 DEF Wake
  <2>2. Moved(c, j) /\ At(c, "loop")'
    BY <1>1, <2>1, CallPlaced DEF j
  <2>3. MovesOn(c)
    BY <2>1, <2>2 DEF MovesOn, At
  <2> QED
    BY <1>1, <1>2, <1>4, <2>1, <2>2, <2>3 DEF j
<1>8. ASSUME NEW to \in {"succeeded", "failed"},
             At(c, "handler"), Transition(j, to, invocation[j].attempts)
      PROVE  /\ Touches(j)
             /\ invocation'[j].status = to /\ recorded'[j].status = to
             /\ invocation'[j].attempts = invocation[j].attempts
             /\ recorded'[j].attempts = invocation[j].attempts
  BY <1>2, <1>3, <1>8, TransitionEffect DEF Touches, Statuses
<1>9. CASE Succeed(c) \/ FailForGood(c)
  <2>1. /\ At(c, "handler") /\ Returns(c)
        /\ \E to \in {"succeeded", "failed"} : Transition(j, to, invocation[j].attempts)
    BY <1>9 DEF Succeed, FailForGood, j
  <2>2. Moved(c, j) /\ At(c, "idle")'
    BY <2>1, CallReturns
  <2>3. Touches(j) /\ Finishes(c, j)
    BY <1>8, <2>1, <2>2 DEF Finishes, At
  <2> QED
    BY <1>1, <1>2, <2>2, <2>3 DEF j
<1>10. CASE FailRetryable(c)
  <2>1. /\ At(c, "handler") /\ Transition(j, "failed", invocation[j].attempts)
        /\ \/ Returns(c)
           \/ \E late \in {call[c].late, TRUE} :
                 call' = [call EXCEPT ![c].at = "asleep", ![c].late = late]
    BY <1>10 DEF FailRetryable, j
  <2>2. CASE Returns(c)
    <3>1. Moved(c, j) /\ At(c, "idle")'
      BY <2>2, CallReturns
    <3>2. Touches(j) /\ Finishes(c, j)
      BY <1>8, <2>1, <3>1 DEF Finishes, At
    <3> QED
      BY <1>1, <1>2, <3>1, <3>2 DEF j
  <2>3. CASE \E late \in {call[c].late, TRUE} :
                 call' = [call EXCEPT ![c].at = "asleep", ![c].late = late]
    <3>1. PICK late \in BOOLEAN :
              call' = [call EXCEPT ![c].at = "asleep", ![c].late = late]
      BY <1>2, <2>3
    <3>2. call' = [call EXCEPT ![c] = [@ EXCEPT !.at = "asleep", !.late = late]]
      BY <3>1 DEF JobTypeOK
    <3>3. Moved(c, j) /\ At(c, "asleep")'
      BY <1>1, <3>2, CallGoes DEF j
    <3>4. Touches(j) /\ Finishes(c, j)
      BY <1>8, <2>1, <3>3 DEF Finishes, At
    <3> QED
      BY <1>1, <1>2, <3>3, <3>4 DEF j
  <2> QED
    BY <2>1, <2>2, <2>3
<1> QED
  BY <1>5, <1>6, <1>7, <1>9, <1>10 DEF Working
-----------------------------------------------------------------------------
(* While a call works on a job, what the executor recorded is what the     *)
(* invocation says, except that a queued one may be cancelled under it; a  *)
(* handler runs only while the job is running, and only one.               *)
InStep(j) ==
    /\ recorded[j].attempts = invocation[j].attempts
    /\ invocation[j].status \in {recorded[j].status, "cancelled"}

Running(j) ==
    recorded[j].status = "running" /\ invocation[j].status = "running"

IInv ==
    /\ \A c \in Callers : ~At(c, "idle") =>
           call[c].raw = call[c].job.payload /\ InStep(call[c].job)
    /\ \A c \in Callers : At(c, "handler") => Running(call[c].job)
    /\ \A c, d \in Callers : /\ At(c, "handler") /\ At(d, "handler")
                             /\ call[c].job = call[d].job
                             => c = d

(* The steps of a call keep the invariant: a start finds the job not       *)
(* running, so no other call is in its handler.                            *)
LEMMA WorkingKeeps ==
    ASSUME JobTypeOK, JobAssumption, IInv, NEW c \in Callers, Working(c)
    PROVE  JobTypeOK' /\ IInv'
<1>0. PICK j : j = call[c].job
  OBVIOUS
<1>1. /\ ~At(c, "idle") /\ j \in Known
      /\ Moved(c, j) /\ Touches(j)
      /\ Starts(c, j) \/ Finishes(c, j) \/ MovesOn(c)
  BY <1>0, WorkingEffect
<1>2. /\ \A d \in Callers \ {c} : /\ call'[d] = call[d]
                                  /\ \A p \in {"idle", "handler"} : At(d, p)' <=> At(d, p)
      /\ At(c, "idle")' \/ (call'[c].job = j /\ call'[c].raw = call[c].raw)
  BY <1>1 DEF Moved, At
<1>3. \A d \in Callers : ~At(d, "idle") => call[d].job \in Known
  BY DEF JobTypeOK
<1>4. JobTypeOK'
  BY <1>1, <1>2, <1>3 DEF Touches, JobTypeOK, Moved
<1>5. call[c].raw = j.payload /\ InStep(j)
  BY <1>0, <1>1 DEF IInv
<1>6. InStep(j)'
  <2>1. CASE Starts(c, j)
    BY <2>1 DEF Starts, InStep
  <2>2. CASE Finishes(c, j)
    BY <2>2 DEF Finishes, InStep
  <2>3. CASE MovesOn(c)
    BY <1>5, <2>3 DEF MovesOn, InStep
  <2> QED
    BY <1>1, <2>1, <2>2, <2>3
<1>7. \A d \in Callers \ {c} : call[d].job # j /\ ~At(d, "idle") =>
          /\ invocation'[call[d].job] = invocation[call[d].job]
          /\ recorded'[call[d].job] = recorded[call[d].job]
  BY <1>1, <1>3 DEF Touches
<1>8. ASSUME NEW d \in Callers, ~At(d, "idle")'
      PROVE  (call[d].raw = call[d].job.payload /\ InStep(call[d].job))'
  <2>1. CASE d = c
    BY <1>2, <1>5, <1>6, <1>8, <2>1 DEF InStep
  <2>2. CASE d # c /\ call[d].job = j
    BY <1>2, <1>6, <1>8, <2>2 DEF InStep, IInv
  <2>3. CASE d # c /\ call[d].job # j
    BY <1>2, <1>7, <1>8, <2>3 DEF InStep, IInv
  <2> QED
    BY <2>1, <2>2, <2>3
<1>9. CASE Starts(c, j)
  <2>1. \A d \in Callers \ {c} : At(d, "handler") => call[d].job # j
    BY <1>9 DEF Starts, IInv, Running
  <2>2. Running(j)'
    BY <1>9 DEF Starts, Running
  <2>3. call'[c].job = j /\ ~At(c, "idle")'
    BY <1>2, <1>9 DEF Starts, At
  <2>4. \A d \in Callers : At(d, "handler")' => Running(call[d].job)'
    BY <1>2, <1>7, <2>1, <2>2, <2>3 DEF IInv, Running, At
  <2>5. \A d, e \in Callers :
            At(d, "handler")' /\ At(e, "handler")' /\ call'[d].job = call'[e].job
            => d = e
    BY <1>2, <2>1, <2>3 DEF IInv
  <2> QED
    BY <1>4, <1>8, <2>4, <2>5 DEF IInv
<1>10. CASE Finishes(c, j)
  <2>1. \A d \in Callers \ {c} : At(d, "handler") => call[d].job # j
    BY <1>0, <1>10 DEF Finishes, IInv
  <2>2. ~At(c, "handler")'
    BY <1>10 DEF Finishes
  <2>4. \A d \in Callers : At(d, "handler")' => Running(call[d].job)'
    BY <1>2, <1>7, <2>1, <2>2 DEF IInv, Running, At
  <2>5. \A d, e \in Callers :
            At(d, "handler")' /\ At(e, "handler")' /\ call'[d].job = call'[e].job
            => d = e
    BY <1>2, <2>2 DEF IInv
  <2> QED
    BY <1>4, <1>8, <2>4, <2>5 DEF IInv
<1>11. CASE MovesOn(c)
  <2>1. ~At(c, "handler")' /\ invocation' = invocation /\ recorded' = recorded
    BY <1>11 DEF MovesOn
  <2>4. \A d \in Callers : At(d, "handler")' => Running(call[d].job)'
    BY <1>2, <2>1 DEF IInv, Running
  <2>5. \A d, e \in Callers :
            At(d, "handler")' /\ At(e, "handler")' /\ call'[d].job = call'[e].job
            => d = e
    BY <1>2, <2>1 DEF IInv
  <2> QED
    BY <1>4, <1>8, <2>4, <2>5 DEF IInv
<1> QED
  BY <1>1, <1>9, <1>10, <1>11

(* A call begins with an invocation that is as the executor left it.       *)
LEMMA ExecuteKeeps ==
    ASSUME JobTypeOK, IInv, NEW c \in Callers, NEW j \in Requests, Execute(c, j)
    PROVE  JobTypeOK' /\ IInv'
<1> DEFINE new == [at |-> "loop", job |-> j, raw |-> invocation[j].payload,
                   late |-> FALSE]
<1>1. /\ j \in Known /\ Executable(j)
      /\ call' = [call EXCEPT ![c] = new]
      /\ invocation' = invocation /\ recorded' = recorded
  BY DEF Execute
<1>2. invocation[j] \in Invocations
  BY <1>1 DEF JobTypeOK
<1>3. /\ new \in Calls /\ new.at = "loop" /\ new.job = j
      /\ new.raw = j.payload
  BY <1>1, <1>2 DEF Calls, Executable, Invocations
<1>4. InStep(j)
  BY <1>1 DEF InStep, Executable
<1> HIDE DEF new
<1>5. /\ call' \in [Callers -> Calls] /\ call'[c] = new
      /\ \A d \in Callers \ {c} : call'[d] = call[d]
  BY <1>1, <1>3 DEF JobTypeOK
<1>6. JobTypeOK'
  BY <1>1, <1>3, <1>5 DEF JobTypeOK, Known, At
<1>7. IInv'
  BY <1>1, <1>3, <1>4, <1>5 DEF IInv, InStep, Running, At
<1> QED
  BY <1>6, <1>7

(* A new invocation belongs to no call yet.                                *)
LEMMA EnqueueKeeps ==
    ASSUME JobTypeOK, JobAssumption, IInv, NEW j \in Requests, Enqueue(j)
    PROVE  JobTypeOK' /\ IInv' /\ j \in Known'
<1>1. CASE j \in Known
  BY <1>1 DEF Enqueue, Enqueued, JobTypeOK, IInv, InStep, Running, At, Known
<1>2. CASE j \notin Known
  <2>1. /\ [status |-> "queued", attempts |-> 0, payload |-> j.payload] \in Invocations
        /\ [status |-> "queued", attempts |-> 0] \in Records
    BY JobAssumption DEF Invocations, Records, Statuses, JobAssumption
  <2>2. /\ invocation' \in [Known \cup {j} -> Invocations]
        /\ recorded' \in [Known \cup {j} -> Records]
        /\ \A i \in Known : invocation'[i] = invocation[i] /\ recorded'[i] = recorded[i]
        /\ call' = call
    BY <1>2, <2>1 DEF Enqueue, Enqueued, JobTypeOK
  <2>3. Known' = Known \cup {j}
    BY <2>2 DEF Known
  <2>4. JobTypeOK'
    BY <2>2, <2>3 DEF JobTypeOK, At
  <2>5. \A c \in Callers : ~At(c, "idle") => call[c].job \in Known
    BY DEF JobTypeOK
  <2>6. IInv'
    BY <2>2, <2>5 DEF IInv, InStep, Running, At
  <2> QED
    BY <2>3, <2>4, <2>6
<1> QED
  BY <1>1, <1>2

(* Holders may cancel what is queued and write to what nobody works on.    *)
LEMMA HolderKeeps ==
    ASSUME JobTypeOK, JobAssumption, IInv, NEW j \in Requests,
           Cancel(j) \/ EditPayload(j) \/ EditStatus(j)
    PROVE  JobTypeOK' /\ IInv'
<1>1. /\ j \in Known /\ recorded' = recorded /\ call' = call
  BY DEF Cancel, EditPayload, EditStatus
<1>2. invocation[j] \in Invocations
  BY <1>1 DEF JobTypeOK
<1>3. \E new \in Invocations :
          /\ invocation' = [invocation EXCEPT ![j] = new]
          /\ \/ new.status = invocation[j].status /\ new.attempts = invocation[j].attempts
             \/ /\ new.status = "cancelled" /\ new.attempts = invocation[j].attempts
                /\ invocation[j].status = "queued"
             \/ Calling(j) = {}
  <2>1. CASE Cancel(j)
    <3> DEFINE new == [invocation[j] EXCEPT !.status = "cancelled"]
    <3>1. /\ new \in Invocations /\ new.status = "cancelled"
          /\ new.attempts = invocation[j].attempts
      BY <1>2 DEF Invocations, Statuses
    <3>2. invocation[j].status = "queued"
      BY <2>1 DEF Cancel, Allowed
    <3>3. invocation' = [invocation EXCEPT ![j] = new]
      BY <2>1 DEF Cancel, JobTypeOK
    <3> QED
      BY <3>1, <3>2, <3>3
  <2>2. CASE EditPayload(j)
    <3>1. PICK p \in Payloads : invocation' = [invocation EXCEPT ![j].payload = p]
      BY <2>2 DEF EditPayload
    <3> DEFINE new == [invocation[j] EXCEPT !.payload = p]
    <3>2. /\ new \in Invocations /\ new.status = invocation[j].status
          /\ new.attempts = invocation[j].attempts
      BY <1>2 DEF Invocations
    <3>3. invocation' = [invocation EXCEPT ![j] = new]
      BY <3>1 DEF JobTypeOK
    <3> QED
      BY <3>2, <3>3
  <2>3. CASE EditStatus(j)
    <3>1. PICK s \in Statuses, n \in 0..MaxAttempts :
              invocation' = [invocation EXCEPT ![j].status = s, ![j].attempts = n]
      BY <2>3 DEF EditStatus
    <3> DEFINE new == [invocation[j] EXCEPT !.status = s, !.attempts = n]
    <3>2. new \in Invocations
      BY <1>2 DEF Invocations
    <3>3. invocation' = [invocation EXCEPT ![j] = new]
      BY <3>1 DEF JobTypeOK
    <3> QED
      BY <2>3, <3>2, <3>3 DEF EditStatus
  <2> QED
    BY <2>1, <2>2, <2>3
<1>4. PICK new \in Invocations :
          /\ invocation' = [invocation EXCEPT ![j] = new]
          /\ \/ new.status = invocation[j].status /\ new.attempts = invocation[j].attempts
             \/ /\ new.status = "cancelled" /\ new.attempts = invocation[j].attempts
                /\ invocation[j].status = "queued"
             \/ Calling(j) = {}
  BY <1>3
<1>5. /\ invocation' \in [Known -> Invocations] /\ invocation'[j] = new
      /\ \A i \in Known \ {j} : invocation'[i] = invocation[i]
  BY <1>1, <1>4 DEF JobTypeOK
<1>6. Known' = Known
  BY <1>5 DEF Known
<1>7. JobTypeOK'
  BY <1>1, <1>5, <1>6 DEF JobTypeOK, At
<1>8. ASSUME NEW c \in Callers, ~At(c, "idle")
      PROVE  /\ call[c].raw = call[c].job.payload /\ InStep(call[c].job)'
             /\ At(c, "handler") => Running(call[c].job)'
  <2>1. /\ call[c].raw = call[c].job.payload /\ InStep(call[c].job)
        /\ At(c, "handler") => Running(call[c].job)
        /\ call[c].job \in Known
    BY <1>8 DEF IInv, JobTypeOK
  <2>2. CASE call[c].job # j
    BY <1>1, <1>5, <2>1, <2>2 DEF InStep, Running
  <2>3. CASE call[c].job = j
    <3>1. Calling(j) # {}
      BY <1>8, <2>3 DEF Calling
    <3> QED
      BY <1>1, <1>4, <1>5, <2>1, <2>3, <3>1 DEF InStep, Running
  <2> QED
    BY <2>2, <2>3
<1>9. IInv'
  BY <1>1, <1>8 DEF IInv, At
<1> QED
  BY <1>7, <1>9
-----------------------------------------------------------------------------
(* The table of operations grows by one prepared build at a time, and only *)
(* while it has room.                                                      *)
LEMMA TableKeeps ==
    ASSUME ServiceAssumption, IsFiniteSet(operations),
           Cardinality(operations) <= MaxOperations,
           NEW j, ~Full, operations' = operations \cup {j}
    PROVE  IsFiniteSet(operations') /\ Cardinality(operations') <= MaxOperations
<1>1. Cardinality(operations) \in Nat
  BY FS_CardinalityType
<1>2. /\ IsFiniteSet(operations \cup {j})
      /\ Cardinality(operations \cup {j}) <= Cardinality(operations) + 1
  BY <1>1, FS_AddElement
<1>3. Cardinality(operations \cup {j}) \in Nat
  BY <1>2, FS_CardinalityType
<1> QED
  BY <1>1, <1>2, <1>3 DEF Full, ServiceAssumption

Inv == TypeOK /\ IInv /\ IsFiniteSet(operations)

LEMMA InitInv == Init => Inv
<1> SUFFICES ASSUME Init PROVE Inv
  OBVIOUS
<1>1. IsFiniteSet({}) /\ Cardinality({}) = 0
  BY FS_EmptySet
<1>2. JobTypeOK /\ IInv
  BY DEF Init, JobInit, JobTypeOK, IInv, At, idle, Calls, Known
<1>3. operations = {} /\ answer = {}
  BY DEF Init
<1> QED
  BY <1>1, <1>2, <1>3, ServiceAssumption DEF Inv, TypeOK

LEMMA StepInv == Inv /\ [Next]_vars => Inv'
<1> SUFFICES ASSUME Inv, [Next]_vars PROVE Inv'
  OBVIOUS
<1>0. JobTypeOK /\ IInv /\ IsFiniteSet(operations)
  BY DEF Inv, TypeOK
<1>1. ASSUME NEW j \in Requests, PrepareBuild(j) PROVE Inv'
  <2>1. JobTypeOK' /\ IInv' /\ j \in Known'
    BY <1>0, <1>1, JobAssumption, EnqueueKeeps DEF PrepareBuild
  <2>2. Known \subseteq Known'
    <3>1. CASE j \in Known
      BY <1>1, <3>1 DEF PrepareBuild, Enqueue, Enqueued, Known
    <3>2. CASE j \notin Known
      BY <1>1, <3>2 DEF PrepareBuild, Enqueue, Enqueued, Known
    <3> QED
      BY <3>1, <3>2
  <2>3. operations' \subseteq Known'
    BY <1>1, <2>1, <2>2 DEF Inv, TypeOK, PrepareBuild
  <2>4. IsFiniteSet(operations') /\ Cardinality(operations') <= MaxOperations
    BY <1>1, ServiceAssumption, TableKeeps DEF Inv, TypeOK, PrepareBuild
  <2>5. answer' \subseteq [job : Requests, refused : BOOLEAN]
    BY <1>1 DEF PrepareBuild
  <2> QED
    BY <2>1, <2>3, <2>4, <2>5 DEF Inv, TypeOK
<1>2. ASSUME NEW j \in Requests, RefuseBuild(j) PROVE Inv'
  BY <1>2 DEF RefuseBuild, Inv, TypeOK, JobTypeOK, IInv, InStep, Running, At,
              Known, jobVars
<1>3. CASE JobNext /\ UNCHANGED <<operations, answer>>
  <2>1. JobTypeOK' /\ IInv' /\ Known \subseteq Known'
    <3>1. ASSUME NEW j \in Requests, Enqueue(j)
          PROVE  JobTypeOK' /\ IInv' /\ Known \subseteq Known'
      <4>1. CASE j \in Known
        BY <1>0, <3>1, <4>1, JobAssumption, EnqueueKeeps DEF Enqueue, Enqueued, Known
      <4>2. CASE j \notin Known
        BY <1>0, <3>1, <4>2, JobAssumption, EnqueueKeeps DEF Enqueue, Enqueued, Known
      <4> QED
        BY <4>1, <4>2
    <3>2. ASSUME NEW j \in Held, Cancel(j) \/ EditPayload(j) \/ EditStatus(j)
          PROVE  JobTypeOK' /\ IInv' /\ Known \subseteq Known'
      <4>1. j \in Requests
        BY JobAssumption DEF JobAssumption
      <4>2. Known' = Known
        BY <1>0, <3>2 DEF Cancel, EditPayload, EditStatus, Known, JobTypeOK
      <4> QED
        BY <1>0, <3>2, <4>1, <4>2, JobAssumption, HolderKeeps
    <3>3. ASSUME NEW c \in Callers, Working(c)
          PROVE  JobTypeOK' /\ IInv' /\ Known \subseteq Known'
      BY <1>0, <3>3, JobAssumption, WorkingKeeps, WorkingEffect DEF Touches
    <3>4. ASSUME NEW c \in Callers, NEW j \in Requests, Execute(c, j)
          PROVE  JobTypeOK' /\ IInv' /\ Known \subseteq Known'
      BY <1>0, <3>4, ExecuteKeeps DEF Execute, Known
    <3> QED
      BY <1>3, <3>1, <3>2, <3>3, <3>4 DEF JobNext
  <2> QED
    BY <1>3, <2>1 DEF Inv, TypeOK
<1>4. CASE UNCHANGED vars
  BY <1>4 DEF vars, Inv, TypeOK, JobTypeOK, IInv, InStep, Running, At,
              Known, jobVars
<1> QED
  BY <1>1, <1>2, <1>3, <1>4 DEF Next

(* The executor and the service keep their types, and the table its bound. *)
THEOREM ServiceTypes == Spec => []TypeOK
<1>1. Inv => TypeOK
  BY DEF Inv
<1> QED
  BY <1>1, InitInv, StepInv, PTL DEF Spec

(* EnqueuedPayloadOnly: the payload is read and compared once per call and *)
(* given to every attempt.                                                 *)
THEOREM PayloadsAsEnqueued == Spec => []EnqueuedPayloadOnly
<1>1. Inv => EnqueuedPayloadOnly
  BY DEF Inv, IInv, EnqueuedPayloadOnly, At
<1> QED
  BY <1>1, InitInv, StepInv, PTL DEF Spec
-----------------------------------------------------------------------------
\* The refinement mapping, by name.
Started == [j \in Requests |-> IF j \in Known THEN recorded[j].attempts ELSE 0]
InHandler == {call[c].job : c \in {d \in Callers : At(d, "handler")}}
Succeeded == {j \in Known : recorded[j].status = "succeeded"}
Mapped == <<Started, InHandler, Succeeded>>

(* What a call does is a start, a finish or a stutter of the promise.      *)
LEMMA WorkingImplements ==
    ASSUME Inv, NEW c \in Callers, Working(c)
    PROVE  Promise!Next \/ UNCHANGED Mapped
<1>0. JobTypeOK /\ IInv
  BY DEF Inv, TypeOK
<1>a. PICK j : j = call[c].job
  OBVIOUS
<1>1. /\ ~At(c, "idle") /\ j \in Known
      /\ Moved(c, j) /\ Touches(j)
      /\ Starts(c, j) \/ Finishes(c, j) \/ MovesOn(c)
  BY <1>0, <1>a, JobAssumption, WorkingEffect
<1>2. j \in Requests
  BY <1>0, <1>1 DEF JobTypeOK
<1>3. \A d \in Callers \ {c} : call'[d] = call[d] /\ (At(d, "handler")' <=> At(d, "handler"))
  BY <1>1 DEF Moved, At
<1>4. Known' = Known /\ \A i \in Known \ {j} : recorded'[i] = recorded[i]
  BY <1>1 DEF Touches
<1>5. InStep(j)
  BY <1>0, <1>a, <1>1 DEF IInv
<1>6. CASE Starts(c, j)
  <2>1. j \notin InHandler
    BY <1>0, <1>6 DEF InHandler, Starts, IInv, Running
  <2>2. recorded[j].status # "succeeded" /\ recorded[j].attempts < MaxAttempts
    BY <1>5, <1>6 DEF Starts, InStep
  <2>3. Started' = [Started EXCEPT ![j] = @ + 1]
    BY <1>1, <1>2, <1>4, <1>5, <1>6 DEF Started, Starts, InStep
  <2>4. call'[c].job = j /\ At(c, "handler")' /\ ~At(c, "handler")
    BY <1>1, <1>6 DEF Starts, Moved, At
  <2>5. InHandler' = InHandler \cup {j}
    BY <1>3, <2>4 DEF InHandler
  <2>6. Succeeded' = Succeeded
    BY <1>4, <1>6, <2>2 DEF Succeeded, Starts
  <2>7. Started[j] < MaxAttempts /\ j \notin Succeeded
    BY <1>1, <1>2, <2>2 DEF Started, Succeeded
  <2>8. Promise!Start(j)
    BY <2>1, <2>3, <2>5, <2>6, <2>7 DEF Promise!Start, Started, InHandler, Succeeded
  <2> QED
    BY <1>2, <2>8 DEF Promise!Next
<1>7. CASE Finishes(c, j)
  <2>1. recorded[j].status = "running"
    BY <1>0, <1>a, <1>7 DEF Finishes, IInv, Running
  <2>2. j \in InHandler
    BY <1>a, <1>7 DEF InHandler, Finishes
  <2>3. \A d \in Callers \ {c} : At(d, "handler") => call[d].job # j
    BY <1>0, <1>a, <1>7 DEF Finishes, IInv
  <2>4. InHandler' = InHandler \ {j}
    BY <1>a, <1>3, <1>7, <2>3 DEF InHandler, Finishes
  <2>5. Started' = Started
    BY <1>4, <1>5, <1>7 DEF Started, Finishes, InStep
  <2>6. Succeeded' \in {Succeeded, Succeeded \cup {j}}
    <3>1. CASE recorded'[j].status = "succeeded"
      BY <1>1, <1>4, <3>1 DEF Succeeded
    <3>2. CASE recorded'[j].status # "succeeded"
      BY <1>4, <2>1, <3>2 DEF Succeeded
    <3> QED
      BY <3>1, <3>2
  <2>7. Promise!Finish(j)
    BY <2>2, <2>4, <2>5, <2>6 DEF Promise!Finish, Started, InHandler, Succeeded
  <2> QED
    BY <1>2, <2>7 DEF Promise!Next
<1>8. CASE MovesOn(c)
  <2>1. InHandler' = InHandler
    BY <1>3, <1>8 DEF InHandler, MovesOn
  <2>2. Started' = Started /\ Succeeded' = Succeeded
    BY <1>8 DEF Started, Succeeded, Known, MovesOn
  <2> QED
    BY <2>1, <2>2 DEF Mapped
<1> QED
  BY <1>1, <1>6, <1>7, <1>8

(* KeepsPromise: whoever runs the jobs and whatever holders do to them at  *)
(* rest, each is started at most MaxAttempts times, never twice at once    *)
(* and never after it succeeded.                                           *)
THEOREM JobsKeepPromise == Spec => KeepsPromise
<1>1. Init => Promise!Init
  BY DEF Init, JobInit, Promise!Init, Known, At, idle
<1>2. Inv /\ [Next]_vars => [Promise!Next]_(Promise!vars)
  <2> SUFFICES ASSUME Inv, [Next]_vars
               PROVE  Promise!Next \/ UNCHANGED Mapped
    BY DEF Promise!vars, Mapped, Started, InHandler, Succeeded
  <2>1. ASSUME NEW j \in Requests, Enqueue(j) PROVE UNCHANGED Mapped
    <3>1. call' = call
      BY <2>1 DEF Enqueue
    <3>2. CASE j \in Known
      BY <2>1, <3>1, <3>2 DEF Enqueue, Enqueued, Mapped, Started, InHandler,
                              Succeeded, Known, At
    <3>3. CASE j \notin Known
      <4>1. /\ Known' = Known \cup {j}
            /\ \A i \in Known : recorded'[i] = recorded[i]
            /\ recorded'[j] = [status |-> "queued", attempts |-> 0]
        BY <2>1, <3>3 DEF Enqueue, Enqueued, Known
      <4>2. Started' = Started
        BY <3>3, <4>1 DEF Started
      <4>3. Succeeded' = Succeeded
        BY <3>3, <4>1 DEF Succeeded
      <4> QED
        BY <3>1, <4>2, <4>3 DEF Mapped, InHandler, At
    <3> QED
      BY <3>2, <3>3
  <2>2. ASSUME NEW j \in Held, Cancel(j) \/ EditPayload(j) \/ EditStatus(j)
        PROVE  UNCHANGED Mapped
    <3>1. Known' = Known /\ recorded' = recorded /\ call' = call
      BY <2>2 DEF Cancel, EditPayload, EditStatus, Known, Inv, TypeOK, JobTypeOK
    <3> QED
      BY <3>1 DEF Mapped, Started, InHandler, Succeeded, At
  <2>3. ASSUME NEW c \in Callers, NEW j \in Requests, Execute(c, j)
        PROVE  UNCHANGED Mapped
    <3>1. /\ Known' = Known /\ recorded' = recorded
          /\ ~At(c, "handler") /\ ~At(c, "handler")'
          /\ \A d \in Callers \ {c} : call'[d] = call[d]
      BY <2>3 DEF Execute, Known, At, Inv, TypeOK, JobTypeOK
    <3> QED
      BY <3>1 DEF Mapped, Started, InHandler, Succeeded, At
  <2>4. CASE UNCHANGED jobVars
    BY <2>4 DEF jobVars, Mapped, Started, InHandler, Succeeded, Known, At
  <2> QED
    BY <2>1, <2>2, <2>3, <2>4, WorkingImplements
    DEF Next, PrepareBuild, RefuseBuild, JobNext, vars, jobVars
<1> QED
  BY <1>1, <1>2, InitInv, StepInv, PTL DEF Spec, KeepsPromise, Promise!Spec
=============================================================================
