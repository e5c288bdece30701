---------------------- MODULE IdeaClarificationProofs ----------------------
(* Proofs about the IDEA stage: for any requirements, values, assumptions  *)
(* and number of answers.                                                  *)
EXTENDS IdeaClarification, TLAPS

(* The shape of an answer.                                                 *)
Wellformed(a) ==
    /\ a.requirement \in Requirements
    /\ a.action \in Actions
    /\ a.proposed \in SUBSET Values
    /\ a.assumption \in SUBSET Assumptions

(* Every answer a user can give is about a requirement of the intake and   *)
(* holds values and assumptions of the session.                            *)
LEMMA AnswerShape ==
    ASSUME NEW r \in Requirements, NEW a \in Answers(r)
    PROVE  Wellformed(a)
BY IdeaAssumption DEF Answers, Forms, Actions, Wellformed

(* Whoever answers against the current intake has seen what it holds.      *)
LEMMA CurrentSeen ==
    ASSUME NEW a, Current(a)
    PROVE  Seen(a) = values[a.requirement]
BY DEF Current, Seen

(* A recorded entry is a history entry.                                    *)
LEMMA RecordTyped ==
    ASSUME TypeOK, NEW a, Wellformed(a), Current(a),
           NEW outcome \in {"accepted", "conflict"}, Record(a, outcome)
    PROVE  /\ history' \in Seq(Entries)
           /\ Len(history') = Len(history) + 1
           /\ Len(history') <= MaxHistory
           /\ \A i \in 1..Len(history) : history'[i] = history[i]
           /\ history'[Len(history')].requirement = a.requirement
           /\ history'[Len(history')].action = a.action
           /\ history'[Len(history')].assumption = a.assumption
           /\ history'[Len(history')].before = values
           /\ history'[Len(history')].seen = values[a.requirement]
           /\ outcome = "accepted" => history'[Len(history')].accepted = a.proposed
<1> DEFINE e == [requirement |-> a.requirement, action |-> a.action,
                 assumption |-> a.assumption, outcome |-> outcome,
                 before |-> values, seen |-> Seen(a),
                 accepted |-> IF outcome = "accepted" THEN a.proposed ELSE {},
                 rejected |-> IF outcome = "conflict" THEN a.proposed ELSE {}]
<1>1. history' = Append(history, e)
  BY DEF Record
<1>2. Seen(a) = values[a.requirement]
  BY CurrentSeen
<1>3. e \in Entries
  BY <1>2 DEF Entries, TypeOK, Wellformed
<1>4. /\ e.requirement = a.requirement
      /\ e.action = a.action
      /\ e.assumption = a.assumption
      /\ e.before = values
      /\ e.seen = values[a.requirement]
      /\ outcome = "accepted" => e.accepted = a.proposed
  BY <1>2
<1> HIDE DEF e
<1> QED
  BY <1>1, <1>3, <1>4, IdeaAssumption DEF TypeOK, Current

(* What a settled answer does to the intake.                               *)
LEMMA Settled ==
    ASSUME TypeOK, NEW a, Wellformed(a), Settle(a)
    PROVE  /\ values' \in [Requirements -> SUBSET Values]
           /\ derived' \in [Requirements -> SUBSET Values]
           /\ values'[a.requirement] = a.proposed
           /\ \A r \in Requirements \ {a.requirement} : values'[r] = values[r]
           /\ open' = open \ {a.requirement}
BY DEF TypeOK, Wellformed, Settle
-----------------------------------------------------------------------------
(* TypeOK: the session keeps its types and the history its bound.          *)
LEMMA TypesKept == TypeOK /\ [Next]_vars => TypeOK'
<1> SUFFICES ASSUME TypeOK, [Next]_vars PROVE TypeOK'
  OBVIOUS
<1>1. ASSUME NEW r \in Requirements, NEW a \in Answers(r), Resolve(a)
      PROVE  TypeOK'
  <2>0. Wellformed(a)
    BY AnswerShape
  <2>1. CASE RejectAssumption(a)
    <3>1. Record(a, "accepted") /\ Current(a)
      BY <2>1 DEF RejectAssumption
    <3>2. history' \in Seq(Entries) /\ Len(history') <= MaxHistory
      BY <2>0, <3>1, RecordTyped
    <3> QED
      BY <2>1, <3>2 DEF RejectAssumption, TypeOK
  <2>2. CASE AdoptAssumption(a)
    <3>1. Record(a, "accepted") /\ Current(a) /\ Settle(a)
      BY <2>2 DEF AdoptAssumption
    <3>2. history' \in Seq(Entries) /\ Len(history') <= MaxHistory
      BY <2>0, <3>1, RecordTyped
    <3> QED
      BY <2>0, <2>2, <3>1, <3>2, Settled DEF AdoptAssumption, TypeOK
  <2>3. CASE RefineExplicit(a)
    <3>1. Record(a, "accepted") /\ Current(a) /\ Settle(a)
      BY <2>3 DEF RefineExplicit
    <3>2. history' \in Seq(Entries) /\ Len(history') <= MaxHistory
      BY <2>0, <3>1, RecordTyped
    <3> QED
      BY <2>0, <2>3, <3>1, <3>2, Settled DEF RefineExplicit, TypeOK
  <2>4. CASE ReplaceExplicit(a)
    <3>1. Record(a, "accepted") /\ Current(a) /\ Settle(a)
      BY <2>4 DEF ReplaceExplicit
    <3>2. history' \in Seq(Entries) /\ Len(history') <= MaxHistory
      BY <2>0, <3>1, RecordTyped
    <3> QED
      BY <2>0, <2>4, <3>1, <3>2, Settled DEF ReplaceExplicit, TypeOK
  <2>5. CASE RaiseConflict(a)
    <3>1. Record(a, "conflict") /\ Current(a)
      BY <2>5 DEF RaiseConflict, Plain
    <3>2. history' \in Seq(Entries) /\ Len(history') <= MaxHistory
      BY <2>0, <3>1, RecordTyped
    <3>3. [requirement |-> a.requirement, existing |-> values[a.requirement],
           proposed |-> a.proposed] \in Conflicts
      BY <2>0 DEF Conflicts, TypeOK, Wellformed
    <3>4. conflicts' \subseteq Conflicts
      BY <2>5, <3>3 DEF RaiseConflict, TypeOK
    <3> QED
      BY <2>0, <2>5, <3>2, <3>4 DEF RaiseConflict, TypeOK, Wellformed
  <2>6. CASE AcceptAnswer(a)
    <3>1. Record(a, "accepted") /\ Current(a) /\ Settle(a)
      BY <2>6 DEF AcceptAnswer, Plain
    <3>2. history' \in Seq(Entries) /\ Len(history') <= MaxHistory
      BY <2>0, <3>1, RecordTyped
    <3> QED
      BY <2>0, <2>6, <3>1, <3>2, Settled DEF AcceptAnswer, TypeOK
  <2> QED
    BY <1>1, <2>1, <2>2, <2>3, <2>4, <2>5, <2>6 DEF Resolve
<1>2. CASE UNCHANGED session
  BY <1>2 DEF TypeOK, session, intake
<1> QED
  BY <1>1, <1>2 DEF Next, Submit, ToProject, Handoff, vars

(* The session keeps its types, whoever answers what.                      *)
THEOREM SessionTypes == Spec => []TypeOK
<1>1. Init => TypeOK
  <2> SUFFICES ASSUME Init PROVE TypeOK
    OBVIOUS
  <2>0. \A r \in Requirements : Choices[r] \subseteq SUBSET Values
    BY IdeaAssumption
  <2>1. \A r \in Requirements : values[r] \in SUBSET Values
    BY <2>0 DEF Init
  <2>2. values \in [Requirements -> SUBSET Values]
    BY <2>1 DEF Init
  <2>3. derived \in [Requirements -> SUBSET Values]
    BY <2>1 DEF Init
  <2>4. MaxHistory \in Nat
    BY IdeaAssumption
  <2> QED
    BY <2>2, <2>3, <2>4 DEF Init, TypeOK
<1> QED
  BY <1>1, TypesKept, PTL DEF Spec
-----------------------------------------------------------------------------
(* What any accepted or contradicting answer may do: it is recorded, it    *)
(* touches one requirement only, it leaves that one's question open or     *)
(* sets it to what was accepted, it replaces what stands only when it is   *)
(* not a plain answer, and it settles no assumption it does not name.      *)
LEMMA ResolveEffect ==
    ASSUME TypeOK, NEW a, Wellformed(a), Resolve(a)
    PROVE  /\ Current(a)
           /\ \E outcome \in {"accepted", "conflict"} :
                 /\ Record(a, outcome)
                 /\ \/ a.requirement \in open'
                    \/ outcome = "accepted" /\ values'[a.requirement] = a.proposed
           /\ \A r \in Requirements \ {a.requirement} :
                 values'[r] = values[r] /\ (r \in open => r \in open')
           /\ \/ values'[a.requirement] = values[a.requirement]
              \/ values[a.requirement] = {}
              \/ a.action # "answer"
           /\ assumptions \ assumptions' \subseteq a.assumption
           /\ UNCHANGED <<initial, handoff>>
<1>0. UNCHANGED <<initial, handoff>>
  BY DEF Resolve
<1>1. CASE RejectAssumption(a)
  <2>1. Current(a) /\ Record(a, "accepted") /\ a.requirement \in open'
    BY <1>1 DEF RejectAssumption, NamesAssumption
  <2>2. \A r \in Requirements \ {a.requirement} :
            values'[r] = values[r] /\ (r \in open => r \in open')
    BY <1>1 DEF RejectAssumption, TypeOK
  <2>3. a.action # "answer" /\ assumptions \ assumptions' \subseteq a.assumption
    BY <1>1 DEF RejectAssumption
  <2> QED
    BY <1>0, <2>1, <2>2, <2>3
<1>2. CASE AdoptAssumption(a)
  <2>1. Current(a) /\ Record(a, "accepted") /\ Settle(a)
    BY <1>2 DEF AdoptAssumption
  <2>2. a.action # "answer" /\ assumptions \ assumptions' \subseteq a.assumption
    BY <1>2 DEF AdoptAssumption
  <2> QED
    BY <1>0, <2>1, <2>2, Settled
<1>3. CASE RefineExplicit(a)
  <2>1. Current(a) /\ Record(a, "accepted") /\ Settle(a)
    BY <1>3 DEF RefineExplicit
  <2>2. a.action # "answer" /\ assumptions' = assumptions
    BY <1>3 DEF RefineExplicit
  <2> QED
    BY <1>0, <2>1, <2>2, Settled
<1>4. CASE ReplaceExplicit(a)
  <2>1. Current(a) /\ Record(a, "accepted") /\ Settle(a)
    BY <1>4 DEF ReplaceExplicit
  <2>2. a.action # "answer" /\ assumptions' = assumptions
    BY <1>4 DEF ReplaceExplicit
  <2> QED
    BY <1>0, <2>1, <2>2, Settled
<1>5. CASE RaiseConflict(a)
  <2>1. Current(a) /\ Record(a, "conflict") /\ a.requirement \in open'
    BY <1>5 DEF RaiseConflict, Plain
  <2>2. values' = values /\ assumptions' = assumptions /\ open \subseteq open'
    BY <1>5 DEF RaiseConflict
  <2> QED
    BY <1>0, <2>1, <2>2
<1>6. CASE AcceptAnswer(a)
  <2>1. Current(a) /\ Record(a, "accepted") /\ Settle(a)
    BY <1>6 DEF AcceptAnswer, Plain
  <2>2. values[a.requirement] \in {{}, a.proposed} /\ assumptions' = assumptions
    BY <1>6 DEF AcceptAnswer
  <2> QED
    BY <1>0, <2>1, <2>2, Settled
<1> QED
  BY <1>1, <1>2, <1>3, <1>4, <1>5, <1>6 DEF Resolve

(* What a submitted answer leaves behind, without the cases: the history   *)
(* has one more entry, about the answer's requirement, and the rest of the *)
(* effect is read off that entry.                                          *)
LEMMA SubmitEffect ==
    ASSUME TypeOK, Submit
    PROVE  LET n == Len(history) + 1
               e == history'[n]
           IN  /\ history' \in Seq(Entries)
               /\ Len(history') = n
               /\ \A i \in 1..Len(history) : history'[i] = history[i]
               /\ e.requirement \in Requirements
               /\ e.before = values
               /\ e.seen = values[e.requirement]
               /\ \/ e.requirement \in open'
                  \/ values'[e.requirement] = e.accepted
               /\ \A r \in Requirements \ {e.requirement} :
                     values'[r] = values[r] /\ (r \in open => r \in open')
               /\ \/ values'[e.requirement] = values[e.requirement]
                  \/ values[e.requirement] = {}
                  \/ e.action # "answer"
               /\ assumptions \ assumptions' \subseteq e.assumption
               /\ UNCHANGED <<initial, handoff>>
<1>0. PICK r \in Requirements : \E a \in Answers(r) : Resolve(a)
  BY DEF Submit
<1>1. PICK a \in Answers(r) : Resolve(a)
  BY <1>0
<1>2. Wellformed(a)
  BY AnswerShape
<1>3. Current(a)
  BY <1>1, <1>2, ResolveEffect
<1>4. PICK outcome \in {"accepted", "conflict"} :
          /\ Record(a, outcome)
          /\ \/ a.requirement \in open'
             \/ outcome = "accepted" /\ values'[a.requirement] = a.proposed
  BY <1>1, <1>2, ResolveEffect
<1> DEFINE n == Len(history) + 1
           e == history'[n]
<1>5. /\ history' \in Seq(Entries)
      /\ Len(history') = n
      /\ \A i \in 1..Len(history) : history'[i] = history[i]
      /\ e.requirement = a.requirement
      /\ e.action = a.action
      /\ e.assumption = a.assumption
      /\ e.before = values
      /\ e.seen = values[a.requirement]
      /\ outcome = "accepted" => e.accepted = a.proposed
  BY <1>2, <1>3, <1>4, RecordTyped
<1>6. e.requirement \in Requirements
  BY <1>2, <1>5 DEF Wellformed
<1>7. \/ e.requirement \in open'
      \/ values'[e.requirement] = e.accepted
  BY <1>4, <1>5
<1>8. /\ \A q \in Requirements \ {a.requirement} :
            values'[q] = values[q] /\ (q \in open => q \in open')
      /\ \/ values'[a.requirement] = values[a.requirement]
         \/ values[a.requirement] = {}
         \/ a.action # "answer"
      /\ assumptions \ assumptions' \subseteq a.assumption
      /\ UNCHANGED <<initial, handoff>>
  BY <1>1, <1>2, ResolveEffect
<1> HIDE DEF e
<1> QED
  BY <1>5, <1>6, <1>7, <1>8 DEF e

(* AnsweredAsSeen is inductive together with the types: the identity check *)
(* of resolve() is what makes the new entry as seen as the old ones.       *)
THEOREM NobodyAnswersStale == Spec => []AnsweredAsSeen
<1>1. Init => AnsweredAsSeen
  BY DEF Init, AnsweredAsSeen
<1>2. TypeOK /\ AnsweredAsSeen /\ [Next]_vars => AnsweredAsSeen'
  <2> SUFFICES ASSUME TypeOK, AnsweredAsSeen, [Next]_vars PROVE AnsweredAsSeen'
    OBVIOUS
  <2>1. CASE Submit
    <3>1. /\ history' \in Seq(Entries)
          /\ Len(history') = Len(history) + 1
          /\ \A i \in 1..Len(history) : history'[i] = history[i]
          /\ history'[Len(history) + 1].before = values
          /\ history'[Len(history) + 1].seen
                = values[history'[Len(history) + 1].requirement]
      BY <2>1, SubmitEffect
    <3>2. SUFFICES ASSUME NEW i \in 1..(Len(history) + 1)
                   PROVE  history'[i].before[history'[i].requirement]
                            = history'[i].seen
      BY <3>1 DEF AnsweredAsSeen
    <3>3. CASE i = Len(history) + 1
      BY <3>1, <3>3
    <3>4. CASE i # Len(history) + 1
      BY <3>1, <3>4 DEF AnsweredAsSeen, TypeOK
    <3> QED
      BY <3>3, <3>4
  <2>2. CASE UNCHANGED session
    BY <2>2 DEF AnsweredAsSeen, session
  <2> QED
    BY <2>1, <2>2 DEF Next, ToProject, Handoff, vars
<1> QED
  BY <1>1, <1>2, SessionTypes, PTL DEF Spec

(* ReplacedOnPurpose: no step changes a standing value but one that        *)
(* records an answer, other than a plain one, about that very value.       *)
THEOREM NoSilentReplacement == Spec => ReplacedOnPurpose
<1>1. ASSUME TypeOK, [Next]_vars
      PROVE  [\A r \in Requirements :
                  values[r] # {} /\ values'[r] # values[r] =>
                      /\ Len(history') = Len(history) + 1
                      /\ history'[Len(history')].requirement = r
                      /\ history'[Len(history')].action # "answer"
                      /\ history'[Len(history')].seen = values[r]]_vars
  <2>1. CASE Submit
    <3> SUFFICES ASSUME NEW r \in Requirements, values[r] # {},
                        values'[r] # values[r]
                 PROVE  /\ Len(history') = Len(history) + 1
                        /\ history'[Len(history')].requirement = r
                        /\ history'[Len(history')].action # "answer"
                        /\ history'[Len(history')].seen = values[r]
      OBVIOUS
    <3> QED
      BY <1>1, <2>1, SubmitEffect
  <2>2. CASE UNCHANGED session
    BY <2>2 DEF session, intake
  <2> QED
    BY <1>1, <2>1, <2>2 DEF Next, ToProject, Handoff, vars
<1> QED
  BY <1>1, SessionTypes, PTL DEF Spec, ReplacedOnPurpose
-----------------------------------------------------------------------------
(* The invariant behind HandedOnAgreed.  While a question is open anything *)
(* may stand; once it is closed the value is the one last accepted, and an *)
(* assumption is gone only when an answer named it.                        *)
AgreedSoFar ==
    /\ \A r \in Requirements : r \in open \/ Agreed(r, Len(history), values[r])
    /\ \A x \in initial.assumptions :
           \/ x \in assumptions
           \/ \E i \in 1..Len(history) : x \in history[i].assumption
    /\ \A h \in handoff : h.answers \in 0..Len(history)

(* What was agreed by the first n answers is not changed by later ones.    *)
LEMMA AgreedPrefix ==
    ASSUME initial' = initial, NEW n \in Nat,
           \A i \in 1..n : history'[i] = history[i],
           NEW r, NEW v, Agreed(r, n, v)
    PROVE  Agreed(r, n, v)'
<1>1. About(r, n)' = About(r, n)
  BY DEF About
<1>2. \A i \in About(r, n) : history'[i] = history[i]
  BY DEF About
<1> QED
  BY <1>1, <1>2 DEF Agreed

(* The new entry is the latest about its requirement, and only about its   *)
(* own.                                                                    *)
LEMMA AgreedNext ==
    ASSUME TypeOK, Submit, NEW r \in Requirements,
           r \in open \/ Agreed(r, Len(history), values[r])
    PROVE  (r \in open \/ Agreed(r, Len(history), values[r]))'
<1>a. Len(history) + 1 \in Nat
  BY DEF TypeOK
<1>b. PICK n \in Nat : n = Len(history) + 1
  BY <1>a
<1> DEFINE e == history'[n]
<1>0. Len(history) \in Nat
  BY DEF TypeOK
<1>1. /\ Len(history') = n
      /\ \A i \in 1..Len(history) : history'[i] = history[i]
      /\ e.requirement \in Requirements
      /\ e.requirement \in open' \/ values'[e.requirement] = e.accepted
      /\ \A q \in Requirements \ {e.requirement} :
            values'[q] = values[q] /\ (q \in open => q \in open')
      /\ initial' = initial
  BY <1>b, SubmitEffect
<1>2. CASE e.requirement = r /\ r \notin open'
  <2>1. values'[r] = history'[n].accepted
    BY <1>1, <1>2
  <2>2. n \in About(r, n)' /\ \A j \in About(r, n)' : j <= n
    BY <1>0, <1>b, <1>2 DEF About
  <2>3. Agreed(r, n, values[r])'
    BY <2>1, <2>2 DEF Agreed
  <2> QED
    BY <1>1, <2>3
<1>3. CASE e.requirement # r /\ r \notin open'
  <2>1. values'[r] = values[r] /\ Agreed(r, Len(history), values[r])
    BY <1>1, <1>3
  <2>2. About(r, n)' = About(r, Len(history))
    BY <1>0, <1>b, <1>1, <1>3 DEF About
  <2>3. \A i \in About(r, Len(history)) : history'[i] = history[i]
    BY <1>1 DEF About
  <2>4. Agreed(r, n, values[r])'
    BY <1>1, <2>1, <2>2, <2>3 DEF Agreed
  <2> QED
    BY <1>1, <2>4
<1> QED
  BY <1>2, <1>3

LEMMA AgreedSoFarKept ==
    TypeOK /\ AgreedSoFar /\ [Next]_vars => AgreedSoFar'
<1> SUFFICES ASSUME TypeOK, AgreedSoFar, [Next]_vars PROVE AgreedSoFar'
  OBVIOUS
<1>0. Len(history) \in Nat
  BY DEF TypeOK
<1>1. CASE Submit
  <2>1. /\ Len(history') = Len(history) + 1
        /\ \A i \in 1..Len(history) : history'[i] = history[i]
        /\ assumptions \ assumptions' \subseteq history'[Len(history) + 1].assumption
        /\ initial' = initial /\ handoff' = handoff
    BY <1>1, SubmitEffect
  <2>2. \A r \in Requirements : (r \in open \/ Agreed(r, Len(history), values[r]))'
    BY <1>1, AgreedNext DEF AgreedSoFar
  <2>3. ASSUME NEW x \in initial.assumptions, x \notin assumptions'
        PROVE  \E i \in 1..(Len(history) + 1) : x \in history'[i].assumption
    BY <1>0, <2>1, <2>3 DEF AgreedSoFar
  <2>4. \A h \in handoff' : h.answers \in 0..Len(history')
    BY <1>0, <2>1 DEF AgreedSoFar
  <2> QED
    BY <2>1, <2>2, <2>3, <2>4 DEF AgreedSoFar
<1>2. CASE ToProject \/ UNCHANGED vars
  BY <1>2 DEF AgreedSoFar, Agreed, About, ToProject, vars, session, intake
<1>3. CASE Handoff
  BY <1>0, <1>3 DEF AgreedSoFar, Agreed, About, Handoff, session, intake
<1> QED
  BY <1>1, <1>2, <1>3 DEF Next

(* HandedOnAgreed: what goes on to PLAN is, requirement by requirement,    *)
(* what the user last accepted or had said from the start, and every       *)
(* assumption was named by an answer.                                      *)
THEOREM OnlyAgreedIdeasGoOn == Spec => []HandedOnAgreed
<1>1. Init => AgreedSoFar /\ HandedOnAgreed
  BY DEF Init, AgreedSoFar, HandedOnAgreed, Agreed, About
<1>2. TypeOK /\ AgreedSoFar /\ HandedOnAgreed /\ [Next]_vars => HandedOnAgreed'
  <2> SUFFICES ASSUME TypeOK, AgreedSoFar, HandedOnAgreed, [Next]_vars,
                      NEW h \in handoff', h.decision = "transitioned"
               PROVE  /\ \A r \in Requirements : Agreed(r, h.answers, h.idea[r])'
                      /\ \A x \in initial'.assumptions :
                             \E i \in 1..h.answers : x \in history'[i].assumption
    BY DEF HandedOnAgreed
  <2>0. Len(history) \in Nat
    BY DEF TypeOK
  <2>1. CASE Submit
    <3>1. /\ \A i \in 1..Len(history) : history'[i] = history[i]
          /\ initial' = initial /\ h \in handoff
      BY <2>1, SubmitEffect
    <3>2. h.answers \in Nat /\ \A i \in 1..h.answers : history'[i] = history[i]
      BY <2>0, <3>1 DEF AgreedSoFar
    <3>3. \A r \in Requirements : Agreed(r, h.answers, h.idea[r])
      BY <3>1 DEF HandedOnAgreed
    <3>4. \A r \in Requirements : Agreed(r, h.answers, h.idea[r])'
      BY <3>1, <3>2, <3>3, AgreedPrefix
    <3> QED
      BY <3>1, <3>2, <3>4 DEF HandedOnAgreed
  <2>2. CASE ToProject \/ UNCHANGED vars
    BY <2>2 DEF HandedOnAgreed, Agreed, About, ToProject, vars, session, intake
  <2>3. CASE Handoff
    <3>1. /\ h.decision = IF Eligible THEN "transitioned" ELSE "blocked"
          /\ h.idea = values /\ h.answers = Len(history)
      BY <2>3 DEF Handoff
    <3>2. open = {} /\ assumptions = {}
      BY <3>1 DEF Eligible, Ready
    <3>3. history' = history /\ initial' = initial
      BY <2>3 DEF Handoff, session
    <3>4. \A r \in Requirements : Agreed(r, h.answers, h.idea[r])
      BY <3>1, <3>2 DEF AgreedSoFar
    <3>5. \A x \in initial.assumptions :
              \E i \in 1..h.answers : x \in history[i].assumption
      BY <3>1, <3>2 DEF AgreedSoFar
    <3> QED
      BY <3>3, <3>4, <3>5 DEF Agreed, About
  <2> QED
    BY <2>1, <2>2, <2>3 DEF Next
<1> QED
  BY <1>1, <1>2, SessionTypes, AgreedSoFarKept, PTL DEF Spec
=============================================================================
