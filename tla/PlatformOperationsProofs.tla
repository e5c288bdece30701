---------------------- MODULE PlatformOperationsProofs ----------------------
(***************************************************************************)
(* Theorems about the services of PlatformOperations, for every number of  *)
(* callers, requests, restarts and attempts and for all contents, events,  *)
(* reviews, contracts and answers.  A behaviour follows one service and    *)
(* the others stand still, so each part proves an inductive invariant of   *)
(* one service and lifts it to Spec.                                       *)
(***************************************************************************)
EXTENDS PlatformOperations, SequenceTheorems, FiniteSetTheorems, TLAPS

LEMMA ServicesApart ==
    ASSUME [Next]_operationVars
    PROVE  /\ [StorageNext]_storageVars
           /\ [DeliveryNext]_deliveryVars
           /\ [GateNext]_gateVars
           /\ [ServiceNext]_serviceVars
           /\ [IdeaNext]_ideaVars
           /\ [AmendmentNext]_amendmentVars
           /\ [DeclarationNext]_declarationVars
BY DEF Next, operationVars

-----------------------------------------------------------------------------
(* Induction over numbers, as a fact about sets of numbers.                *)
LEMMA LeastNumber ==
    ASSUME NEW T \in SUBSET Nat, T # {}
    PROVE  \E m \in T : \A k \in T : m <= k
<1> DEFINE R == OpToRel(<, Nat)
<1>1. IsWellFoundedOn(R, Nat)
  BY NatLessThanWellFounded
<1>2. PICK m \in T : \A k \in T : <<k, m>> \notin R
  <2> HIDE DEF R
  <2>. QED
    BY <1>1, WFMin
<1>3. \A k \in T : ~(k < m)
  BY <1>2, Zenon DEF OpToRel
<1>. QED
  BY <1>3

LEMMA EveryNumber ==
    ASSUME NEW S, 0 \in S, \A n \in Nat : n \in S => n + 1 \in S
    PROVE  Nat \subseteq S
<1> SUFFICES ASSUME Nat \ S # {} PROVE FALSE
  OBVIOUS
<1>1. PICK m \in Nat \ S : \A k \in Nat \ S : m <= k
  BY LeastNumber
<1>2. m # 0
  BY <1>1
<1>3. m - 1 \in Nat /\ m - 1 \in S
  BY <1>1, <1>2
<1>. QED
  BY <1>1, <1>3

-----------------------------------------------------------------------------
(* Object storage: what is written is a prefix of one upload, and only a   *)
(* whole one becomes the file of an object.                                *)

CallPlaces ==
    {"write", "replace", "record", "read", "verify", "open", "unlink", "forget", "done"}
CallResults == {"none", "stored", "failed", "missing", "corrupt", "opened", "deleted"}

UploadPrefixes == {<<>>} \cup {<<u>> : u \in Uploads} \cup Contents

StorageCalls ==
    [at : CallPlaces, object : Objects, by : Principals, content : Contents \cup {NoContent},
     written : UploadPrefixes, result : CallResults]

\* where a call of the storage is, its content and what it wrote fit together
CallSound(k) ==
    /\ k.at = "write" => \E u \in Uploads : k.content = Content(u) /\ k.written \in {<<>>, <<u>>}
    /\ k.at = "replace" => k.written = k.content /\ k.content \in Contents
    /\ k.at = "done" /\ k.result = "opened" => k.content \in Contents

StorageInv ==
    /\ files \in [Objects -> Contents \cup {NoContent}]
    /\ call \in [Callers -> StorageCalls \cup {NoCall}]
    /\ \A c \in Callers : CallSound(call[c])

\* a second chunk makes the content
LEMMA SecondChunk ==
    ASSUME NEW u
    PROVE  Append(<<u>>, u) = <<u, u>>
<1> DEFINE s == Append(<<u>>, u)
           t == <<u, u>>
<1>1. s \in Seq({u}) /\ t \in Seq({u})
  OBVIOUS
<1>2. Len(s) = 2 /\ s[1] = u /\ s[2] = u
  OBVIOUS
<1>3. Len(t) = 2 /\ t[1] = u /\ t[2] = u
  OBVIOUS
<1>4. \A i \in 1 .. Len(s) : s[i] = t[i]
  BY <1>2, <1>3
<1> HIDE DEF s, t
<1>5. s = t
  BY <1>1, <1>2, <1>3, <1>4, SeqEqual
<1>. QED
  BY <1>5 DEF s, t

LEMMA StorageInvInit == StorageInit => StorageInv
BY DEF StorageInit, StorageInv, NoCall, CallSound

LEMMA StorageInvNext == StorageInv /\ [StorageNext]_storageVars => StorageInv'
<1> SUFFICES ASSUME StorageInv, [StorageNext]_storageVars PROVE StorageInv'
  OBVIOUS
<1>a. files \in [Objects -> Contents \cup {NoContent}]
  BY DEF StorageInv
<1>b. call \in [Callers -> StorageCalls \cup {NoCall}]
  BY DEF StorageInv
<1>c. \A c \in Callers : CallSound(call[c])
  BY DEF StorageInv
<1> USE <1>a, <1>b, <1>c DEF CallResults
\* one call changes, to a sound one, and the files stay contents
<1>0. ASSUME NEW c \in Callers, NEW k \in StorageCalls \cup {NoCall}, CallSound(k),
             call' = [call EXCEPT ![c] = k], files' \in [Objects -> Contents \cup {NoContent}]
      PROVE  StorageInv'
  BY <1>0, <1>b, <1>c DEF StorageInv
<1>1. ASSUME NEW c \in Callers, NEW p \in Principals, NEW o \in Objects, NEW at \in CallPlaces \ {"replace", "done"},
             NEW content \in Contents \cup {NoContent}, NEW action,
             Begin(c, p, action, o, at, content), UNCHANGED files,
             at = "write" => \E u \in Uploads : content = Content(u)
      PROVE  StorageInv'
  <2> DEFINE k == [at |-> at, object |-> o, by |-> p, content |-> content, written |-> <<>>, result |-> "none"]
  <2>1. k \in StorageCalls /\ CallSound(k)
    BY <1>1 DEF StorageCalls, CallSound, CallPlaces, CallResults, UploadPrefixes
  <2>. QED
    BY <1>0, <1>1, <2>1 DEF Begin
<1>2. ASSUME NEW c \in Callers, NEW p \in Principals, NEW o \in Objects, NEW u \in Uploads,
             NEW replace \in BOOLEAN, StartUpload(c, p, o, u, replace)
      PROVE  StorageInv'
  BY <1>1, <1>2 DEF StartUpload, CallPlaces, Contents
<1>3. ASSUME NEW c \in Callers, NEW p \in Principals, NEW o \in Objects,
             StartDownload(c, p, o) \/ StartDelete(c, p, o)
      PROVE  StorageInv'
  <2>1. CASE StartDownload(c, p, o)
    <3>1. Begin(c, p, "read", o, "read", NoContent) /\ UNCHANGED files
      BY <2>1 DEF StartDownload
    <3>2. "read" \in CallPlaces \ {"replace", "done"} /\ NoContent \in Contents \cup {NoContent}
      BY DEF CallPlaces
    <3>. QED
      BY <1>1, <3>1, <3>2
  <2>2. CASE StartDelete(c, p, o)
    <3>1. Begin(c, p, "delete", o, "unlink", NoContent) /\ UNCHANGED files
      BY <2>2 DEF StartDelete
    <3>2. "unlink" \in CallPlaces \ {"replace", "done"} /\ NoContent \in Contents \cup {NoContent}
      BY DEF CallPlaces
    <3>. QED
      BY <1>1, <3>1, <3>2
  <2>. QED
    BY <1>3, <2>1, <2>2
<1>4. ASSUME NEW c \in Callers, call[c].at # "idle" PROVE call[c] \in StorageCalls
  BY <1>4 DEF NoCall
\* going on or answering without a new content
<1>5. ASSUME NEW c \in Callers, NEW at \in CallPlaces \ {"write", "replace", "done"}, call[c].at # "idle",
             GoTo(c, at), files' \in [Objects -> Contents \cup {NoContent}]
      PROVE  StorageInv'
  <2> DEFINE k == [call[c] EXCEPT !.at = at]
  <2>1. k \in StorageCalls /\ k.at = at
    BY <1>4, <1>5 DEF StorageCalls
  <2>2. CallSound(k)
    BY <1>5, <2>1 DEF CallSound, CallPlaces
  <2>. QED
    BY <1>0, <1>5, <2>1, <2>2 DEF GoTo
<1>6. ASSUME NEW c \in Callers, NEW result \in CallResults \ {"opened"}, call[c].at # "idle",
             Answer(c, result), files' \in [Objects -> Contents \cup {NoContent}]
      PROVE  StorageInv'
  <2> DEFINE k == [call[c] EXCEPT !.at = "done", !.result = result]
  <2>1. k \in StorageCalls /\ k.at = "done" /\ k.result = result
    BY <1>4, <1>6 DEF StorageCalls, CallPlaces
  <2>2. CallSound(k)
    BY <2>1 DEF CallSound
  <2>3. call' = [call EXCEPT ![c] = k]
    BY <1>6 DEF Answer
  <2>. QED
    BY <1>0, <1>6, <2>1, <2>2, <2>3
<1>7. ASSUME NEW c \in Callers, WriteNext(c) PROVE StorageInv'
  <2>1. CASE BreakOff(c)
    BY <1>6, <1>7, <2>1 DEF WriteNext, BreakOff
  <2>2. CASE WriteChunk(c)
    <3>1. PICK u \in Uploads : call[c].content = Content(u) /\ call[c].written \in {<<>>, <<u>>}
      BY <1>7 DEF WriteNext, CallSound
    <3> DEFINE written == Append(call[c].written, call[c].content[Len(call[c].written) + 1])
               at == IF written = call[c].content THEN "replace" ELSE "write"
               k == [call[c] EXCEPT !.written = written, !.at = at]
    <3>2. written \in {<<u>>, <<u, u>>}
      <4>1. CASE call[c].written = <<>>
        <5>1. call[c].content[1] = u /\ Len(call[c].written) = 0
          BY <3>1, <4>1 DEF Content
        <5>. QED
          BY <4>1, <5>1
      <4>2. CASE call[c].written = <<u>>
        <5>1. call[c].content[2] = u /\ Len(call[c].written) = 1
          BY <3>1, <4>2 DEF Content
        <5>2. Append(<<u>>, u) = <<u, u>>
          BY SecondChunk
        <5>3. written = Append(<<u>>, u)
          BY <4>2, <5>1
        <5>. QED
          BY <5>2, <5>3
      <4>. QED
        BY <3>1, <4>1, <4>2
    <3>3. call[c] \in StorageCalls
      BY <1>4, <1>7 DEF WriteNext
    <3>4. k \in StorageCalls /\ k.at = at /\ k.written = written /\ k.content = call[c].content
      BY <3>2, <3>3 DEF StorageCalls, CallPlaces, UploadPrefixes, Contents, Content
    <3>5. CallSound(k)
      <4>1. CASE written = call[c].content
        BY <3>1, <3>4, <4>1 DEF CallSound, Contents
      <4>2. CASE written # call[c].content
        BY <3>1, <3>2, <3>4, <4>2 DEF CallSound, Content
      <4>. QED
        BY <4>1, <4>2
    <3>6. call' = [call EXCEPT ![c] = k] /\ files' = files
      BY <2>2 DEF WriteChunk
    <3>. QED
      BY <1>0, <3>4, <3>5, <3>6
  <2>. QED
    BY <1>7, <2>1, <2>2 DEF WriteNext
<1>8. ASSUME NEW c \in Callers, ReplaceFile(c) PROVE StorageInv'
  <2>1. call[c] \in StorageCalls /\ call[c].written \in Contents
    BY <1>4, <1>8 DEF ReplaceFile, CallSound
  <2>2. files' \in [Objects -> Contents \cup {NoContent}]
    BY <1>8, <2>1 DEF ReplaceFile, StorageCalls
  <2>. QED
    BY <1>5, <1>8, <2>2 DEF ReplaceFile, CallPlaces
<1>9. ASSUME NEW c \in Callers, RecordMetadata(c) \/ Forget(c) PROVE StorageInv'
  BY <1>6, <1>9 DEF RecordMetadata, Forget
<1>10. ASSUME NEW c \in Callers, NEW at \in {"verify", "done"}, NEW result \in CallResults,
              call[c].at # "idle", files[call[c].object] # NoContent,
              call' = [call EXCEPT ![c] = [call[c] EXCEPT !.at = at, !.result = result,
                                                          !.content = files[call[c].object]]],
              UNCHANGED files
       PROVE  StorageInv'
  <2>1. call[c] \in StorageCalls /\ files[call[c].object] \in Contents
    BY <1>4, <1>10 DEF StorageCalls
  <2> DEFINE k == [call[c] EXCEPT !.at = at, !.result = result, !.content = files[call[c].object]]
  <2>2. k \in StorageCalls /\ CallSound(k)
    BY <2>1 DEF StorageCalls, CallPlaces, CallSound
  <2>. QED
    BY <1>0, <1>10, <2>2
<1>11. ASSUME NEW c \in Callers, ReadThrough(c) PROVE StorageInv'
  <2>1. CASE files[call[c].object] = NoContent
    BY <1>6, <1>11, <2>1 DEF ReadThrough
  <2>2. CASE files[call[c].object] # NoContent
    <3>1. call[c].result \in CallResults
      BY <1>4, <1>11 DEF ReadThrough, StorageCalls
    <3>2. [call[c] EXCEPT !.at = "verify", !.content = files[call[c].object]]
            = [call[c] EXCEPT !.at = "verify", !.result = call[c].result, !.content = files[call[c].object]]
      BY <1>4, <1>11 DEF ReadThrough, StorageCalls
    <3>3. /\ call[c].at # "idle" /\ UNCHANGED files
          /\ call' = [call EXCEPT ![c] = [call[c] EXCEPT !.at = "verify", !.content = files[call[c].object]]]
      BY <1>11, <2>2 DEF ReadThrough
    <3>. QED
      BY <1>10, <2>2, <3>1, <3>2, <3>3
  <2>. QED
    BY <2>1, <2>2
<1>12. ASSUME NEW c \in Callers, Check(c) PROVE StorageInv'
  BY <1>5, <1>6, <1>12 DEF Check, CallPlaces, CallResults
<1>13. ASSUME NEW c \in Callers, Reopen(c) PROVE StorageInv'
  BY <1>6, <1>10, <1>13 DEF Reopen
<1>14. ASSUME NEW c \in Callers, UnlinkFile(c) PROVE StorageInv'
  <2>1. call[c] \in StorageCalls
    BY <1>4, <1>14 DEF UnlinkFile
  <2>2. files' \in [Objects -> Contents \cup {NoContent}]
    BY <1>14, <2>1 DEF UnlinkFile, StorageCalls
  <2>. QED
    BY <1>5, <1>6, <1>14, <2>2 DEF UnlinkFile, CallPlaces, CallResults
<1>15. CASE Restart
  <2>1. CallSound(NoCall)
    BY DEF CallSound, NoCall
  <2>. QED
    BY <1>15, <2>1 DEF Restart, StorageInv
<1>16. CASE UNCHANGED storageVars
  BY <1>16 DEF storageVars, StorageInv
<1>. QED
  BY <1>2, <1>3, <1>7, <1>8, <1>9, <1>11, <1>12, <1>13, <1>14, <1>15, <1>16 DEF StorageNext

\* Whatever is uploaded, deleted and restarted while it runs, a download gives
\* one upload and all of it.
THEOREM DownloadsWhole == Spec => []WholeObjects
<1>1. Init => StorageInv
  BY StorageInvInit DEF Init
<1>2. StorageInv /\ [Next]_operationVars => StorageInv'
  BY StorageInvNext, ServicesApart
<1>3. StorageInv => WholeObjects
  BY DEF StorageInv, CallSound, WholeObjects
<1>. QED
  BY <1>1, <1>2, <1>3, PTL DEF Spec

-----------------------------------------------------------------------------
(* Events and webhooks: there is one delivery, so one key in the guard; in *)
(* each life of the receiver the guard is empty until it has acted.        *)

Deliveries ==
    [at : {"none", "attempt", "waiting", "delivered", "failed"}, attempt : Nat, signed : Nat]

DeliveryInv ==
    /\ accepted \in Nat /\ receiverRestarts \in Nat /\ clock \in Nat
    /\ delivery \in Deliveries
    /\ delivery.at = "none" => network = {} /\ seen = {}
    /\ seen \subseteq {delivery.signed}
    /\ accepted <= receiverRestarts + (IF seen = {} THEN 0 ELSE 1)

LEMMA DeliveryInvInit == DeliveryInit => DeliveryInv
BY DEF DeliveryInit, DeliveryInv, NoDelivery, Deliveries

LEMMA DeliveryInvNext == DeliveryInv /\ [DeliveryNext]_deliveryVars => DeliveryInv'
<1> SUFFICES ASSUME DeliveryInv, [DeliveryNext]_deliveryVars PROVE DeliveryInv'
  OBVIOUS
<1> USE DEF DeliveryInv
\* what leaves the receiver and the clock alone, and the signature too
<1>1. ASSUME UNCHANGED <<accepted, receiverRestarts, clock, seen>>, delivery' \in Deliveries,
             delivery.at # "none", delivery'.at # "none", delivery'.signed = delivery.signed
      PROVE  DeliveryInv'
  BY <1>1
<1>2. ASSUME UNCHANGED <<accepted, receiverRestarts, clock, seen, delivery>>,
             network' \subseteq network
      PROVE  DeliveryInv'
  BY <1>2
<1>3. ASSUME NEW e \in Events, Publish(e) PROVE DeliveryInv'
  BY <1>2, <1>3 DEF Publish
<1>4. CASE HandleLocally \/ Published \/ RefuseTarget
  BY <1>2, <1>4 DEF HandleLocally, Published, RefuseTarget
<1>5. CASE StartDelivery
  BY <1>5 DEF StartDelivery, Deliveries
<1>6. CASE Send
  BY <1>1, <1>6 DEF Send, Deliveries
<1>7. CASE TryAgain
  <2>1. /\ UNCHANGED <<accepted, receiverRestarts, clock, seen>> /\ delivery.at # "none"
        /\ \/ delivery' = [delivery EXCEPT !.at = "attempt", !.attempt = @ + 1]
           \/ delivery' = [delivery EXCEPT !.at = "failed"]
    BY <1>7 DEF TryAgain
  <2>2. delivery' \in Deliveries /\ delivery'.at # "none" /\ delivery'.signed = delivery.signed
    <3>1. delivery \in Deliveries /\ delivery.attempt + 1 \in Nat
      BY DEF Deliveries
    <3>2. CASE delivery' = [delivery EXCEPT !.at = "attempt", !.attempt = @ + 1]
      BY <3>1, <3>2 DEF Deliveries
    <3>3. CASE delivery' = [delivery EXCEPT !.at = "failed"]
      BY <3>1, <3>3 DEF Deliveries
    <3>. QED
      BY <2>1, <3>2, <3>3
  <2>. QED
    BY <1>1, <2>1, <2>2
<1>8. ASSUME NEW m \in network, ReceiveAnswer(m) PROVE DeliveryInv'
  BY <1>1, <1>8 DEF ReceiveAnswer, Answered, Deliveries
<1>9. ASSUME NEW m \in network, Lose(m) PROVE DeliveryInv'
  BY <1>2, <1>9 DEF Lose
<1>10. ASSUME NEW m \in network, Receive(m) PROVE DeliveryInv'
  <2>1. delivery.at # "none" /\ UNCHANGED <<delivery, clock, receiverRestarts>>
    BY <1>10 DEF Receive
  <2>2. CASE Acceptable(m)
    <3>1. seen' = seen \cup {delivery.signed} /\ accepted' = accepted + 1
      BY <1>10, <2>2 DEF Receive, GuardKey
    <3>2. seen = {}
      BY <2>2 DEF Acceptable, GuardKey
    <3>. QED
      BY <2>1, <3>1, <3>2
  <2>3. CASE ~Acceptable(m)
    BY <1>10, <2>1, <2>3 DEF Receive
  <2>. QED
    BY <2>2, <2>3
<1>11. CASE ReceiverRestart
  BY <1>11 DEF ReceiverRestart
<1>12. CASE Tick
  BY <1>12 DEF Tick
<1>13. CASE UNCHANGED deliveryVars
  BY <1>2, <1>13 DEF deliveryVars
<1>. QED
  BY <1>3, <1>4, <1>5, <1>6, <1>7, <1>8, <1>9, <1>10, <1>11, <1>12, <1>13 DEF DeliveryNext, Publisher

\* However requests are lost, delayed and repeated and whenever the receiver
\* restarts, it acts on a delivery once in each of its lives.
THEOREM ActsOnce == Spec => []ActedOnOnce
<1>1. Init => DeliveryInv
  BY DeliveryInvInit DEF Init
<1>2. DeliveryInv /\ [Next]_operationVars => DeliveryInv'
  BY DeliveryInvNext, ServicesApart
<1>3. DeliveryInv => ActedOnOnce
  BY DEF DeliveryInv, ActedOnOnce
<1>. QED
  BY <1>1, <1>2, <1>3, PTL DEF Spec

-----------------------------------------------------------------------------
(* The release gate: it only goes on to the promotion with a review that   *)
(* is clear of the snapshot it took, and a gate that ended without one has *)
(* a failed result as its last.                                            *)

GateResults == Seq([passed : BOOLEAN, blocked : BOOLEAN])
LastFailed == Len(results) > 0 /\ ~results[Len(results)].passed
Reviewed == gate.evidence # NoEvidence /\ Clear(gate.review, gate.snapshot)

GateInv ==
    /\ results \in GateResults
    /\ gate = NoGate => results = <<>>
    /\ gate # NoGate =>
          \E at \in {"broken", "contracts", "review", "promotion", "ended"} : \E commit, review, evidence, snapshot :
              gate = [at |-> at, commit |-> commit, review |-> review, evidence |-> evidence,
                      snapshot |-> snapshot]
    /\ gate.at = "promotion" => Reviewed
    /\ gate.at = "ended" => LastFailed \/ (Reviewed /\ Attested(gate.evidence) /\ Promotes(gate.evidence))

LEMMA GateInvInit == GateInit => GateInv
BY DEF GateInit, GateInv, GateResults, NoGate

\* a result more is the last one
LEMMA AnotherResult ==
    ASSUME NEW passed \in BOOLEAN, NEW blocked \in BOOLEAN, results \in GateResults,
           results' = Append(results, ResultOf(passed, blocked))
    PROVE  results' \in GateResults /\ (~passed => LastFailed')
<1>1. ResultOf(passed, blocked) \in [passed : BOOLEAN, blocked : BOOLEAN]
  BY DEF ResultOf
<1>2. results' \in GateResults /\ Len(results') = Len(results) + 1 /\ Len(results) \in Nat
  BY <1>1, AppendProperties DEF GateResults
<1>3. results'[Len(results')].passed = passed
  BY <1>1, <1>2, AppendProperties DEF GateResults, ResultOf
<1>. QED
  BY <1>2, <1>3 DEF LastFailed

LEMMA GateInvNext == GateInv /\ [GateNext]_gateVars => GateInv'
<1> SUFFICES ASSUME GateInv, [GateNext]_gateVars PROVE GateInv'
  OBVIOUS
<1>1. CASE UNCHANGED <<gate, results>>
  BY <1>1 DEF GateInv, LastFailed, Reviewed, Clear, Matches, Attested, Promotes
<1>2. ASSUME NEW review, NEW e, Execute(review, e) PROVE GateInv'
  <2>1. PICK commit \in CurrentCommit :
            gate' = [at |-> IF commit = "none" THEN "broken" ELSE "contracts", commit |-> commit,
                     review |-> review, evidence |-> e, snapshot |-> "none"]
    BY <1>2 DEF Execute
  <2>2. results = <<>> /\ results' = results /\ gate' # NoGate
    BY <1>2, <2>1 DEF Execute, GateInv, NoGate
  <2>3. gate'.at \in {"broken", "contracts"}
    BY <2>1
  <2>. QED
    BY <2>1, <2>2, <2>3 DEF GateInv
\* a gate under way that goes on to some place, with another snapshot
<1>3. ASSUME gate # NoGate, NEW at \in {"contracts", "review", "promotion", "ended"}, NEW snapshot,
             gate' = [gate EXCEPT !.at = at, !.snapshot = snapshot]
      PROVE  /\ gate' # NoGate /\ gate'.at = at /\ gate'.snapshot = snapshot
             /\ gate'.commit = gate.commit /\ gate'.review = gate.review /\ gate'.evidence = gate.evidence
             /\ \E commit, review, evidence :
                   gate' = [at |-> at, commit |-> commit, review |-> review, evidence |-> evidence,
                            snapshot |-> snapshot]
  BY <1>3 DEF GateInv, NoGate
<1>4. ASSUME NEW run \in Runs, RunContract(run) PROVE GateInv'
  <2> DEFINE passed == ContractPasses(run, TestContracts[Len(results) + 1])
             at == IF ~passed THEN "ended" ELSE IF Len(results) + 1 = Len(TestContracts) THEN "review" ELSE gate.at
  <2>1. gate # NoGate /\ gate.at = "contracts" /\ passed \in BOOLEAN
    BY <1>4 DEF RunContract, NoGate, ContractPasses
  <2>2. gate' = [gate EXCEPT !.at = at] /\ results' = Append(results, ResultOf(passed, FALSE))
    BY <1>4 DEF RunContract
  <2>3. gate' = [gate EXCEPT !.at = at, !.snapshot = gate.snapshot]
    BY <2>1, <2>2 DEF GateInv
  <2>4. results' \in GateResults /\ (~passed => LastFailed')
    BY <2>1, <2>2, AnotherResult DEF GateInv
  <2>5. at \in {"contracts", "review", "ended"} /\ (at = "ended" => ~passed)
    BY <2>1
  <2> HIDE DEF passed, at
  <2>. QED
    BY <1>3, <2>1, <2>3, <2>4, <2>5 DEF GateInv
<1>5. CASE ValidateReview
  <2>1. PICK snapshot \in WorkingTreeDigest :
            LET clear == gate.review \in {r \in Reviews : Clear(r, snapshot)}
            IN  /\ gate' = [gate EXCEPT !.at = IF clear /\ gate.evidence # NoEvidence THEN "promotion" ELSE "ended",
                                        !.snapshot = snapshot]
                /\ results' = IF clear /\ gate.evidence # NoEvidence THEN results
                              ELSE Append(results, ResultOf(FALSE, clear))
    BY <1>5 DEF ValidateReview
  <2> DEFINE clear == gate.review \in {r \in Reviews : Clear(r, snapshot)}
  <2>2. gate # NoGate
    BY <1>5 DEF ValidateReview, NoGate
  <2>3. CASE clear /\ gate.evidence # NoEvidence
    <3>1. gate' = [gate EXCEPT !.at = "promotion", !.snapshot = snapshot] /\ results' = results
      BY <2>1, <2>3
    <3>2. Clear(gate.review, snapshot)
      BY <2>3
    <3>3. Reviewed'
      BY <1>3, <2>2, <2>3, <3>1, <3>2 DEF Reviewed, Clear, Matches
    <3>. QED
      BY <1>3, <2>2, <3>1, <3>3 DEF GateInv
  <2>4. CASE ~(clear /\ gate.evidence # NoEvidence)
    <3>1. gate' = [gate EXCEPT !.at = "ended", !.snapshot = snapshot] /\ results' = Append(results, ResultOf(FALSE, clear))
      BY <2>1, <2>4
    <3>2. clear \in BOOLEAN
      OBVIOUS
    <3> HIDE DEF clear
    <3>3. results' \in GateResults /\ LastFailed'
      BY <3>1, <3>2, AnotherResult DEF GateInv
    <3>. QED
      BY <1>3, <2>2, <3>1, <3>3 DEF GateInv
  <2>. QED
    BY <2>3, <2>4
<1>6. CASE ValidatePromotion
  <2>1. PICK available \in BOOLEAN :
            results' = Append(results, IF available /\ Attested(gate.evidence)
                                       THEN ResultOf(Promotes(gate.evidence), FALSE) ELSE ResultOf(FALSE, TRUE))
    BY <1>6 DEF ValidatePromotion
  <2>2. gate # NoGate /\ gate' = [gate EXCEPT !.at = "ended", !.snapshot = gate.snapshot] /\ Reviewed
    <3>1. gate.at = "promotion" /\ gate' = [gate EXCEPT !.at = "ended"] /\ gate # NoGate
      BY <1>6 DEF ValidatePromotion, NoGate
    <3>. QED
      BY <3>1 DEF GateInv
  <2>3. gate' # NoGate /\ gate'.at = "ended" /\ Reviewed'
    BY <1>3, <2>2 DEF Reviewed, Clear, Matches
  <2>4. CASE available /\ Attested(gate.evidence)
    <3>1. results' = Append(results, ResultOf(Promotes(gate.evidence), FALSE)) /\ Promotes(gate.evidence) \in BOOLEAN
      BY <2>1, <2>4 DEF Promotes
    <3>2. results' \in GateResults /\ (~Promotes(gate.evidence) => LastFailed')
      BY <3>1, AnotherResult DEF GateInv
    <3>3. Promotes(gate.evidence) => Promotes(gate.evidence)' /\ Attested(gate.evidence)'
      BY <1>3, <2>2, <2>4 DEF Promotes, Attested
    <3>. QED
      BY <1>3, <2>2, <2>3, <3>2, <3>3 DEF GateInv
  <2>5. CASE ~(available /\ Attested(gate.evidence))
    <3>1. results' = Append(results, ResultOf(FALSE, TRUE))
      BY <2>1, <2>5
    <3>2. results' \in GateResults /\ LastFailed'
      BY <3>1, AnotherResult DEF GateInv
    <3>. QED
      BY <1>3, <2>2, <2>3, <3>2 DEF GateInv
  <2>. QED
    BY <2>4, <2>5
<1>7. Edit => UNCHANGED <<gate, results>>
  BY DEF Edit
<1>. QED
  BY <1>1, <1>2, <1>4, <1>5, <1>6, <1>7 DEF GateNext, gateVars

\* Whatever is edited, committed and checked out while the gate runs, a release
\* is only complete with a review of the tree it saw and evidence of its commit.
THEOREM CompleteReleaseReviewed == Spec => []CompleteIsReviewed
<1>1. Init => GateInv
  BY GateInvInit DEF Init
<1>2. GateInv /\ [Next]_operationVars => GateInv'
  BY GateInvNext, ServicesApart
<1>3. GateInv => CompleteIsReviewed
  <2> SUFFICES ASSUME GateInv, ReleaseComplete PROVE CompleteIsReviewed
    BY DEF CompleteIsReviewed
  <2>1. ~LastFailed
    BY DEF GateInv, GateResults, LastFailed, ReleaseComplete, HasPassed
  <2>2. Reviewed /\ Attested(gate.evidence) /\ Promotes(gate.evidence)
    BY <2>1 DEF GateInv, ReleaseComplete
  <2>. QED
    BY <2>2 DEF Reviewed, Clear, Matches, Attested, Promotes, CompleteIsReviewed
<1>. QED
  BY <1>1, <1>2, <1>3, PTL DEF Spec

-----------------------------------------------------------------------------
(* The generated service: what a request under way has loaded is the row   *)
(* it was, until somebody's commit gives the row another version.          *)

MemberTenants == {p.tenant : p \in Members}
Rows ==
    [exists : {TRUE}, tenant : MemberTenants, deleted : BOOLEAN, version : Nat, value : RowValues,
     ref : RowIds \cup {NoRef}]

Underway ==
    [at : {"validate", "insert", "load", "commit"}, tenant : MemberTenants,
     action : {"create", "update", "read", "delete", "restore"}, id : RowIds \cup {NoRef},
     values : Updates \cup Creations \cup {<<>>}, item : Rows \cup {NoRow}]
Over == {[at |-> how] : how \in {"none", "done", "failed", "refused", "missing"}}

\* the row that a request is about to write, as it was loaded and as it is
ItemSound(q) ==
    /\ q.item \in Rows
    /\ contract.tenant => q.item.tenant = q.tenant
    /\ q.action = "update" /\ contract.soft => ~q.item.deleted
    /\ table[q.id] # NoRow
    /\ table[q.id].exists =>
          /\ table[q.id].tenant = q.item.tenant
          /\ contract.versioned => /\ q.item.version <= table[q.id].version
                                   /\ q.item.version = table[q.id].version => table[q.id] = q.item

RequestSound(q) ==
    /\ q.at = "validate" => \/ q.action = "create" /\ q.values \in Creations
                            \/ q.action = "update" /\ q.id \in RowIds /\ q.values \in Updates
    /\ q.at = "insert" => q.values \in Creations
    /\ q.at \in {"load", "commit"} =>
          q.id \in RowIds /\ q.action # "create" /\ (q.action = "update" => q.values \in Updates)
    /\ q.at = "commit" => q.action # "read" /\ ItemSound(q)

RefsSound ==
    contract.tenant =>
        \A i \in RowIds :
            table[i].exists /\ table[i].ref # NoRef =>
                table[table[i].ref].exists /\ table[table[i].ref].tenant = table[i].tenant

ServiceInv ==
    /\ contract \in ServiceContracts
    /\ table \in [RowIds -> Rows \cup {NoRow, Gone}]
    /\ request \in [Requests -> Underway \cup Over]
    /\ RefsSound
    /\ \A r \in Requests : RequestSound(request[r])

LEMMA NoRowIsNone ==
    /\ NoRow # Gone /\ ~NoRow.exists /\ ~Gone.exists
    /\ \A x \in Rows : x.exists /\ x # NoRow /\ x # Gone
<1>1. DOMAIN NoRow = {"exists"} /\ DOMAIN Gone = {"exists", "removed"}
  BY DEF NoRow, Gone
<1>. QED
  BY <1>1 DEF NoRow, Gone, Rows

LEMMA ServiceInvInit == ServiceInit => ServiceInv
<1> SUFFICES ASSUME ServiceInit PROVE ServiceInv
  OBVIOUS
<1>1. contract \in ServiceContracts /\ contract.soft \in BOOLEAN
  BY ServiceAssumption DEF ServiceInit
<1>2. OldRow(contract) \subseteq Rows
  <2>1. (CHOOSE v \in RowValues : TRUE) \in RowValues
    BY ServiceAssumption
  <2>2. {FALSE, contract.soft} \subseteq BOOLEAN
    BY <1>1
  <2>3. ASSUME NEW x \in OldRow(contract) PROVE x \in Rows
    <3>1. x.deleted \in BOOLEAN /\ x.value \in RowValues
      BY <2>1, <2>2 DEF OldRow
    <3>2. x.tenant \in MemberTenants
      BY DEF OldRow, MemberTenants
    <3>3. x = [exists |-> TRUE, tenant |-> x.tenant, deleted |-> x.deleted, version |-> 1,
               value |-> x.value, ref |-> NoRef]
      BY DEF OldRow
    <3>4. [exists |-> TRUE, tenant |-> x.tenant, deleted |-> x.deleted, version |-> 1,
           value |-> x.value, ref |-> NoRef] \in Rows
      BY <3>1, <3>2 DEF Rows
    <3>. QED
      BY <3>3, <3>4
  <2>. QED
    BY <2>3
<1>3. table \in [RowIds -> Rows \cup {NoRow, Gone}]
  BY <1>2 DEF ServiceInit
<1>4. RefsSound
  <2>1. \A i \in RowIds : table[i].exists => table[i].ref = NoRef
    BY NoRowIsNone DEF ServiceInit, OldRow
  <2>. QED
    BY <2>1 DEF RefsSound
<1>5. request \in [Requests -> Underway \cup Over]
  BY DEF ServiceInit, Over
<1>6. \A r \in Requests : RequestSound(request[r])
  BY DEF ServiceInit, RequestSound
<1>. QED
  BY <1>1, <1>3, <1>4, <1>5, <1>6 DEF ServiceInv

\* a row is written once more for its tenant, or removed for good
Succeeds(new, old) ==
    \/ old = NoRow
    \/ new = Gone
    \/ /\ old \in Rows /\ new \in Rows /\ new.tenant = old.tenant
       /\ contract.versioned => new.version = old.version + 1

LEMMA ItemsStaySound ==
    ASSUME ServiceInv, UNCHANGED contract, NEW i \in RowIds, NEW new \in Rows \cup {Gone},
           table' = [table EXCEPT ![i] = new], Succeeds(new, table[i]),
           NEW q \in Underway, q.at = "commit", q.id \in RowIds, ItemSound(q)
    PROVE  ItemSound(q)'
<1>1. table \in [RowIds -> Rows \cup {NoRow, Gone}]
  BY DEF ServiceInv
<1>2. CASE q.id # i
  BY <1>1, <1>2 DEF ItemSound
<1>3. CASE q.id = i
  <2>1. table'[q.id] = new /\ table[i] # NoRow
    BY <1>1, <1>3 DEF ItemSound
  <2>2. CASE new = Gone
    BY <2>1, <2>2, NoRowIsNone DEF ItemSound
  <2>3. CASE new # Gone
    <3>1. /\ table[i] \in Rows /\ new \in Rows /\ new.tenant = table[i].tenant
          /\ contract.versioned => new.version = table[i].version + 1
      BY <2>1, <2>3 DEF Succeeds
    <3>2. table[i].exists /\ new # NoRow
      BY <3>1, NoRowIsNone
    <3>3. contract.versioned => q.item.version < new.version
      <4> SUFFICES ASSUME contract.versioned PROVE q.item.version < new.version
        OBVIOUS
      <4>1. q.item.version <= table[i].version /\ q.item \in Rows
        BY <1>3, <3>2 DEF ItemSound
      <4>2. q.item.version \in Nat /\ table[i].version \in Nat /\ new.version = table[i].version + 1
        BY <3>1, <4>1 DEF Rows
      <4>. QED
        BY <4>1, <4>2
    <3>4. q.item.version \in Nat /\ new.version \in Nat /\ q.item \in Rows
      BY <3>1 DEF ItemSound, Rows
    <3>5. contract.versioned => q.item.version <= new.version /\ q.item.version # new.version
      BY <3>3, <3>4
    <3>6. new.tenant = q.item.tenant
      BY <1>3, <3>1, <3>2 DEF ItemSound
    <3>. QED
      BY <2>1, <3>2, <3>4, <3>5, <3>6 DEF ItemSound
  <2>. QED
    BY <2>2, <2>3
<1>. QED
  BY <1>2, <1>3

\* a request ends, and no row or one changes
LEMMA RequestEnds ==
    ASSUME ServiceInv, UNCHANGED contract, NEW r \in Requests,
           NEW how \in {"none", "done", "failed", "refused", "missing"}, Conclude(r, how),
           \/ UNCHANGED table
           \/ \E i \in RowIds, new \in Rows \cup {Gone} :
                 /\ table' = [table EXCEPT ![i] = new]
                 /\ Succeeds(new, table[i])
                 /\ RefsSound'
    PROVE  ServiceInv'
<1>1. request' \in [Requests -> Underway \cup Over]
  BY DEF ServiceInv, Conclude, Over
<1>2. table' \in [RowIds -> Rows \cup {NoRow, Gone}] /\ RefsSound'
  BY DEF ServiceInv, RefsSound
<1>3. ASSUME NEW s \in Requests PROVE RequestSound(request[s])'
  <2>1. CASE s = r
    <3>1. request'[s] = [at |-> how]
      BY <2>1 DEF Conclude, ServiceInv
    <3>. QED
      BY <3>1 DEF RequestSound
  <2>2. CASE s # r
    <3>1. request'[s] = request[s] /\ RequestSound(request[s])
      BY <2>2 DEF Conclude, ServiceInv
    <3>2. request[s].at = "commit" => ItemSound(request[s])'
      <4> SUFFICES ASSUME request[s].at = "commit" PROVE ItemSound(request[s])'
        OBVIOUS
      <4>1. request[s] \in Underway /\ request[s].id \in RowIds /\ ItemSound(request[s])
        BY <3>1 DEF ServiceInv, RequestSound, Over
      <4>2. CASE UNCHANGED table
        BY <3>1, <4>1, <4>2 DEF ItemSound
      <4>3. CASE ~UNCHANGED table
        <5>1. PICK i \in RowIds, new \in Rows \cup {Gone} :
                  table' = [table EXCEPT ![i] = new] /\ Succeeds(new, table[i])
          BY <4>3
        <5>. QED
          BY <3>1, <4>1, <5>1, ItemsStaySound
      <4>. QED
        BY <4>2, <4>3
    <3>. QED
      BY <3>1, <3>2 DEF RequestSound, Updates, Creations
  <2>. QED
    BY <2>1, <2>2
<1>4. (Underway \cup Over)' = Underway \cup Over /\ contract' \in ServiceContracts
  BY DEF ServiceInv, Underway, Updates, Creations, Over, Rows, MemberTenants
<1>. QED
  BY <1>1, <1>2, <1>3, <1>4 DEF ServiceInv

\* a request goes on, and no row changes
LEMMA RequestGoesOn ==
    ASSUME ServiceInv, UNCHANGED <<contract, table>>, NEW r \in Requests, NEW q \in Underway,
           RequestSound(q), request' = [request EXCEPT ![r] = q]
    PROVE  ServiceInv'
<1>1. (Underway \cup Over)' = Underway \cup Over /\ contract' \in ServiceContracts /\ RefsSound'
  BY DEF ServiceInv, Underway, Updates, Creations, Over, Rows, MemberTenants, RefsSound
<1>2. request' \in [Requests -> Underway \cup Over] /\ table' \in [RowIds -> Rows \cup {NoRow, Gone}]
  BY DEF ServiceInv
<1>3. ASSUME NEW s \in Requests PROVE RequestSound(request[s])'
  <2>1. RequestSound(request'[s])
    BY DEF ServiceInv
  <2>. QED
    BY <2>1 DEF RequestSound, ItemSound, Updates, Creations
<1>. QED
  BY <1>1, <1>2, <1>3 DEF ServiceInv

\* what a row becomes with the changes of a commit
LEMMA RowWritten ==
    ASSUME NEW row \in Rows, NEW changed, DOMAIN changed \subseteq {"value", "ref", "deleted"},
           "value" \in DOMAIN changed => changed.value \in RowValues,
           "ref" \in DOMAIN changed => changed.ref \in RowIds \cup {NoRef},
           "deleted" \in DOMAIN changed => changed.deleted \in BOOLEAN
    PROVE  LET new == Written(row, changed)
           IN  /\ new \in Rows /\ new.tenant = row.tenant
               /\ contract.versioned => new.version = row.version + 1
               /\ new.value = IF "value" \in DOMAIN changed THEN changed.value ELSE row.value
               /\ new.ref = IF "ref" \in DOMAIN changed THEN changed.ref ELSE row.ref
<1> DEFINE new == Written(row, changed)
<1>1. DOMAIN row = {"exists", "tenant", "deleted", "version", "value", "ref"}
  BY DEF Rows
<1>2. DOMAIN new = DOMAIN row
  BY DEF Written
<1>3. /\ new["exists"] = row["exists"] /\ new["tenant"] = row["tenant"]
      /\ new["version"] = IF contract.versioned THEN row.version + 1 ELSE row["version"]
      /\ new["value"] = IF "value" \in DOMAIN changed THEN changed["value"] ELSE row["value"]
      /\ new["ref"] = IF "ref" \in DOMAIN changed THEN changed["ref"] ELSE row["ref"]
      /\ new["deleted"] = IF "deleted" \in DOMAIN changed THEN changed["deleted"] ELSE row["deleted"]
  BY <1>1 DEF Written
<1>4. new \in Rows
  <2>1. /\ new.exists = TRUE /\ new.tenant \in MemberTenants /\ new.deleted \in BOOLEAN /\ new.version \in Nat
        /\ new.value \in RowValues /\ new.ref \in RowIds \cup {NoRef}
    <3>1. /\ row.exists = TRUE /\ row.tenant \in MemberTenants /\ row.deleted \in BOOLEAN /\ row.version \in Nat
          /\ row.value \in RowValues /\ row.ref \in RowIds \cup {NoRef}
      BY DEF Rows
    <3>2. new.exists = TRUE /\ new.tenant \in MemberTenants /\ new.deleted \in BOOLEAN
      BY <1>3, <3>1
    <3>3. new.version \in Nat
      BY <1>3, <3>1
    <3>4. new.value \in RowValues /\ new.ref \in RowIds \cup {NoRef}
      BY <1>3, <3>1
    <3>. QED
      BY <3>2, <3>3, <3>4
  <2>2. new = [exists |-> new.exists, tenant |-> new.tenant, deleted |-> new.deleted, version |-> new.version,
               value |-> new.value, ref |-> new.ref]
    BY <1>1, <1>2 DEF Written
  <2>. QED
    BY <2>1, <2>2 DEF Rows
<1>. QED
  BY <1>3, <1>4

LEMMA WriteKeepsRefs ==
    ASSUME ServiceInv, UNCHANGED contract, NEW i \in RowIds, NEW new \in Rows,
           table' = [table EXCEPT ![i] = new],
           table[i].exists => new.tenant = table[i].tenant,
           contract.tenant /\ new.ref # NoRef => /\ table[new.ref].exists
                                                 /\ table[new.ref].tenant = new.tenant
    PROVE  RefsSound'
<1>1. table \in [RowIds -> Rows \cup {NoRow, Gone}] /\ new.exists /\ new.ref \in RowIds \cup {NoRef}
  BY NoRowIsNone DEF ServiceInv, Rows
<1> SUFFICES ASSUME contract.tenant, NEW j \in RowIds, table'[j].exists, table'[j].ref # NoRef
             PROVE  table'[table'[j].ref].exists /\ table'[table'[j].ref].tenant = table'[j].tenant
  BY DEF RefsSound
<1>2. table'[j].ref \in RowIds
  <2>1. table'[j] \in Rows
    BY <1>1, NoRowIsNone
  <2>. QED
    BY <2>1 DEF Rows
<1>3. table[table'[j].ref].exists /\ table[table'[j].ref].tenant = table'[j].tenant
  <2>1. CASE j = i
    BY <1>1, <2>1
  <2>2. CASE j # i
    BY <1>1, <2>2 DEF ServiceInv, RefsSound
  <2>. QED
    BY <2>1, <2>2
<1>. QED
  BY <1>1, <1>2, <1>3

LEMMA InsertSound ==
    ASSUME ServiceInv, NEW r \in Requests, InsertRow(r)
    PROVE  ServiceInv'
<1> DEFINE q == request[r]
<1>1. q.at = "insert" /\ q \in Underway /\ q.values \in Creations /\ UNCHANGED contract
  BY DEF InsertRow, ServiceInv, RequestSound, Over
<1>2. q.values.value \in RowValues /\ q.values.ref \in RowIds \cup {NoRef} /\ "ref" \in DOMAIN q.values
  BY <1>1 DEF Creations
<1>3. CASE ~Referable(q.tenant, q.values)
  BY <1>1, <1>3, RequestEnds DEF InsertRow
<1>4. CASE Referable(q.tenant, q.values)
  <2> DEFINE new == [exists |-> TRUE, tenant |-> q.tenant, deleted |-> FALSE, version |-> 1,
                     value |-> q.values.value, ref |-> q.values.ref]
  <2>1. PICK i \in RowIds : table[i] = NoRow /\ table' = [table EXCEPT ![i] = new] /\ Conclude(r, "done")
    BY <1>4 DEF InsertRow
  <2>2. new \in Rows
    BY <1>1, <1>2 DEF Rows, Underway
  <2>3. contract.tenant /\ new.ref # NoRef => table[new.ref].exists /\ table[new.ref].tenant = new.tenant
    BY <1>2, <1>4 DEF Referable, Referred
  <2>4. ~table[i].exists
    BY <2>1, NoRowIsNone
  <2> HIDE DEF new
  <2>5. RefsSound'
    BY <1>1, <2>1, <2>2, <2>3, <2>4, WriteKeepsRefs
  <2>. QED
    BY <1>1, <2>1, <2>2, <2>5, RequestEnds DEF Succeeds
<1>. QED
  BY <1>3, <1>4

\* what a commit changes is of the kind of the row's columns
LEMMA ChangesSound ==
    ASSUME NEW q \in Underway, q.at = "commit", RequestSound(q)
    PROVE  /\ DOMAIN Changed(q) \subseteq {"value", "ref", "deleted"}
           /\ "value" \in DOMAIN Changed(q) => Changed(q).value \in RowValues
           /\ "ref" \in DOMAIN Changed(q) => Changed(q).ref \in RowIds \cup {NoRef}
           /\ "deleted" \in DOMAIN Changed(q) => Changed(q).deleted \in BOOLEAN
           /\ q.action # "update" => DOMAIN Changed(q) = {"deleted"}
<1>1. CASE q.action = "update"
  <2>1. q.values \in Updates
    BY <1>1 DEF RequestSound
  <2>2. DOMAIN Changed(q) \subseteq DOMAIN q.values
    BY <1>1 DEF Changed
  <2>3. \A n \in DOMAIN Changed(q) : Changed(q)[n] = q.values[n]
    BY <1>1 DEF Changed
  <2>4. CASE \E v \in RowValues : q.values = [value |-> v]
    <3>1. DOMAIN q.values = {"value"} /\ q.values["value"] \in RowValues
      BY <2>4
    <3>. QED
      BY <1>1, <2>2, <2>3, <3>1
  <2>5. CASE \E i \in RowIds \cup {NoRef} : q.values = [ref |-> i]
    <3>1. DOMAIN q.values = {"ref"} /\ q.values["ref"] \in RowIds \cup {NoRef}
      BY <2>5
    <3>. QED
      BY <1>1, <2>2, <2>3, <3>1
  <2>. QED
    BY <2>1, <2>4, <2>5 DEF Updates
<1>2. CASE q.action = "delete"
  BY <1>2 DEF Changed
<1>3. CASE q.action = "restore"
  BY <1>3 DEF Changed
<1>. QED
  BY <1>1, <1>2, <1>3 DEF Underway, RequestSound

\* the changes of a commit that finds the row unchanged
LEMMA CommitWrites ==
    ASSUME ServiceInv, NEW r \in Requests, CommitRow(r), UNCHANGED table => FALSE
    PROVE  LET q == request[r]
           IN  /\ q \in Underway /\ q.id \in RowIds /\ q.action # "create" /\ ItemSound(q) /\ Unchanged(q)
               /\ table[q.id] \in Rows /\ Written(table[q.id], Changed(q)) \in Rows
               /\ Conclude(r, "done")
               /\ table' = [table EXCEPT ![q.id] = Written(table[q.id], Changed(q))]
               /\ RefsSound'
<1> DEFINE q == request[r]
           new == Written(table[q.id], Changed(q))
<1>1. /\ q.at = "commit" /\ q \in Underway /\ RequestSound(q) /\ UNCHANGED contract
      /\ q.id \in RowIds /\ q.action # "create" /\ ItemSound(q)
  BY DEF CommitRow, ServiceInv, RequestSound, Over
<1>2. /\ Unchanged(q) /\ Referable(q.tenant, Changed(q)) /\ Conclude(r, "done")
      /\ table' = [table EXCEPT ![q.id] = new]
  BY DEF CommitRow
<1>3. table[q.id] \in Rows
  BY <1>1, <1>2, NoRowIsNone DEF Unchanged, ServiceInv
<1>4. new \in Rows /\ new.tenant = table[q.id].tenant
      /\ new.ref = IF "ref" \in DOMAIN Changed(q) THEN Changed(q).ref ELSE table[q.id].ref
  BY <1>1, <1>3, ChangesSound, RowWritten
<1>5. contract.tenant => table[q.id].tenant = q.tenant
  BY <1>1, <1>3, NoRowIsNone DEF ItemSound
<1>6. contract.tenant /\ new.ref # NoRef => table[new.ref].exists /\ table[new.ref].tenant = new.tenant
  <2>1. CASE "ref" \in DOMAIN Changed(q)
    BY <1>1, <1>2, <1>4, <1>5, <2>1, ChangesSound DEF Referable, Referred
  <2>2. CASE "ref" \notin DOMAIN Changed(q)
    BY <1>1, <1>3, <1>4, <2>2, NoRowIsNone DEF ServiceInv, RefsSound
  <2>. QED
    BY <2>1, <2>2
<1> HIDE DEF new
<1>7. RefsSound'
  BY <1>1, <1>2, <1>4, <1>6, WriteKeepsRefs
<1>. QED
  BY <1>1, <1>2, <1>3, <1>4, <1>7 DEF new

LEMMA CommitSound ==
    ASSUME ServiceInv, NEW r \in Requests, CommitRow(r)
    PROVE  ServiceInv'
<1>1. UNCHANGED contract
  BY DEF CommitRow
<1>2. CASE UNCHANGED table
  <2>1. Conclude(r, "done") \/ Conclude(r, "failed")
    BY DEF CommitRow
  <2>. QED
    BY <1>1, <1>2, <2>1, RequestEnds
<1>3. CASE ~UNCHANGED table
  <2> DEFINE q == request[r]
             new == Written(table[q.id], Changed(q))
  <2>1. /\ q \in Underway /\ q.id \in RowIds /\ table[q.id] \in Rows /\ new \in Rows
        /\ Conclude(r, "done") /\ table' = [table EXCEPT ![q.id] = new] /\ RefsSound'
    BY <1>3, CommitWrites
  <2>2. q.at = "commit" /\ RequestSound(q)
    BY DEF CommitRow, ServiceInv
  <2>3. new.tenant = table[q.id].tenant /\ (contract.versioned => new.version = table[q.id].version + 1)
    BY <2>1, <2>2, ChangesSound, RowWritten
  <2>4. Succeeds(new, table[q.id])
    BY <2>1, <2>3 DEF Succeeds
  <2> HIDE DEF new, q
  <2>. QED
    BY <1>1, <2>1, <2>4, RequestEnds
<1>. QED
  BY <1>2, <1>3

LEMMA RemoveSound ==
    ASSUME ServiceInv, NEW r \in Requests, RemoveRow(r)
    PROVE  ServiceInv'
<1> DEFINE q == request[r]
<1>1. /\ UNCHANGED contract /\ q \in Underway /\ q.id \in RowIds
      /\ \A i \in RowIds : table[i].exists => table[i].ref # q.id
  BY DEF RemoveRow, ServiceInv, RequestSound, Over
<1>2. CASE UNCHANGED table
  <2>1. Conclude(r, "done") \/ Conclude(r, "failed")
    BY DEF RemoveRow
  <2>. QED
    BY <1>1, <1>2, <2>1, RequestEnds
<1>3. CASE ~UNCHANGED table
  <2>1. Conclude(r, "done") /\ table' = [table EXCEPT ![q.id] = Gone]
    BY <1>3 DEF RemoveRow
  <2>2. RefsSound'
    <3> SUFFICES ASSUME contract.tenant, NEW j \in RowIds, table'[j].exists, table'[j].ref # NoRef
                 PROVE  table'[table'[j].ref].exists /\ table'[table'[j].ref].tenant = table'[j].tenant
      BY <1>1 DEF RefsSound
    <3>1. table \in [RowIds -> Rows \cup {NoRow, Gone}]
      BY DEF ServiceInv
    <3>2. j # q.id /\ table'[j] = table[j]
      BY <1>1, <2>1, <3>1, NoRowIsNone
    <3>3. table[j] \in Rows
      BY <3>1, <3>2, NoRowIsNone
    <3>4. table[j].ref \in RowIds /\ table[j].ref # q.id
      BY <1>1, <3>2, <3>3 DEF Rows
    <3>. QED
      BY <2>1, <3>1, <3>2, <3>4 DEF ServiceInv, RefsSound
  <2>. QED
    BY <1>1, <2>1, <2>2, RequestEnds DEF Succeeds
<1>. QED
  BY <1>2, <1>3

LEMMA LoadSound ==
    ASSUME ServiceInv, NEW r \in Requests, LoadRow(r)
    PROVE  ServiceInv'
<1> DEFINE q == request[r]
           row == table[q.id]
           found == Visible(row, q.tenant, q.action \in {"delete", "restore"})
<1>1. /\ q.at = "load" /\ q \in Underway /\ RequestSound(q) /\ q.id \in RowIds /\ UNCHANGED <<contract, table>>
  BY DEF LoadRow, ServiceInv, RequestSound, Over
<1>2. CASE ~found \/ NothingToDo(q.action, row)
  <2>1. Conclude(r, "missing") \/ Conclude(r, "done")
    BY <1>2 DEF LoadRow
  <2>. QED
    BY <1>1, <2>1, RequestEnds
<1>3. CASE found /\ ~NothingToDo(q.action, row)
  <2> DEFINE k == [q EXCEPT !.item = row, !.at = "commit"]
  <2>1. request' = [request EXCEPT ![r] = k]
    BY <1>3 DEF LoadRow
  <2>2. row \in Rows /\ row # NoRow /\ q.action # "read"
    BY <1>1, <1>3, NoRowIsNone DEF Visible, ServiceInv, NothingToDo
  <2>3. /\ k \in Underway /\ k.at = "commit" /\ k.id = q.id /\ k.action = q.action
        /\ k.values = q.values /\ k.item = row /\ k.tenant = q.tenant
    BY <1>1, <2>2 DEF Underway
  <2>4. ItemSound(k)
    <3>1. (contract.tenant => row.tenant = q.tenant) /\ (q.action = "update" /\ contract.soft => ~row.deleted)
      BY <1>3 DEF Visible
    <3>2. row.version \in Nat
      BY <2>2 DEF Rows
    <3> HIDE DEF k
    <3>. QED
      BY <2>2, <2>3, <3>1, <3>2 DEF ItemSound
  <2>5. RequestSound(k)
    BY <1>1, <2>2, <2>3, <2>4 DEF RequestSound
  <2> HIDE DEF k
  <2>. QED
    BY <1>1, <2>1, <2>3, <2>5, RequestGoesOn
<1>. QED
  BY <1>2, <1>3

LEMMA ValidateSound ==
    ASSUME ServiceInv, NEW r \in Requests, Validate(r)
    PROVE  ServiceInv'
<1> DEFINE q == request[r]
           at == IF q.action = "create" THEN "insert" ELSE "load"
           k == [q EXCEPT !.at = at]
<1>1. q.at = "validate" /\ q \in Underway /\ RequestSound(q) /\ UNCHANGED <<contract, table>>
  BY DEF Validate, ServiceInv, Over
<1>2. Conclude(r, "refused") \/ request' = [request EXCEPT ![r] = k]
  BY DEF Validate, Continue
<1>3. /\ k \in Underway /\ k.at = at /\ k.id = q.id /\ k.action = q.action /\ k.values = q.values
  BY <1>1 DEF Underway
<1>4. RequestSound(k)
  BY <1>1, <1>3 DEF RequestSound
<1> HIDE DEF k
<1>. QED
  BY <1>1, <1>2, <1>3, <1>4, RequestGoesOn, RequestEnds

LEMMA AskSound ==
    ASSUME ServiceInv, NEW r \in Requests, NEW p \in Members, NEW action, NEW id, NEW values,
           \/ action = "update" /\ id \in RowIds /\ values \in Updates
           \/ action \in {"read", "delete", "restore"} /\ id \in RowIds /\ values = <<>>
           \/ action = "create" /\ id = NoRef /\ values \in Creations,
           Ask(r, p, action, id, values)
    PROVE  ServiceInv'
<1> DEFINE at == IF action \in {"create", "update"} THEN "validate" ELSE "load"
           k == [at |-> at, tenant |-> p.tenant, action |-> action, id |-> id, values |-> values, item |-> NoRow]
<1>1. Conclude(r, "refused") \/ request' = [request EXCEPT ![r] = k]
  BY DEF Ask
<1>2. UNCHANGED <<contract, table>>
  BY DEF Ask
<1>3. k \in Underway
  BY DEF Underway, MemberTenants
<1>4. RequestSound(k)
  BY DEF RequestSound
<1> HIDE DEF k
<1>. QED
  BY <1>1, <1>2, <1>3, <1>4, RequestGoesOn, RequestEnds

LEMMA ServiceInvNext == ServiceInv /\ [ServiceNext]_serviceVars => ServiceInv'
<1> SUFFICES ASSUME ServiceInv, [ServiceNext]_serviceVars PROVE ServiceInv'
  OBVIOUS
<1>1. CASE UNCHANGED serviceVars
  BY <1>1 DEF serviceVars, ServiceInv, RefsSound, RequestSound, ItemSound, Underway, Updates, Creations
<1>2. CASE ServiceNext
  <2> SUFFICES ASSUME NEW r \in Requests,
                      \/ \E p \in Members :
                            \/ \E i \in RowIds :
                                  \/ \E values \in Updates : Ask(r, p, "update", i, values)
                                  \/ Ask(r, p, "read", i, <<>>)
                                  \/ Ask(r, p, "delete", i, <<>>)
                                  \/ contract.soft /\ Ask(r, p, "restore", i, <<>>)
                            \/ \E values \in Creations : Ask(r, p, "create", NoRef, values)
                      \/ Validate(r) \/ InsertRow(r) \/ LoadRow(r) \/ CommitRow(r) \/ RemoveRow(r)
               PROVE  ServiceInv'
    BY <1>2 DEF ServiceNext
  <2>1. ASSUME NEW p \in Members, NEW i \in RowIds, NEW values \in Updates, Ask(r, p, "update", i, values)
        PROVE  ServiceInv'
    BY <2>1, AskSound
  <2>2. ASSUME NEW p \in Members, NEW i \in RowIds, NEW action \in {"read", "delete", "restore"},
               Ask(r, p, action, i, <<>>)
        PROVE  ServiceInv'
    BY <2>2, AskSound
  <2>3. ASSUME NEW p \in Members, NEW values \in Creations, Ask(r, p, "create", NoRef, values)
        PROVE  ServiceInv'
    BY <2>3, AskSound
  <2>. QED
    BY <2>1, <2>2, <2>3, ValidateSound, InsertSound, LoadSound, CommitSound, RemoveSound
<1>. QED
  BY <1>1, <1>2

\* the rows change when one of the requests writes
LEMMA SomebodyWrites ==
    ASSUME ServiceNext, table' # table
    PROVE  \E r \in Requests : InsertRow(r) \/ CommitRow(r) \/ RemoveRow(r)
<1>1. \A r, p, kind, i, values : Ask(r, p, kind, i, values) => table' = table
  BY DEF Ask
<1>2. \A r : Validate(r) \/ LoadRow(r) => table' = table
  BY DEF Validate, LoadRow
<1>. QED
  BY <1>1, <1>2, Zenon DEF ServiceNext

\* No update reaches a row that was deleted after it was loaded, in a module
\* with a version column, whatever else the requests do to the row.
THEOREM DeletionsStay == Spec => DeletedStaysAsItWas
<1>1. Init => ServiceInv
  BY ServiceInvInit DEF Init
<1>2. ServiceInv /\ [Next]_operationVars => ServiceInv'
  BY ServiceInvNext, ServicesApart
<1>3. ASSUME ServiceInv, ServiceNext, contract.soft, contract.versioned, NEW i \in RowIds,
             table[i].exists, table[i].deleted, table'[i].exists
      PROVE  table'[i].value = table[i].value /\ table'[i].ref = table[i].ref
  <2> SUFFICES ASSUME table'[i] # table[i]
               PROVE  table'[i].value = table[i].value /\ table'[i].ref = table[i].ref
    OBVIOUS
  <2>1. table \in [RowIds -> Rows \cup {NoRow, Gone}]
    BY <1>3 DEF ServiceInv
  <2>2. table[i] \in Rows
    BY <1>3, <2>1, NoRowIsNone
  <2>3. PICK r \in Requests : InsertRow(r) \/ CommitRow(r) \/ RemoveRow(r)
    BY <1>3, SomebodyWrites
  <2>4. CASE InsertRow(r)
    BY <2>1, <2>2, <2>4, NoRowIsNone DEF InsertRow
  <2>5. CASE RemoveRow(r)
    BY <1>3, <2>5 DEF RemoveRow
  <2>6. CASE CommitRow(r)
    <3> DEFINE q == request[r]
               new == Written(table[q.id], Changed(q))
    <3>1. /\ q \in Underway /\ q.id \in RowIds /\ q.action # "create" /\ ItemSound(q) /\ Unchanged(q)
          /\ table[q.id] \in Rows /\ table' = [table EXCEPT ![q.id] = new]
      BY <1>3, <2>6, CommitWrites
    <3>2. q.id = i
      BY <2>1, <3>1
    <3>3. q.item = table[i]
      BY <1>3, <3>1, <3>2 DEF ItemSound, Unchanged
    <3>4. q.action # "update"
      BY <1>3, <3>1, <3>3 DEF ItemSound
    <3>5. q.at = "commit" /\ RequestSound(q)
      BY <1>3, <2>6 DEF CommitRow, ServiceInv
    <3>6. DOMAIN Changed(q) = {"deleted"}
      BY <3>1, <3>4, <3>5, ChangesSound
    <3>7. new.value = table[i].value /\ new.ref = table[i].ref
      BY <3>1, <3>2, <3>5, <3>6, ChangesSound, RowWritten
    <3>8. table'[i] = new
      BY <2>1, <3>1, <3>2
    <3>. QED
      BY <3>7, <3>8
  <2>. QED
    BY <2>3, <2>4, <2>5, <2>6
<1>4. ServiceInv /\ [Next]_operationVars =>
         [contract.soft /\ contract.versioned =>
             \A i \in RowIds :
                 table[i].exists /\ table[i].deleted /\ table'[i].exists =>
                     table'[i].value = table[i].value /\ table'[i].ref = table[i].ref]_serviceVars
  BY <1>3, ServicesApart
<1>. QED
  BY <1>1, <1>2, <1>4, PTL DEF Spec, DeletedStaysAsItWas

\* A row is its tenant's: whatever is asked meanwhile, only that tenant's
\* requests change it, and it refers to rows of the tenant alone.
THEOREM RowsStayOfTheirTenant == Spec => RowsOfTheirTenant
<1>1. Init => ServiceInv
  BY ServiceInvInit DEF Init
<1>2. ServiceInv /\ [Next]_operationVars => ServiceInv'
  BY ServiceInvNext, ServicesApart
<1>3. ASSUME ServiceInv, ServiceInv', ServiceNext, contract.tenant, NEW i \in RowIds, table'[i] # table[i]
      PROVE  /\ \E r \in Requests :
                   /\ request'[r] # request[r]
                   /\ request[r].tenant = (IF table[i].exists THEN table[i] ELSE table'[i]).tenant
             /\ table[i].exists /\ table'[i].exists => table'[i].tenant = table[i].tenant
             /\ table'[i].exists /\ table'[i].ref # NoRef =>
                   table'[table'[i].ref].tenant = table'[i].tenant
  <2>1. table \in [RowIds -> Rows \cup {NoRow, Gone}] /\ request \in [Requests -> Underway \cup Over]
    BY <1>3 DEF ServiceInv
  <2>2. PICK r \in Requests : InsertRow(r) \/ CommitRow(r) \/ RemoveRow(r)
    BY <1>3, SomebodyWrites
  <2>3. table'[i].exists /\ table'[i].ref # NoRef => table'[table'[i].ref].tenant = table'[i].tenant
    <3>1. contract'.tenant
      BY <1>3, <2>2 DEF InsertRow, CommitRow, RemoveRow
    <3>. QED
      BY <1>3, <3>1 DEF ServiceInv, RefsSound
  <2>4. ASSUME NEW how, Conclude(r, how), request[r].at \in {"insert", "commit"}, how \in {"done", "failed"}
        PROVE  request'[r] # request[r]
    BY <2>1, <2>4 DEF Conclude
  <2>5. CASE InsertRow(r)
    <3>1. /\ request[r].at = "insert" /\ Conclude(r, "done") /\ ~table[i].exists
          /\ table'[i].tenant = request[r].tenant
      BY <1>3, <2>1, <2>5, NoRowIsNone DEF InsertRow
    <3>. QED
      BY <2>3, <2>4, <3>1
  <2>6. CASE CommitRow(r)
    <3> DEFINE q == request[r]
               new == Written(table[q.id], Changed(q))
    <3>1. /\ q \in Underway /\ q.id \in RowIds /\ q.action # "create" /\ ItemSound(q) /\ Conclude(r, "done")
          /\ table[q.id] \in Rows /\ table' = [table EXCEPT ![q.id] = new]
      BY <1>3, <2>6, CommitWrites
    <3>2. q.id = i /\ table[i].exists
      BY <1>3, <2>1, <3>1, NoRowIsNone
    <3>3. q.at = "commit" /\ RequestSound(q)
      BY <1>3, <2>6 DEF CommitRow, ServiceInv
    <3>4. new.tenant = table[i].tenant
      BY <3>1, <3>2, <3>3, ChangesSound, RowWritten
    <3>5. table[i].tenant = q.tenant
      BY <1>3, <3>1, <3>2 DEF ItemSound
    <3>6. table'[i].tenant = table[i].tenant
      BY <2>1, <3>1, <3>2, <3>4
    <3>. QED
      BY <2>3, <2>4, <3>1, <3>2, <3>3, <3>5, <3>6
  <2>7. CASE RemoveRow(r)
    <3>1. /\ request[r].at = "commit" /\ Conclude(r, "done") /\ request[r].id = i /\ ~table'[i].exists
          /\ request[r].id \in RowIds
      BY <1>3, <2>1, <2>7, NoRowIsNone DEF RemoveRow, ServiceInv, RequestSound
    <3>2. ItemSound(request[r])
      BY <1>3, <3>1 DEF ServiceInv, RequestSound
    <3>3. table[i].exists
      BY <1>3, <2>1, <2>7, <3>1, <3>2, NoRowIsNone DEF RemoveRow, ItemSound
    <3>4. request[r].tenant = table[i].tenant
      BY <1>3, <3>1, <3>2, <3>3 DEF ItemSound
    <3>. QED
      BY <2>3, <2>4, <3>1, <3>3, <3>4
  <2>. QED
    BY <2>2, <2>5, <2>6, <2>7
<1>4. ServiceInv /\ ServiceInv' /\ [Next]_operationVars =>
         [contract.tenant =>
             \A i \in RowIds :
                 table'[i] # table[i] =>
                     /\ \E r \in Requests :
                           /\ request'[r] # request[r]
                           /\ request[r].tenant = (IF table[i].exists THEN table[i] ELSE table'[i]).tenant
                     /\ table[i].exists /\ table'[i].exists => table'[i].tenant = table[i].tenant
                     /\ table'[i].exists /\ table'[i].ref # NoRef =>
                           table'[table'[i].ref].tenant = table'[i].tenant]_serviceVars
  BY <1>3, ServicesApart
<1>. QED
  BY <1>1, <1>2, <1>4, PTL DEF Spec, RowsOfTheirTenant

-----------------------------------------------------------------------------
(* The documents of an idea: what is built, and so what is saved, is a     *)
(* valid project as long as it is in its IDEA stage; a file is whole.      *)

Sound(p) ==
    /\ DOMAIN p = {"intent", "status", "stage"}
    /\ p.stage = "IDEA" => ValidProject(p)

SavedInv ==
    /\ \A p \in built : Sound(p)
    /\ \A w \in saving : DOMAIN w = {"at", "of"} /\ Sound(w.of)
    /\ \A content \in projectFile : content.whole = TRUE /\ Sound(content.of)

LEMMA SavedInvNext ==
    ASSUME SavedInv, [IdeaNext]_ideaVars
    PROVE  SavedInv'
<1>1. CASE UNCHANGED <<built, projectFile, saving>>
  BY <1>1 DEF SavedInv, Sound
<1>2. NormalizeIdea \/ ProposeIntake \/ ResolveClarification => UNCHANGED <<built, projectFile, saving>>
  BY DEF NormalizeIdea, ProposeIntake, ResolveClarification
<1>3. CASE ToProject
  <2>1. PICK s \in UNION {Rebuilt(r) : r \in idea} :
            /\ ValidProject(ProjectOf(s.current, "READY", "IDEA")) = TRUE
            /\ built' = {ProjectOf(s.current, "READY", "IDEA")}
    BY <1>3 DEF ToProject
  <2>2. Sound(ProjectOf(s.current, "READY", "IDEA"))
    <3>1. DOMAIN ProjectOf(s.current, "READY", "IDEA") = {"intent", "status", "stage"}
      BY DEF ProjectOf
    <3>. QED
      BY <2>1, <3>1 DEF Sound
  <2>. QED
    BY <1>3, <2>1, <2>2 DEF ToProject, SavedInv
<1>4. CASE MoveToPlan
  <2>1. PICK p \in built : built' = {[p EXCEPT !.status = "IN_PROGRESS", !.stage = "PLAN"]}
    BY <1>4 DEF MoveToPlan
  <2>2. Sound([p EXCEPT !.status = "IN_PROGRESS", !.stage = "PLAN"])
    BY DEF SavedInv, Sound
  <2>. QED
    BY <1>4, <2>1, <2>2 DEF MoveToPlan, SavedInv
<1>5. CASE Save
  <2>1. PICK p \in built : saving' = {[at |-> "made", of |-> p]}
    BY <1>5 DEF Save
  <2>2. DOMAIN [at |-> "made", of |-> p] = {"at", "of"} /\ [at |-> "made", of |-> p].of = p
    OBVIOUS
  <2>. QED
    BY <1>5, <2>1, <2>2 DEF Save, SavedInv
<1>6. CASE WriteBeside
  <2>1. PICK w \in saving : saving' = {[w EXCEPT !.at = "synced"]}
    BY <1>6 DEF WriteBeside
  <2>2. DOMAIN [w EXCEPT !.at = "synced"] = {"at", "of"} /\ [w EXCEPT !.at = "synced"].of = w.of
    BY DEF SavedInv
  <2>. QED
    BY <1>6, <2>1, <2>2 DEF WriteBeside, SavedInv
<1>7. CASE ReplaceProject
  <2>1. PICK w \in saving : projectFile' = {ContentOf(w.of)} /\ saving' = {}
    BY <1>7 DEF ReplaceProject
  <2>2. ContentOf(w.of).whole = TRUE /\ ContentOf(w.of).of = w.of
    BY DEF ContentOf
  <2>. QED
    BY <1>7, <2>1, <2>2 DEF ReplaceProject, SavedInv
<1>8. CASE SaveFails
  BY <1>8 DEF SaveFails, SavedInv
<1>. QED
  BY <1>1, <1>2, <1>3, <1>4, <1>5, <1>6, <1>7, <1>8 DEF IdeaNext, ideaVars

\* Whenever a save fails or is interrupted, and whatever was saved before it,
\* the file of a project in its IDEA stage loads.
THEOREM SavedProjectLoads == Spec => []SavedReadsBack
<1>1. Init => SavedInv
  BY DEF Init, IdeaInit, SavedInv
<1>2. SavedInv /\ [Next]_operationVars => SavedInv'
  BY SavedInvNext, ServicesApart
<1>3. SavedInv => SavedReadsBack
  BY DEF SavedInv, Sound, SavedReadsBack, Loads
<1>. QED
  BY <1>1, <1>2, <1>3, PTL DEF Spec

(* An intake cites what was said: the request until an answer settles the  *)
(* field, and then that answer.                                            *)
Grounded(s, f) ==
    \A v \in s.current.fields[f] :
        v.evidence \subseteq
            IF Settled(s, f) = {} THEN s.initial.request[1].says
            ELSE s.history[LastSettled(s, f)].answer.said.says
\* one of the answers that settled a field is the last
HasLast(s, f) ==
    Settled(s, f) # {} => \E i \in Settled(s, f) : \A j \in Settled(s, f) : j <= i
GroundedInv ==
    \A s \in idea :
        /\ \E S : s.history \in Seq(S)
        /\ DOMAIN s.current.fields = IntakeFields
        /\ \A f \in IntakeFields : Grounded(s, f) /\ HasLast(s, f)

\* at the start everything cites the request
LEMMA StartGrounded ==
    ASSUME NEW draft, NEW u, draft.request = <<Words(u)>>, DOMAIN draft.fields = IntakeFields,
           \A v \in Standing(draft) : ValidValue(v, draft.request, MaxValue),
           NEW s, s = Start(Evaluated(draft))
    PROVE  /\ \E S : s.history \in Seq(S)
           /\ DOMAIN s.current.fields = IntakeFields
           /\ \A f \in IntakeFields : Grounded(s, f) /\ HasLast(s, f)
<1>1. s.history = <<>> /\ s.current.fields = draft.fields /\ s.initial.request = <<Words(u)>>
  BY DEF Start, Evaluated
<1>2. s.history \in Seq({})
  BY <1>1
<1>3. ASSUME NEW f \in IntakeFields, NEW v \in draft.fields[f]
      PROVE  v.evidence \subseteq Words(u).says
  <2>1. ValidValue(v, <<Words(u)>>, MaxValue)
    BY <1>3 DEF Standing
  <2>2. ASSUME NEW t \in v.evidence PROVE t \in Words(u).says
    <3>1. Quoted(t, <<Words(u)>>)
      BY <2>1 DEF ValidValue
    <3>. QED
      BY <3>1 DEF Quoted
  <2>. QED
    BY <2>2
<1>4. \A f : Settled(s, f) = {}
  BY <1>1 DEF Settled
<1>5. s.initial.request[1].says = Words(u).says
  BY <1>1
<1>. QED
  BY <1>1, <1>2, <1>3, <1>4, <1>5 DEF Grounded, HasLast

LEMMA Appended ==
    ASSUME NEW S, NEW h \in Seq(S), NEW e
    PROVE  /\ Append(h, e) \in Seq(S \cup {e})
           /\ DOMAIN Append(h, e) = DOMAIN h \cup {Len(h) + 1}
           /\ Append(h, e)[Len(h) + 1] = e /\ DOMAIN h = 1 .. Len(h) /\ Len(h) \in Nat
           /\ \A i \in DOMAIN h : Append(h, e)[i] = h[i]
<1>1. h \in Seq(S \cup {e}) /\ e \in S \cup {e} /\ Len(h) \in Nat /\ DOMAIN h = 1 .. Len(h)
  OBVIOUS
<1>2. Len(Append(h, e)) = Len(h) + 1 /\ Append(h, e) \in Seq(S \cup {e})
  BY <1>1
<1>. QED
  BY <1>1, <1>2

LEMMA ResolvedGrounded ==
    ASSUME NEW s, NEW a \in AnswersTo(s), Resolvable(s, a),
           NEW S, s.history \in Seq(S), DOMAIN s.current.fields = IntakeFields,
           \A f \in IntakeFields : Grounded(s, f) /\ HasLast(s, f),
           NEW t, t = Resolved(s, a)
    PROVE  /\ \E T : t.history \in Seq(T)
           /\ DOMAIN t.current.fields = IntakeFields
           /\ \A f \in IntakeFields : Grounded(t, f) /\ HasLast(t, f)
<1> DEFINE e == Entry(s, a)
           r == a.requirement
           n == Len(s.history) + 1
           field == IF Settles(s, a) THEN Explicit(a)
                    ELSE IF Withdraws(s, a) THEN Cleared(s.current, r) ELSE s.current.fields[r]
<1>1. t.history = Append(s.history, e) /\ t.initial = s.initial
  BY DEF Resolved
<1>2. t.current.fields = [s.current.fields EXCEPT ![r] = field] /\ r \in IntakeFields
  BY DEF Resolved, Evaluated, Draft, Resolvable
<1>3. /\ DOMAIN t.history = DOMAIN s.history \cup {n} /\ t.history[n] = e /\ n \in Nat
      /\ DOMAIN s.history = 1 .. n - 1
      /\ \A i \in DOMAIN s.history : t.history[i] = s.history[i]
      /\ t.history \in Seq(S \cup {e})
  BY <1>1, Appended
<1>4. /\ e.answer = a
      /\ e.accepted = IF Settles(s, a) THEN a.values ELSE {}
  BY DEF Entry
<1> HIDE DEF e
<1>5. ASSUME NEW f \in IntakeFields, f # r \/ e.accepted = {}
      PROVE  /\ Settled(t, f) = Settled(s, f)
             /\ LastSettled(t, f) = LastSettled(s, f)
             /\ \A i \in Settled(s, f) : t.history[i] = s.history[i]
  <2>1. n \notin Settled(t, f)
    BY <1>3, <1>4, <1>5 DEF Settled
  <2>2. Settled(t, f) = Settled(s, f)
    BY <1>3, <2>1 DEF Settled
  <2>3. LastSettled(t, f) = LastSettled(s, f)
    BY <2>2 DEF LastSettled
  <2>. QED
    BY <1>3, <2>2, <2>3 DEF Settled
<1>6. ASSUME NEW f \in IntakeFields, Settled(s, f) # {} PROVE LastSettled(s, f) \in Settled(s, f)
  BY <1>6 DEF LastSettled, HasLast
<1>7. ASSUME NEW f \in IntakeFields, f # r \/ e.accepted = {}, t.current.fields[f] \subseteq s.current.fields[f]
      PROVE  Grounded(t, f)
  <2>1. Grounded(s, f)
    OBVIOUS
  <2>2. CASE Settled(s, f) = {}
    BY <1>1, <1>5, <1>7, <2>1, <2>2 DEF Grounded
  <2>3. CASE Settled(s, f) # {}
    BY <1>5, <1>6, <1>7, <2>1, <2>3 DEF Grounded
  <2>. QED
    BY <2>2, <2>3
<1>8. ASSUME NEW f \in IntakeFields PROVE Grounded(t, f)
  <2>1. CASE f # r
    BY <1>2, <1>7, <2>1
  <2>2. CASE f = r /\ ~Settles(s, a)
    <3>1. field \subseteq s.current.fields[r]
      BY <2>2 DEF Cleared
    <3>. QED
      BY <1>2, <1>4, <1>7, <2>2, <3>1
  <2>3. CASE f = r /\ Settles(s, a)
    <3>1. t.current.fields[f] = Explicit(a)
      BY <1>2, <2>3
    <3> SUFFICES ASSUME NEW v \in Explicit(a) PROVE
            v.evidence \subseteq
                IF Settled(t, f) = {} THEN t.initial.request[1].says
                ELSE t.history[LastSettled(t, f)].answer.said.says
      BY <3>1 DEF Grounded
    <3>2. a.values # {} /\ v.evidence = a.evidence
      BY DEF Explicit, IntentValue
    <3>3. a.evidence \subseteq a.said.says
      BY DEF Resolvable, ValidAnswer, Cited
    <3>4. n \in Settled(t, f)
      BY <1>3, <1>4, <2>3, <3>2 DEF Settled
    <3>5. \A j \in Settled(t, f) : j <= n /\ (j >= n => j = n)
      BY <1>3 DEF Settled
    <3>6. LastSettled(t, f) = n
      BY <3>4, <3>5, <1>3 DEF LastSettled
    <3>. QED
      BY <1>3, <1>4, <3>2, <3>3, <3>4, <3>6
  <2>. QED
    BY <2>1, <2>2, <2>3
<1>9. ASSUME NEW f \in IntakeFields PROVE HasLast(t, f)
  <2>1. CASE f # r \/ e.accepted = {}
    BY <1>5, <2>1 DEF HasLast
  <2>2. CASE f = r /\ e.accepted # {}
    <3>1. n \in Settled(t, f) /\ \A j \in Settled(t, f) : j <= n
      BY <1>3, <1>4, <2>2 DEF Settled
    <3>. QED
      BY <3>1 DEF HasLast
  <2>. QED
    BY <2>1, <2>2
<1>. QED
  BY <1>2, <1>3, <1>8, <1>9

LEMMA GroundedInvNext ==
    ASSUME GroundedInv, [IdeaNext]_ideaVars
    PROVE  GroundedInv'
<1>1. CASE UNCHANGED idea
  BY <1>1 DEF GroundedInv, Grounded, HasLast, Settled, LastSettled
<1>2. CASE NormalizeIdea
  <2>1. PICK u \in Utterances, inferred \in BOOLEAN : \E found \in FoundBy(u, inferred) :
            /\ ValidIntake(NormalizedIdea(u, found, inferred)) = TRUE
            /\ idea' = {Start(Evaluated(NormalizedIdea(u, found, inferred)))}
    BY <1>2 DEF NormalizeIdea
  <2>2. PICK found \in FoundBy(u, inferred) :
            /\ ValidIntake(NormalizedIdea(u, found, inferred)) = TRUE
            /\ idea' = {Start(Evaluated(NormalizedIdea(u, found, inferred)))}
    BY <2>1
  <2> DEFINE draft == NormalizedIdea(u, found, inferred)
  <2>3. draft.request = <<Words(u)>> /\ DOMAIN draft.fields = IntakeFields
    BY DEF NormalizedIdea
  <2> HIDE DEF draft
  <2>4. \A v \in Standing(draft) : ValidValue(v, draft.request, MaxValue)
    BY <2>2 DEF ValidIntake, draft
  <2>5. idea' = {Start(Evaluated(draft))}
    BY <2>2 DEF draft
  <2>. QED
    BY <2>3, <2>4, <2>5, StartGrounded DEF GroundedInv
<1>3. CASE ProposeIntake
  <2>1. PICK u \in Utterances : \E draft \in IdeaCandidates :
            /\ draft.request = <<Words(u)>>
            /\ ReadableIntake(Evaluated(draft)) = TRUE
            /\ idea' = {Start(Evaluated(draft))}
    BY <1>3 DEF ProposeIntake
  <2>2. PICK draft \in IdeaCandidates :
            /\ draft.request = <<Words(u)>>
            /\ ReadableIntake(Evaluated(draft)) = TRUE
            /\ idea' = {Start(Evaluated(draft))}
    BY <2>1
  <2>3. DOMAIN draft.fields = IntakeFields
    BY IdeaRecordsAssumption
  <2>4. \A v \in Standing(draft) : ValidValue(v, draft.request, MaxValue)
    BY <2>2 DEF ReadableIntake, Standing, Evaluated
  <2>. QED
    BY <2>2, <2>3, <2>4, StartGrounded DEF GroundedInv
<1>4. CASE ResolveClarification
  <2>1. PICK s \in idea : \E a \in AnswersTo(s) : Resolvable(s, a) /\ idea' = {Resolved(s, a)}
    BY <1>4 DEF ResolveClarification
  <2>2. PICK a \in AnswersTo(s) : Resolvable(s, a) /\ idea' = {Resolved(s, a)}
    BY <2>1
  <2>. QED
    BY <2>2, ResolvedGrounded DEF GroundedInv
<1>5. ToProject \/ MoveToPlan \/ Save \/ WriteBeside \/ ReplaceProject \/ SaveFails => UNCHANGED idea
  BY DEF ToProject, MoveToPlan, Save, WriteBeside, ReplaceProject, SaveFails
<1>. QED
  BY <1>1, <1>2, <1>3, <1>4, <1>5 DEF IdeaNext, ideaVars

\* However often a field is settled, withdrawn or disputed, what stands in it
\* cites the answer that settled it last and nothing that was said before.
THEOREM ValuesGrounded == Spec => []GroundedInWords
<1>1. Init => GroundedInv
  BY DEF Init, IdeaInit, GroundedInv
<1>2. GroundedInv /\ [Next]_operationVars => GroundedInv'
  BY GroundedInvNext, ServicesApart
<1>3. GroundedInv => GroundedInWords
  BY DEF GroundedInv, Grounded, GroundedInWords
<1>. QED
  BY <1>1, <1>2, <1>3, PTL DEF Spec

(* What an idea's document reads back as.                                  *)
IsFunction(f) == f = [i \in DOMAIN f |-> f[i]]
IsReplay(f, initial, history, n) ==
    /\ IsFunction(f) /\ DOMAIN f = 0 .. n
    /\ f[0] = {Start(initial)}
    /\ \A i \in 1 .. n : f[i] = Replay(f[i - 1], history[i])

LEMMA ReplayExists ==
    ASSUME NEW initial, NEW history, NEW n \in Nat
    PROVE  \E f : IsReplay(f, initial, history, n)
<1> DEFINE S == {k \in Nat : \E f : IsReplay(f, initial, history, k)}
<1>1. 0 \in S
  <2> DEFINE f == [i \in 0 .. 0 |-> {Start(initial)}]
  <2>1. IsReplay(f, initial, history, 0)
    BY DEF IsReplay, IsFunction
  <2> HIDE DEF f
  <2>. QED
    BY <2>1
<1>2. ASSUME NEW k \in Nat, k \in S PROVE k + 1 \in S
  <2>1. PICK f : IsReplay(f, initial, history, k)
    BY <1>2
  <2> DEFINE g == [i \in 0 .. k + 1 |-> IF i = k + 1 THEN Replay(f[k], history[k + 1]) ELSE f[i]]
  <2>2. /\ \A i \in 0 .. k : g[i] = f[i]
        /\ g[k + 1] = Replay(f[k], history[k + 1])
        /\ DOMAIN g = 0 .. k + 1 /\ IsFunction(g)
    BY DEF IsFunction
  <2> HIDE DEF g
  <2>3. ASSUME NEW i \in 1 .. k + 1 PROVE g[i] = Replay(g[i - 1], history[i])
    <3>1. CASE i = k + 1
      BY <2>2, <3>1
    <3>2. CASE i \in 1 .. k
      <4>1. g[i] = f[i] /\ g[i - 1] = f[i - 1]
        BY <2>2, <3>2
      <4>. QED
        BY <2>1, <3>2, <4>1 DEF IsReplay
    <3>. QED
      BY <3>1, <3>2
  <2>4. g[0] = {Start(initial)}
    BY <2>1, <2>2 DEF IsReplay
  <2>5. IsReplay(g, initial, history, k + 1)
    BY <2>2, <2>3, <2>4 DEF IsReplay
  <2> HIDE DEF IsReplay
  <2>. QED
    BY <2>5
<1> HIDE DEF S
<1>3. Nat \subseteq S
  BY <1>1, <1>2, EveryNumber
<1>. QED
  BY <1>3 DEF S

\* the function that replays is the one that is defined
LEMMA ReplayedOnce ==
    ASSUME NEW initial, NEW S, NEW h \in Seq(S)
    PROVE  \E f : IsReplay(f, initial, h, Len(h)) /\ Replayed(initial, h) = f[Len(h)]
<1> DEFINE Body(f) == [i \in 0 .. Len(h) |-> IF i = 0 THEN {Start(initial)} ELSE Replay(f[i - 1], h[i])]
           f == CHOOSE f : f = Body(f)
<1>1. PICK g : IsReplay(g, initial, h, Len(h))
  <2>1. Len(h) \in Nat
    OBVIOUS
  <2>. QED
    BY <2>1, ReplayExists
<1>2. g = Body(g)
  <2>1. \A i \in 0 .. Len(h) : g[i] = IF i = 0 THEN {Start(initial)} ELSE Replay(g[i - 1], h[i])
    BY <1>1 DEF IsReplay
  <2>. QED
    BY <1>1, <2>1, Zenon DEF IsReplay, IsFunction
<1>3. f = Body(f)
  BY <1>2, Zenon
<1>4. Replayed(initial, h) = f[Len(h)]
  BY Zenon DEF Replayed
<1>5. \A k : DOMAIN Body(k) = 0 .. Len(h) /\ IsFunction(Body(k))
  BY DEF IsFunction
<1>6. \A k : Body(k)[0] = {Start(initial)} /\ \A i \in 1 .. Len(h) : Body(k)[i] = Replay(k[i - 1], h[i])
  OBVIOUS
<1> HIDE DEF f, Body
<1>7. IsReplay(f, initial, h, Len(h))
  BY <1>3, <1>5, <1>6, Zenon DEF IsReplay
<1>. QED
  BY <1>4, <1>7

LEMMA ReplayedNothing ==
    ASSUME NEW initial
    PROVE  Replayed(initial, <<>>) = {Start(initial)}
<1>1. PICK f : IsReplay(f, initial, <<>>, Len(<<>>)) /\ Replayed(initial, <<>>) = f[Len(<<>>)]
  <2>1. <<>> \in Seq({})
    OBVIOUS
  <2>. QED
    BY <2>1, ReplayedOnce
<1>. QED
  BY <1>1 DEF IsReplay

LEMMA ReplayedAppend ==
    ASSUME NEW initial, NEW S, NEW h \in Seq(S), NEW e
    PROVE  Replayed(initial, Append(h, e)) = Replay(Replayed(initial, h), e)
<1> DEFINE n == Len(h)
           k == Append(h, e)
<1>1. /\ k \in Seq(S \cup {e}) /\ Len(k) = n + 1 /\ k[n + 1] = e /\ n \in Nat
      /\ \A i \in 1 .. n : k[i] = h[i]
  <2>1. h \in Seq(S \cup {e})
    OBVIOUS
  <2>. QED
    BY <2>1
<1> HIDE DEF k, n
<1>2. PICK f : IsReplay(f, initial, h, n) /\ Replayed(initial, h) = f[n]
  BY ReplayedOnce DEF n
<1>3. PICK g : IsReplay(g, initial, k, n + 1) /\ Replayed(initial, k) = g[n + 1]
  BY <1>1, ReplayedOnce
<1> DEFINE T == {i \in Nat : i <= n => g[i] = f[i]}
<1>4. 0 \in T
  <2>1. f[0] = {Start(initial)} /\ g[0] = {Start(initial)}
    BY <1>1, <1>2, <1>3 DEF IsReplay
  <2>. QED
    BY <2>1
<1>5. ASSUME NEW i \in Nat, i \in T PROVE i + 1 \in T
  <2> SUFFICES ASSUME i + 1 <= n PROVE g[i + 1] = f[i + 1]
    OBVIOUS
  <2>1. g[i] = f[i] /\ k[i + 1] = h[i + 1]
    BY <1>1, <1>5
  <2>2. g[i + 1] = Replay(g[i], k[i + 1])
    BY <1>1, <1>3 DEF IsReplay
  <2>3. f[i + 1] = Replay(f[i], h[i + 1])
    BY <1>1, <1>2 DEF IsReplay
  <2>. QED
    BY <2>1, <2>2, <2>3
<1>6. g[n] = f[n]
  <2> HIDE DEF T
  <2>1. Nat \subseteq T
    BY <1>4, <1>5, EveryNumber
  <2>. QED
    BY <1>1, <2>1 DEF T
<1>7. g[n + 1] = Replay(g[n], k[n + 1])
  BY <1>1, <1>3 DEF IsReplay
<1>. QED
  BY <1>1, <1>2, <1>3, <1>6, <1>7 DEF k

\* what stands in a document can be read, answer by answer
ReadableSession(s) ==
    /\ \E S : s.history \in Seq(S)
    /\ Len(s.history) <= MaxResolutions
    /\ DOMAIN s.current.fields = IntakeFields
    /\ \A f \in IntakeFields : IsFiniteSet(s.current.fields[f])
    /\ ReadableIntake(s.initial) /\ ReadableIntake(s.current)
    /\ \A i \in DOMAIN s.history : ReadableEntry(s.history[i])
    /\ \A c \in s.conflicts : ReadableConflict(c) /\ c.requirement \in IntakeFields
    /\ \A c, d \in s.conflicts : c.requirement = d.requirement => c = d
    /\ Replayed(s.initial, s.history) = {s}
ReadableInv == \A s \in idea : ReadableSession(s)

LEMMA EvaluatedReadable ==
    ASSUME NEW draft, ValidIntake(draft)
    PROVE  ReadableIntake(Evaluated(draft))
<1> DEFINE e == Evaluated(draft)
<1>1. /\ e.request = draft.request /\ e.fields = draft.fields /\ e.questions = draft.questions
      /\ e.assumptions = draft.assumptions /\ e.blockers = Blockers(draft)
  BY DEF Evaluated
<1> HIDE DEF e
<1>2. Standing(e) = Standing(draft) /\ Blockers(e) = Blockers(draft)
  BY <1>1 DEF Standing, Blockers
<1>3. Permitted(e)
  BY <1>1 DEF ValidIntake, Permitted
<1>4. ValidIntake(e)
  BY <1>1, <1>2, <1>3 DEF ValidIntake
<1>. QED
  BY <1>1, <1>2, <1>4 DEF ReadableIntake, ValidIntake, e

LEMMA FewerImages ==
    ASSUME NEW values, IsFiniteSet(values)
    PROVE  IsFiniteSet(Held(values)) /\ Cardinality(Held(values)) <= Cardinality(values)
<1> DEFINE f == [v \in values |-> v.value]
<1>1. f \in Surjection(values, Held(values))
  BY DEF Surjection, Held
<1>. QED
  BY <1>1, FS_Surjection

\* the values of a field can be read as the texts of an answer
LEMMA HeldIsCanonical ==
    ASSUME NEW intake, ReadableIntake(intake), NEW f \in IntakeFields, IsFiniteSet(intake.fields[f])
    PROVE  CanonicalTexts(Held(intake.fields[f]), MaxDescription)
<1> DEFINE values == intake.fields[f]
<1>1. DistinctValues(values)
  BY DEF ReadableIntake, ValidIntake, Permitted
<1>2. \A v \in values : ValidText(v.value, MaxValue)
  <2> SUFFICES ASSUME NEW v \in values PROVE ValidText(v.value, MaxValue)
    OBVIOUS
  <2>1. v \in Standing(intake)
    BY DEF Standing
  <2>. QED
    BY <2>1 DEF ReadableIntake, ValidValue
<1>3. \A v \in values : ValidText(v.value, MaxDescription)
  <2>1. MaxValue \in Nat /\ MaxDescription \in Nat /\ MaxValue <= MaxDescription
    BY DEF MaxValue, MaxDescription
  <2>2. 1 .. MaxValue \subseteq 1 .. MaxDescription
    BY <2>1
  <2>. QED
    BY <1>2, <2>2 DEF ValidText
<1>4. Cardinality(Held(values)) <= MaxItems
  <2>1. /\ Cardinality(values) \in Nat /\ Cardinality(Held(values)) \in Nat
        /\ Cardinality(Held(values)) <= Cardinality(values)
    BY FewerImages, FS_CardinalityType
  <2>. QED
    BY <1>1, <2>1 DEF DistinctValues, MaxItems
<1>5. Spelled(Held(values))
  BY <1>1 DEF DistinctValues, Spelled, Held
<1>. QED
  BY <1>3, <1>4, <1>5 DEF CanonicalTexts, Held

LEMMA StartReadable ==
    ASSUME NEW intake, ReadableIntake(intake), DOMAIN intake.fields = IntakeFields,
           \A f \in IntakeFields : IsFiniteSet(intake.fields[f])
    PROVE  ReadableSession(Start(intake))
<1> DEFINE s == Start(intake)
<1>1. s.initial = intake /\ s.current = intake /\ s.conflicts = {} /\ s.history = <<>>
  BY DEF Start
<1>2. Replayed(s.initial, s.history) = {s}
  BY <1>1, ReplayedNothing
<1>3. s.history \in Seq({}) /\ Len(s.history) = 0 /\ DOMAIN s.history = {}
  BY <1>1
<1>4. 0 <= MaxResolutions
  BY IdeaRecordsAssumption
<1> HIDE DEF s
<1>5. ReadableSession(s)
  BY <1>1, <1>2, <1>3, <1>4 DEF ReadableSession
<1>. QED
  BY <1>5 DEF s

LEMMA EmptyIsCanonical ==
    ASSUME NEW maximum
    PROVE  CanonicalTexts({}, maximum)
BY FS_EmptySet DEF CanonicalTexts, Spelled, MaxItems

LEMMA EntryReadable ==
    ASSUME NEW s, ReadableSession(s), NEW a, Resolvable(s, a)
    PROVE  ReadableEntry(Entry(s, a))
<1> DEFINE e == Entry(s, a)
<1>1. /\ e.answer = a /\ e.outcome \in {"accepted", "conflict"}
      /\ e.previous = Held(s.current.fields[a.requirement])
      /\ e.accepted \in {a.values, {}} /\ e.rejected \in {a.values, {}}
      /\ e.before.assumed = Held(s.current.assumptions)
      /\ e.after.assumed = Held(Draft(s, a).assumptions)
  BY DEF Entry, State, Evaluated
<1>2. CanonicalTexts(e.previous, MaxDescription)
  BY <1>1, HeldIsCanonical DEF ReadableSession, Resolvable
<1>3. CanonicalTexts(a.values, MaxDescription)
  BY DEF Resolvable, ValidAnswer
<1>4. CanonicalTexts(e.accepted, MaxDescription) /\ CanonicalTexts(e.rejected, MaxDescription)
  BY <1>1, <1>3, EmptyIsCanonical
<1>5. CanonicalTexts(e.before.assumed, MaxDescription) /\ CanonicalTexts(e.after.assumed, MaxDescription)
  BY <1>1 DEF Resolvable, ValidState
<1>6. ValidAnswer(a)
  BY DEF Resolvable
<1> HIDE DEF e
<1>. QED
  BY <1>1, <1>2, <1>4, <1>5, <1>6 DEF ReadableEntry, e

LEMMA ConflictReadable ==
    ASSUME NEW s, ReadableSession(s), NEW a, Resolvable(s, a)
    PROVE  /\ \A c \in Conflicts(s, a) : ReadableConflict(c) /\ c.requirement \in IntakeFields
           /\ \A c, d \in Conflicts(s, a) : c.requirement = d.requirement => c = d
<1> DEFINE n == [requirement |-> a.requirement, target |-> a.target, proposed |-> a.values,
                 existing |-> Held(s.current.fields[a.requirement]), said |-> a.said]
<1>1. CASE ~Disputes(s, a)
  BY <1>1 DEF Conflicts, ReadableSession
<1>2. CASE Disputes(s, a)
  <2>1. Conflicts(s, a) = s.conflicts \cup {n}
    BY <1>2 DEF Conflicts, Disputes, Answerable
  <2>2. \A c \in s.conflicts : c.requirement # n.requirement
    BY <1>2 DEF Disputes, Answerable, Disputed
  <2>3. n.existing # {} /\ n.proposed # {}
    BY <1>2 DEF Disputes, Answerable, Resolvable, ValidAnswer
  <2>4. CanonicalTexts(n.existing, MaxDescription) /\ n.requirement \in IntakeFields
    BY HeldIsCanonical DEF ReadableSession, Resolvable
  <2>5. CanonicalTexts(n.proposed, MaxDescription) /\ ValidText(n.said, MaxAnswer)
    BY DEF Resolvable, ValidAnswer
  <2> HIDE DEF n
  <2>6. ReadableConflict(n)
    BY <2>3, <2>4, <2>5 DEF ReadableConflict
  <2>. QED
    BY <2>1, <2>2, <2>4, <2>6 DEF ReadableSession
<1>. QED
  BY <1>1, <1>2

LEMMA ResolvedReadable ==
    ASSUME NEW s, ReadableSession(s), NEW a \in AnswersTo(s), Resolvable(s, a)
    PROVE  ReadableSession(Resolved(s, a))
<1> DEFINE t == Resolved(s, a)
           e == Entry(s, a)
           r == a.requirement
<1>1. /\ t.initial = s.initial /\ t.current = Evaluated(Draft(s, a)) /\ t.conflicts = Conflicts(s, a)
      /\ t.history = Append(s.history, e)
  BY DEF Resolved
<1>2. PICK S : s.history \in Seq(S)
  BY DEF ReadableSession
<1>3. /\ t.history \in Seq(S \cup {e}) /\ Len(t.history) = Len(s.history) + 1
      /\ DOMAIN t.history = DOMAIN s.history \cup {Len(s.history) + 1}
      /\ t.history[Len(s.history) + 1] = e
      /\ \A i \in DOMAIN s.history : t.history[i] = s.history[i]
  BY <1>1, <1>2, Appended
<1>4. Len(t.history) <= MaxResolutions
  <2>1. Len(s.history) \in Nat
    BY <1>2
  <2>. QED
    BY <1>3, <2>1, IdeaRecordsAssumption DEF Resolvable
<1>5. ReadableIntake(t.current)
  BY <1>1, EvaluatedReadable DEF Resolvable
<1>6. DOMAIN t.current.fields = IntakeFields /\ \A f \in IntakeFields : IsFiniteSet(t.current.fields[f])
  <2> DEFINE field == IF Settles(s, a) THEN Explicit(a)
                      ELSE IF Withdraws(s, a) THEN Cleared(s.current, r) ELSE s.current.fields[r]
  <2>1. t.current.fields = [s.current.fields EXCEPT ![r] = field] /\ r \in IntakeFields
    BY <1>1 DEF Evaluated, Draft, Resolvable
  <2>2. IsFiniteSet(Explicit(a))
    <3>1. a.values = {} \/ \E x \in Texts : a.values = {x}
      BY DEF AnswersTo
    <3>2. Explicit(a) = {} \/ \E x : Explicit(a) = {x}
      BY <3>1 DEF Explicit
    <3>. QED
      BY <3>2, FS_EmptySet, FS_Singleton
  <2>3. IsFiniteSet(field)
    BY <2>1, <2>2, FS_EmptySet DEF Cleared, ReadableSession
  <2> HIDE DEF field
  <2>. QED
    BY <2>1, <2>3 DEF ReadableSession
<1>7. \A i \in DOMAIN t.history : ReadableEntry(t.history[i])
  BY <1>3, EntryReadable DEF ReadableSession
<1>8. /\ \A c \in t.conflicts : ReadableConflict(c) /\ c.requirement \in IntakeFields
      /\ \A c, d \in t.conflicts : c.requirement = d.requirement => c = d
  BY <1>1, ConflictReadable
<1>9. Replayed(t.initial, t.history) = {t}
  <2>1. Replayed(t.initial, t.history) = Replay(Replayed(s.initial, s.history), e)
    BY <1>1, <1>2, ReplayedAppend
  <2>2. Replayed(s.initial, s.history) = {s} /\ e.answer = a
    BY DEF ReadableSession, Entry
  <2>3. Replay({s}, e) = {Resolved(s, a)}
    BY <2>2 DEF Replay
  <2>. QED
    BY <2>1, <2>2, <2>3
<1> HIDE DEF t, e
<1>10. ReadableSession(t)
  BY <1>1, <1>3, <1>4, <1>5, <1>6, <1>7, <1>8, <1>9 DEF ReadableSession
<1>. QED
  BY <1>10 DEF t

LEMMA FoundIsFinite ==
    ASSUME NEW u \in Utterances, NEW inferred \in BOOLEAN, NEW found \in FoundBy(u, inferred),
           NEW f \in IntakeFields
    PROVE  IsFiniteSet(Found(u, found, f))
<1>1. CASE f = "product_description"
  BY <1>1, FS_Singleton DEF Found
<1>2. CASE f # "product_description"
  <2>1. IsFiniteSet(u.says)
    BY IdeaRecordsAssumption
  <2> DEFINE Q == {"explicit", "derived"}
  <2>2. IsFiniteSet(Q)
    <3>1. IsFiniteSet({"explicit"})
      BY FS_Singleton
    <3>2. IsFiniteSet({"explicit"} \cup {"derived"})
      BY <3>1, FS_AddElement
    <3>3. {"explicit"} \cup {"derived"} = Q
      OBVIOUS
    <3>. QED
      BY <3>2, <3>3
  <2>3. IsFiniteSet(u.says \X Q)
    BY <2>1, <2>2, FS_Product
  <2>4. found[f] \subseteq u.says \X Q
    BY DEF FoundBy
  <2>5. IsFiniteSet(found[f])
    BY <2>3, <2>4, FS_Subset
  <2> DEFINE g == [m \in found[f] |-> IntentValue(Wording(f, m[1]), m[2], {m[1]})]
  <2>6. g \in Surjection(found[f], Found(u, found, f))
    BY <1>2 DEF Found, Surjection
  <2>. QED
    BY <2>5, <2>6, FS_Surjection
<1>. QED
  BY <1>1, <1>2

LEMMA ReadableInvNext ==
    ASSUME ReadableInv, [IdeaNext]_ideaVars
    PROVE  ReadableInv'
<1>1. CASE UNCHANGED idea
  BY <1>1 DEF ReadableInv
<1>2. CASE NormalizeIdea
  <2>1. PICK u \in Utterances, inferred \in BOOLEAN : \E found \in FoundBy(u, inferred) :
            /\ ValidIntake(NormalizedIdea(u, found, inferred)) = TRUE
            /\ idea' = {Start(Evaluated(NormalizedIdea(u, found, inferred)))}
    BY <1>2 DEF NormalizeIdea
  <2>2. PICK found \in FoundBy(u, inferred) :
            /\ ValidIntake(NormalizedIdea(u, found, inferred)) = TRUE
            /\ idea' = {Start(Evaluated(NormalizedIdea(u, found, inferred)))}
    BY <2>1
  <2> DEFINE draft == NormalizedIdea(u, found, inferred)
  <2>3. draft.fields = [f \in IntakeFields |-> Found(u, found, f)]
    BY DEF NormalizedIdea
  <2> HIDE DEF draft
  <2>4. DOMAIN draft.fields = IntakeFields /\ \A f \in IntakeFields : IsFiniteSet(draft.fields[f])
    BY <2>3, FoundIsFinite
  <2>5. ReadableIntake(Evaluated(draft)) /\ idea' = {Start(Evaluated(draft))}
    BY <2>2, EvaluatedReadable DEF draft
  <2>6. Evaluated(draft).fields = draft.fields
    BY DEF Evaluated
  <2>. QED
    BY <2>4, <2>5, <2>6, StartReadable DEF ReadableInv
<1>3. CASE ProposeIntake
  <2>1. PICK u \in Utterances : \E draft \in IdeaCandidates :
            /\ ReadableIntake(Evaluated(draft)) = TRUE
            /\ idea' = {Start(Evaluated(draft))}
    BY <1>3 DEF ProposeIntake
  <2>2. PICK draft \in IdeaCandidates :
            /\ ReadableIntake(Evaluated(draft)) = TRUE
            /\ idea' = {Start(Evaluated(draft))}
    BY <2>1
  <2>3. DOMAIN draft.fields = IntakeFields /\ \A f \in IntakeFields : IsFiniteSet(draft.fields[f])
    BY IdeaRecordsAssumption
  <2>4. Evaluated(draft).fields = draft.fields
    BY DEF Evaluated
  <2>. QED
    BY <2>2, <2>3, <2>4, StartReadable DEF ReadableInv
<1>4. CASE ResolveClarification
  <2>1. PICK s \in idea : \E a \in AnswersTo(s) : Resolvable(s, a) /\ idea' = {Resolved(s, a)}
    BY <1>4 DEF ResolveClarification
  <2>2. PICK a \in AnswersTo(s) : Resolvable(s, a) /\ idea' = {Resolved(s, a)}
    BY <2>1
  <2>. QED
    BY <2>2, ResolvedReadable DEF ReadableInv
<1>5. ToProject \/ MoveToPlan \/ Save \/ WriteBeside \/ ReplaceProject \/ SaveFails => UNCHANGED idea
  BY DEF ToProject, MoveToPlan, Save, WriteBeside, ReplaceProject, SaveFails
<1>. QED
  BY <1>1, <1>2, <1>3, <1>4, <1>5 DEF IdeaNext, ideaVars

\* no more conflicts than requirements
LEMMA FewConflicts ==
    ASSUME NEW s, ReadableSession(s)
    PROVE  Cardinality(s.conflicts) <= Cardinality(Scalar \cup Collections)
<1> DEFINE f == [c \in s.conflicts |-> c.requirement]
           all == Scalar \cup Collections
<1>1. \A c \in s.conflicts : c.requirement \in all
  BY IdeaRecordsAssumption DEF ReadableSession
<1>2. \A c, d \in s.conflicts : c.requirement = d.requirement => c = d
  BY DEF ReadableSession
<1>3. f \in Injection(s.conflicts, all)
  BY <1>1, <1>2 DEF Injection, IsInjective
<1>4. IsFiniteSet(all)
  <2> DEFINE names ==
        <<"proposed_project_name", "project_type", "product_description", "primary_goal", "target_users",
          "requested_features", "platform_targets", "authentication_requirements",
          "integration_requirements", "deployment_requirements", "explicit_constraints",
          "non_functional_requirements", "technology_preferences">>
  <2>1. names \in Surjection(1 .. 13, all)
    <3>1. DOMAIN names = 1 .. 13 /\ \A i \in 1 .. 13 : names[i] \in all
      BY DEF Scalar, Collections
    <3>2. \A x \in all : \E i \in 1 .. 13 : names[i] = x
      <4>1. /\ names[1] = "proposed_project_name" /\ names[2] = "project_type"
            /\ names[3] = "product_description" /\ names[4] = "primary_goal"
            /\ names[5] = "target_users" /\ names[6] = "requested_features"
            /\ names[7] = "platform_targets" /\ names[8] = "authentication_requirements"
            /\ names[9] = "integration_requirements" /\ names[10] = "deployment_requirements"
            /\ names[11] = "explicit_constraints" /\ names[12] = "non_functional_requirements"
            /\ names[13] = "technology_preferences"
        OBVIOUS
      <4> HIDE DEF names
      <4>. QED
        BY <4>1 DEF Scalar, Collections
    <3>3. names = [i \in 1 .. 13 |-> names[i]]
      OBVIOUS
    <3> HIDE DEF names
    <3>. QED
      BY <3>1, <3>2, <3>3 DEF Surjection
  <2>2. IsFiniteSet(1 .. 13)
    <3>1. 1 \in Int /\ 13 \in Int
      OBVIOUS
    <3>. QED
      BY <3>1, FS_Interval
  <2>. QED
    BY <2>1, <2>2, FS_Surjection
<1>. QED
  BY <1>3, <1>4, FS_Injection

\* Whatever was said, disputed, withdrawn or assumed: what a session went
\* through is accepted again and leads, answer by answer, to itself, and so do
\* its documents, unless they are longer than what is read.
THEOREM DocumentsReadBack == Spec => []WrittenIsReadable
<1>1. Init => ReadableInv
  BY DEF Init, IdeaInit, ReadableInv
<1>2. ReadableInv /\ [Next]_operationVars => ReadableInv'
  BY ReadableInvNext, ServicesApart
<1>3. ReadableInv => WrittenIsReadable
  <2> SUFFICES ASSUME ReadableInv, NEW s \in idea
               PROVE  Rebuilt(s) = {s} /\ ReadableIntake(s.initial) /\ ReadableIntake(s.current)
    BY DEF WrittenIsReadable, ReadBack, ReadIntake
  <2>1. ReadableSession(s)
    BY DEF ReadableInv
  <2>2. Cardinality(s.conflicts) <= Cardinality(Scalar \cup Collections)
    BY <2>1, FewConflicts
  <2>. QED
    BY <2>1, <2>2 DEF Rebuilt, ReadableSession
<1>. QED
  BY <1>1, <1>2, <1>3, PTL DEF Spec

-----------------------------------------------------------------------------
(* The declarations of a module: what the modifiers of a field make of it, *)
(* one after the other, and what the fields of an accepted module are.     *)

\* a field some of whose modifiers were read: no relationship is configured yet
Shaped(f) ==
    /\ IsFunction(f) /\ DOMAIN f = FieldParts
    /\ f.kind = "field" /\ f.backref = "none" /\ f.relation \in {"none", "many_to_one"}

Admits(f, m) ==
    IF m.kind = "validator" THEN m.says \notin ToSet(f.validator) ELSE f[m.kind] = {}
Put(f, m) ==
    [x \in FieldParts |->
        CASE x = m.kind /\ x = "validator"       -> Append(f.validator, m.says)
          [] x = m.kind /\ x # "validator"       -> {m.says}
          [] m.kind = "fk" /\ x = "relation"     -> "many_to_one"
          [] m.kind = "fk" /\ x \in {"relationName", "class"} -> Refer(f, m.says)[x]
          [] OTHER                               -> f[x]]

LEMMA PartsDiffer ==
    /\ Kinds \cap {"kind", "name", "type", "relation", "relationName", "class", "key", "backref"} = {}
    /\ {"validator", "regex", "fk"} \subseteq Kinds /\ Kinds \subseteq FieldParts
    /\ {"kind", "name", "type", "relation", "relationName", "class", "key", "backref"} \subseteq FieldParts
BY DEF Kinds, FieldParts

LEMMA ShapedIsAccepted ==
    ASSUME NEW f, Shaped(f)
    PROVE  f # Refused
<1>1. f.kind = "field"
  BY DEF Shaped
<1>2. Refused.kind = "refused"
  BY DEF Refused
<1>. QED
  BY <1>1, <1>2

LEMMA UnmodifiedShaped ==
    ASSUME NEW d
    PROVE  Shaped(Unmodified(d)) /\ Unmodified(d).name = d.name /\ Unmodified(d).type = d.type
BY PartsDiffer DEF Unmodified, Shaped, IsFunction

\* a modifier before a pattern is either refused or put where it belongs
LEMMA ModifyIs ==
    ASSUME NEW f, Shaped(f), f.regex = {}, NEW m, m.kind \in Kinds \ {"regex"}
    PROVE  /\ Modify(f, m) = IF Admits(f, m) THEN Put(f, m) ELSE Refused
           /\ Shaped(Put(f, m)) /\ Put(f, m).name = f.name /\ Put(f, m).type = f.type /\ Put(f, m).regex = {}
<1>1. f # Refused /\ ~Has(f, "regex")
  BY ShapedIsAccepted DEF Has
<1>2. IsFunction(f) /\ DOMAIN f = FieldParts
  BY DEF Shaped
<1>3. Shaped(Put(f, m)) /\ Put(f, m).name = f.name /\ Put(f, m).type = f.type /\ Put(f, m).regex = {}
  BY <1>2, PartsDiffer DEF Shaped, Put, IsFunction
<1>4. CASE m.kind = "validator"
  <2>1. Modify(f, m) = Rule(f, m.says)
    BY <1>1, <1>4 DEF Modify
  <2>2. [f EXCEPT !.validator = Append(@, m.says)] = Put(f, m)
    BY <1>2, <1>4, PartsDiffer DEF Put
  <2>. QED
    BY <1>3, <1>4, <2>1, <2>2 DEF Admits, Rule
<1>5. CASE m.kind = "fk"
  <2>1. f.fk # {} => Modify(f, m) = Refused
    BY <1>1, <1>5 DEF Modify, Has
  <2>2. f.fk = {} => Modify(f, m) = Refer(f, m.says)
    BY <1>1, <1>5 DEF Modify, Has
  <2>3. Refer(f, m.says) = Put(f, m)
    BY <1>2, <1>5, PartsDiffer DEF Put, Refer
  <2>. QED
    BY <1>3, <1>5, <2>1, <2>2, <2>3 DEF Admits
<1>6. CASE m.kind \notin {"validator", "fk"}
  <2>1. f[m.kind] # {} => Modify(f, m) = Refused
    BY <1>1, <1>6 DEF Modify, Has
  <2>2. f[m.kind] = {} => Modify(f, m) = [f EXCEPT ![m.kind] = {m.says}]
    BY <1>1, <1>6 DEF Modify, Has
  <2>3. [f EXCEPT ![m.kind] = {m.says}] = Put(f, m)
    BY <1>2, <1>6, PartsDiffer DEF Put
  <2>. QED
    BY <1>3, <1>6, <2>1, <2>2, <2>3 DEF Admits
<1>. QED
  BY <1>4, <1>5, <1>6

\* a pattern that begins or goes on leaves the rest of the field as it is
LEMMA PatternIs ==
    ASSUME NEW f, Shaped(f), NEW m, f.regex # {} \/ m.kind = "regex"
    PROVE  Shaped(Modify(f, m)) /\ Modify(f, m).name = f.name /\ Modify(f, m).type = f.type
<1>1. f # Refused
  BY ShapedIsAccepted
<1>2. \E p : Modify(f, m) = [f EXCEPT !.regex = p]
  <2>1. CASE f.regex # {}
    BY <1>1, <2>1 DEF Modify, Has
  <2>2. CASE f.regex = {}
    BY <1>1, <2>2 DEF Modify, Has
  <2>. QED
    BY <2>1, <2>2
<1>3. PICK p : Modify(f, m) = [f EXCEPT !.regex = p]
  BY <1>2
<1>4. ASSUME NEW g, g = [f EXCEPT !.regex = p]
      PROVE  Shaped(g) /\ g.name = f.name /\ g.type = f.type
  BY <1>4, PartsDiffer DEF Shaped, IsFunction
<1>. QED
  BY <1>3, <1>4

\* after a refusal nothing is accepted
LEMMA RefusedStays ==
    ASSUME NEW m
    PROVE  Modify(Refused, m) = Refused
BY DEF Modify

\* two modifiers before a pattern are the same in either order, but for validators
LEMMA ModifiersCommute ==
    ASSUME NEW f, Shaped(f), f.regex = {}, NEW a, a.kind \in Kinds \ {"regex"}, NEW b, b.kind \in Kinds \ {"regex"},
           a.kind # "validator" \/ b.kind # "validator"
    PROVE  Modify(Modify(f, a), b) = Modify(Modify(f, b), a)
<1>1. ASSUME NEW m, m.kind \in Kinds \ {"regex"}, NEW n, n.kind \in Kinds \ {"regex"},
             m.kind # "validator" \/ n.kind # "validator"
      PROVE  /\ Modify(Modify(f, m), n) =
                    IF Admits(f, m) THEN IF Admits(Put(f, m), n) THEN Put(Put(f, m), n) ELSE Refused
                    ELSE Refused
             /\ Admits(f, m) /\ Admits(Put(f, m), n) =>
                    Admits(f, n) /\ Admits(Put(f, n), m) /\ Put(Put(f, m), n) = Put(Put(f, n), m)
  <2> DEFINE g == Put(f, m)
             h == Put(f, n)
  <2>1. Shaped(g) /\ Shaped(h) /\ g.regex = {} /\ h.regex = {}
    BY <1>1, ModifyIs
  <2>2. Modify(Modify(f, m), n) =
            IF Admits(f, m) THEN IF Admits(Put(f, m), n) THEN Put(Put(f, m), n) ELSE Refused ELSE Refused
    <3>1. CASE Admits(f, m)
      BY <1>1, <2>1, <3>1, ModifyIs
    <3>2. CASE ~Admits(f, m)
      BY <1>1, <3>2, ModifyIs, RefusedStays
    <3>. QED
      BY <3>1, <3>2
  <2>3. ASSUME Admits(f, m), Admits(g, n)
        PROVE  Admits(f, n) /\ Admits(h, m)
    <3>1. \A x \in Kinds : x # m.kind => g[x] = f[x]
      BY PartsDiffer DEF Put
    <3>2. \A x \in Kinds : x # n.kind => h[x] = f[x]
      BY PartsDiffer DEF Put
    <3>3. CASE m.kind # n.kind
      BY <1>1, <2>3, <3>1, <3>2, <3>3, PartsDiffer DEF Admits
    <3>4. CASE m.kind = n.kind
      <4>1. g[m.kind] = {m.says}
        BY <1>1, <3>4, PartsDiffer DEF Put
      <4>. QED
        BY <1>1, <2>3, <3>4, <4>1 DEF Admits
    <3>. QED
      BY <3>3, <3>4
  <2>4. ASSUME Admits(f, m), Admits(g, n)
        PROVE  Put(g, n) = Put(h, m)
    <3>1. m.kind # n.kind
      <4>1. ASSUME m.kind = n.kind PROVE FALSE
        <5>1. g[m.kind] = {m.says}
          BY <1>1, <4>1, PartsDiffer DEF Put
        <5>. QED
          BY <1>1, <2>4, <4>1, <5>1 DEF Admits
      <4>. QED
        BY <4>1
    <3>2. g.name = f.name /\ h.name = f.name
      BY <1>1, ModifyIs
    <3>3. \A x \in {"relationName", "class"} : Refer(g, n.says)[x] = Refer(f, n.says)[x]
                                             /\ Refer(h, m.says)[x] = Refer(f, m.says)[x]
      BY <2>1, <3>2, PartsDiffer DEF Refer, Shaped
    <3>4. ASSUME NEW x \in FieldParts PROVE Put(g, n)[x] = Put(h, m)[x]
      <4>1. CASE x = "validator"
        BY <3>1, <4>1, PartsDiffer DEF Put
      <4>2. CASE x \in Kinds /\ x # "validator"
        BY <3>1, <4>2, PartsDiffer DEF Put
      <4>3. CASE x \in {"relationName", "class"}
        BY <3>1, <3>3, <4>3, <1>1, PartsDiffer DEF Put
      <4>4. CASE x \notin Kinds /\ x \notin {"relationName", "class"}
        BY <3>1, <4>4, <1>1, PartsDiffer DEF Put
      <4>. QED
        BY <4>1, <4>2, <4>3, <4>4
    <3>5. IsFunction(Put(g, n)) /\ IsFunction(Put(h, m)) /\ DOMAIN Put(g, n) = FieldParts /\ DOMAIN Put(h, m) = FieldParts
      BY DEF Put, IsFunction
    <3> HIDE DEF g, h
    <3>. QED
      BY <3>4, <3>5, Zenon DEF IsFunction
  <2>. QED
    BY <2>2, <2>3, <2>4
<1>. QED
  BY <1>1

WellDeclared(d) ==
    /\ DOMAIN d = {"name", "type", "target", "modifiers"}
    /\ d.modifiers \in Seq(ToSet(d.modifiers))
    /\ \A i \in DOMAIN d.modifiers : d.modifiers[i].kind \in Kinds

\* what each modifier makes of a field
IsReading(f, d, n) ==
    /\ IsFunction(f) /\ DOMAIN f = 0 .. n
    /\ f[0] = Unmodified(d)
    /\ \A i \in 1 .. n : f[i] = Modify(f[i - 1], d.modifiers[i])

LEMMA ReadingExists ==
    ASSUME NEW d, NEW n \in Nat
    PROVE  \E f : IsReading(f, d, n)
<1> DEFINE S == {k \in Nat : \E f : IsReading(f, d, k)}
<1>1. 0 \in S
  <2> DEFINE f == [i \in 0 .. 0 |-> Unmodified(d)]
  <2>1. IsReading(f, d, 0)
    BY DEF IsReading, IsFunction
  <2> HIDE DEF f
  <2>. QED
    BY <2>1
<1>2. ASSUME NEW k \in Nat, k \in S PROVE k + 1 \in S
  <2>1. PICK f : IsReading(f, d, k)
    BY <1>2
  <2> DEFINE g == [i \in 0 .. k + 1 |-> IF i = k + 1 THEN Modify(f[k], d.modifiers[k + 1]) ELSE f[i]]
  <2>2. /\ \A i \in 0 .. k : g[i] = f[i]
        /\ g[k + 1] = Modify(f[k], d.modifiers[k + 1])
        /\ DOMAIN g = 0 .. k + 1 /\ IsFunction(g)
    BY DEF IsFunction
  <2> HIDE DEF g
  <2>3. ASSUME NEW i \in 1 .. k + 1 PROVE g[i] = Modify(g[i - 1], d.modifiers[i])
    <3>1. CASE i = k + 1
      BY <2>2, <3>1
    <3>2. CASE i \in 1 .. k
      <4>1. g[i] = f[i] /\ g[i - 1] = f[i - 1]
        BY <2>2, <3>2
      <4>. QED
        BY <2>1, <3>2, <4>1 DEF IsReading
    <3>. QED
      BY <3>1, <3>2
  <2>4. g[0] = Unmodified(d)
    BY <2>1, <2>2 DEF IsReading
  <2>5. IsReading(g, d, k + 1)
    BY <2>2, <2>3, <2>4 DEF IsReading
  <2> HIDE DEF IsReading
  <2>. QED
    BY <2>5
<1> HIDE DEF S
<1>3. Nat \subseteq S
  BY <1>1, <1>2, EveryNumber
<1>. QED
  BY <1>3 DEF S

LEMMA ModifiedIs ==
    ASSUME NEW d, Len(d.modifiers) \in Nat
    PROVE  \E f : IsReading(f, d, Len(d.modifiers)) /\ Modified(d) = f[Len(d.modifiers)]
<1> DEFINE n == Len(d.modifiers)
           Body(f) == [i \in 0 .. n |-> IF i = 0 THEN Unmodified(d) ELSE Modify(f[i - 1], d.modifiers[i])]
           f == CHOOSE f : f = Body(f)
<1>1. PICK g : IsReading(g, d, n)
  BY ReadingExists
<1>2. g = Body(g)
  <2>1. \A i \in 0 .. n : g[i] = IF i = 0 THEN Unmodified(d) ELSE Modify(g[i - 1], d.modifiers[i])
    BY <1>1 DEF IsReading
  <2>. QED
    BY <1>1, <2>1, Zenon DEF IsReading, IsFunction
<1>3. f = Body(f)
  BY <1>2, Zenon
<1>4. Modified(d) = f[n]
  BY Zenon DEF Modified
<1>5. \A k : DOMAIN Body(k) = 0 .. n /\ IsFunction(Body(k))
  BY DEF IsFunction
<1>6. \A k : Body(k)[0] = Unmodified(d) /\ \A i \in 1 .. n : Body(k)[i] = Modify(k[i - 1], d.modifiers[i])
  OBVIOUS
<1> HIDE DEF f, Body
<1>7. IsReading(f, d, n)
  BY <1>3, <1>5, <1>6, Zenon DEF IsReading
<1>. QED
  BY <1>4, <1>7

\* at every modifier the field is refused, or shaped and of its name and type
LEMMA ReadingShaped ==
    ASSUME NEW d, WellDeclared(d), NEW n \in Nat, n <= Len(d.modifiers), NEW f, IsReading(f, d, n)
    PROVE  \A i \in 0 .. n : f[i] = Refused \/ (Shaped(f[i]) /\ f[i].name = d.name /\ f[i].type = d.type)
<1> DEFINE Good(g) == g = Refused \/ (Shaped(g) /\ g.name = d.name /\ g.type = d.type)
           S == {i \in Nat : i <= n => Good(f[i])}
<1>1. 0 \in S
  BY UnmodifiedShaped DEF IsReading
<1>2. ASSUME NEW k \in Nat, k \in S PROVE k + 1 \in S
  <2> SUFFICES ASSUME k + 1 <= n PROVE Good(f[k + 1])
    OBVIOUS
  <2>1. Good(f[k])
    BY <1>2
  <2>2. f[k + 1] = Modify(f[k], d.modifiers[k + 1])
    BY DEF IsReading
  <2>3. d.modifiers[k + 1].kind \in Kinds
    BY DEF WellDeclared
  <2>4. CASE f[k] = Refused
    BY <2>2, <2>4, RefusedStays
  <2>5. CASE Shaped(f[k]) /\ f[k].name = d.name /\ f[k].type = d.type
    <3>1. CASE f[k].regex # {} \/ d.modifiers[k + 1].kind = "regex"
      BY <2>2, <2>5, <3>1, PatternIs
    <3>2. CASE f[k].regex = {} /\ d.modifiers[k + 1].kind # "regex"
      <4>1. \/ Modify(f[k], d.modifiers[k + 1]) = Refused
            \/ Modify(f[k], d.modifiers[k + 1]) = Put(f[k], d.modifiers[k + 1])
        BY <2>3, <2>5, <3>2, ModifyIs
      <4>2. /\ Shaped(Put(f[k], d.modifiers[k + 1])) /\ Put(f[k], d.modifiers[k + 1]).name = f[k].name
            /\ Put(f[k], d.modifiers[k + 1]).type = f[k].type
        BY <2>3, <2>5, <3>2, ModifyIs
      <4>. QED
        BY <2>2, <2>5, <4>1, <4>2
    <3>. QED
      BY <3>1, <3>2
  <2>. QED
    BY <2>1, <2>4, <2>5
<1> HIDE DEF S
<1>3. Nat \subseteq S
  BY <1>1, <1>2, EveryNumber
<1>. QED
  BY <1>3 DEF S

\* as long as there is no pattern among the modifiers, the field has none
LEMMA ReadingOpen ==
    ASSUME NEW d, WellDeclared(d), NEW f, IsReading(f, d, Len(d.modifiers)), NEW n \in 0 .. Len(d.modifiers),
           \A i \in 1 .. n : d.modifiers[i].kind # "regex"
    PROVE  f[n] = Refused \/ f[n].regex = {}
<1> DEFINE S == {i \in Nat : i <= n => f[i] = Refused \/ f[i].regex = {}}
<1>0. Len(d.modifiers) \in Nat
  BY DEF WellDeclared
<1>1. 0 \in S
  BY PartsDiffer DEF IsReading, Unmodified
<1>2. ASSUME NEW k \in Nat, k \in S PROVE k + 1 \in S
  <2> SUFFICES ASSUME k + 1 <= n PROVE f[k + 1] = Refused \/ f[k + 1].regex = {}
    OBVIOUS
  <2>1. f[k] = Refused \/ f[k].regex = {}
    BY <1>2
  <2>2. f[k + 1] = Modify(f[k], d.modifiers[k + 1])
    BY <1>0 DEF IsReading
  <2>3. d.modifiers[k + 1].kind \in Kinds \ {"regex"}
    BY <1>0 DEF WellDeclared
  <2>4. CASE f[k] = Refused
    BY <2>2, <2>4, RefusedStays
  <2>5. CASE f[k] # Refused
    <3>1. Shaped(f[k])
      BY <1>0, <2>5, ReadingShaped
    <3>. QED
      BY <2>1, <2>2, <2>3, <2>5, <3>1, ModifyIs
  <2>. QED
    BY <2>4, <2>5
<1> HIDE DEF S
<1>3. Nat \subseteq S
  BY <1>1, <1>2, EveryNumber
<1>. QED
  BY <1>0, <1>3 DEF S

LEMMA ModifiedShaped ==
    ASSUME NEW d, WellDeclared(d)
    PROVE  Modified(d) = Refused \/ (Shaped(Modified(d)) /\ Modified(d).name = d.name)
<1>1. Len(d.modifiers) \in Nat
  BY DEF WellDeclared
<1>2. PICK f : IsReading(f, d, Len(d.modifiers)) /\ Modified(d) = f[Len(d.modifiers)]
  BY <1>1, ModifiedIs
<1>. QED
  BY <1>1, <1>2, ReadingShaped

DeclarationInv == (\E S : declared \in Seq(S)) /\ \A i \in DOMAIN declared : WellDeclared(declared[i])

LEMMA DeclarationInvInit == Init => DeclarationInv
<1> SUFFICES ASSUME Init PROVE DeclarationInv
  OBVIOUS
<1>1. CASE declared \in Contexts
  <2>1. declared \in Seq(ToSet(declared))
    BY <1>1, DeclarationsAssumption
  <2>2. ASSUME NEW i \in DOMAIN declared PROVE WellDeclared(declared[i])
    BY <1>1, DeclarationsAssumption DEF WellDeclared
  <2>. QED
    BY <2>1, <2>2 DEF DeclarationInv
<1>2. CASE declared = <<>>
  <2>1. declared \in Seq({}) /\ DOMAIN declared = {}
    BY <1>2
  <2>. QED
    BY <2>1 DEF DeclarationInv
<1>. QED
  BY <1>1, <1>2 DEF Init, DeclarationInit

LEMMA DeclarationInvNext == DeclarationInv /\ [DeclarationNext]_declarationVars => DeclarationInv'
<1> SUFFICES ASSUME DeclarationInv, [DeclarationNext]_declarationVars PROVE DeclarationInv'
  OBVIOUS
<1>1. PICK S : declared \in Seq(S)
  BY DEF DeclarationInv
<1>2. \A i \in DOMAIN declared : WellDeclared(declared[i])
  BY DEF DeclarationInv
<1>3. ASSUME NEW n \in FieldNames, NEW d \in NewFields, DeclareField(n, d) PROVE DeclarationInv'
  <2> DEFINE e == [name |-> n, type |-> d.type, target |-> d.target, modifiers |-> <<>>]
  <2>1. declared' = Append(declared, e)
    BY <1>3 DEF DeclareField
  <2>2. WellDeclared(e)
    <3>1. DOMAIN e = {"name", "type", "target", "modifiers"} /\ e.modifiers = <<>>
      OBVIOUS
    <3>2. <<>> \in Seq(ToSet(<<>>)) /\ DOMAIN <<>> = {}
      BY DEF ToSet
    <3> HIDE DEF e
    <3>. QED
      BY <3>1, <3>2 DEF WellDeclared
  <2> HIDE DEF e
  <2>3. declared \in Seq(S \cup {e})
    BY <1>1
  <2>4. /\ declared' \in Seq(S \cup {e}) /\ Len(declared') = Len(declared) + 1
        /\ \A i \in 1 .. Len(declared) : declared'[i] = declared[i]
        /\ declared'[Len(declared) + 1] = e
    BY <2>1, <2>3
  <2>5. ASSUME NEW i \in DOMAIN declared' PROVE WellDeclared(declared'[i])
    <3>1. i \in 1 .. Len(declared) \/ i = Len(declared) + 1
      BY <1>1, <2>4
    <3>2. \A j \in 1 .. Len(declared) : WellDeclared(declared[j])
      BY <1>1, <1>2
    <3>. QED
      BY <2>2, <2>4, <3>1, <3>2
  <2>. QED
    BY <2>4, <2>5 DEF DeclarationInv
<1>4. ASSUME NEW m \in Modifiers, AddModifier(m) PROVE DeclarationInv'
  <2> DEFINE k == MaxFields
             e == [declared[k] EXCEPT !.modifiers = Append(declared[k].modifiers, m)]
  <2>0. Len(declared) = k
    BY <1>4 DEF AddModifier
  <2>1. declared' = [declared EXCEPT ![k] = e]
    BY <1>4 DEF AddModifier
  <2>2. CASE k = 0
    <3>1. declared' = declared
      BY <1>1, <2>0, <2>1, <2>2
    <3>. QED
      BY <1>1, <1>2, <3>1 DEF DeclarationInv
  <2>3. CASE k # 0
    <3>1. k \in DOMAIN declared /\ WellDeclared(declared[k])
      BY <1>1, <1>2, <2>0, <2>3
    <3>2. /\ e.modifiers = Append(declared[k].modifiers, m)
          /\ DOMAIN e = {"name", "type", "target", "modifiers"}
      BY <3>1 DEF WellDeclared
    <3>3. m.kind \in Kinds
      BY DeclarationsAssumption
    <3>4. WellDeclared(e)
      <4> DEFINE s == declared[k].modifiers
                 r == Append(s, m)
      <4>1. s \in Seq(ToSet(s)) /\ \A i \in DOMAIN s : s[i].kind \in Kinds
        BY <3>1 DEF WellDeclared
      <4>2. s \in Seq(ToSet(s) \cup {m})
        BY <4>1
      <4> HIDE DEF s
      <4>3. /\ r \in Seq(ToSet(s) \cup {m}) /\ Len(r) = Len(s) + 1 /\ r[Len(s) + 1] = m
            /\ \A i \in 1 .. Len(s) : r[i] = s[i]
        BY <4>2
      <4>4. r \in Seq(ToSet(r))
        BY <4>3 DEF ToSet
      <4>5. ASSUME NEW i \in DOMAIN r PROVE r[i].kind \in Kinds
        BY <3>3, <4>1, <4>2, <4>3
      <4> HIDE DEF r
      <4>6. e.modifiers = r
        BY <3>2 DEF r, s
      <4> HIDE DEF e
      <4>. QED
        BY <3>2, <4>4, <4>5, <4>6 DEF WellDeclared
    <3> HIDE DEF e
    <3>5. declared \in Seq(S \cup {e})
      BY <1>1
    <3>6. declared' \in Seq(S \cup {e}) /\ DOMAIN declared' = DOMAIN declared
          /\ \A i \in DOMAIN declared : declared'[i] = IF i = k THEN e ELSE declared[i]
      BY <2>1, <3>1, <3>5
    <3>7. ASSUME NEW i \in DOMAIN declared' PROVE WellDeclared(declared'[i])
      BY <1>2, <3>4, <3>6
    <3>. QED
      BY <3>6, <3>7 DEF DeclarationInv
  <2>. QED
    BY <2>2, <2>3
<1>5. CASE UNCHANGED declarationVars
  BY <1>1, <1>2, <1>5 DEF DeclarationInv, declarationVars
<1>. QED
  BY <1>3, <1>4, <1>5 DEF DeclarationNext

\* what a field that is read, with its relationship configured, can be
Parsed(f) ==
    /\ IsFunction(f) /\ DOMAIN f = FieldParts /\ f.kind = "field"
    /\ f.relation = "self_many_to_one" =>
          /\ f.class = ModuleName
          /\ \A n \in {f.relationName, f.backref} : n \notin ReservedNames
    /\ f.relation = "many_to_one" /\ f.backref # "none" => f.relationName \notin ReservedNames

LEMMA CollectionParsed ==
    ASSUME NEW d, Collection(d) # Refused
    PROVE  Parsed(Collection(d)) /\ Collection(d).name = d.name
<1> DEFINE u == Unmodified(d)
           f == [u EXCEPT !.relation = "many_to_many", !.relationName = d.name,
                          !.class = d.target, !.backref = ModuleTable]
           m == d.modifiers[1]
<1>1. Shaped(u) /\ u.name = d.name
  BY UnmodifiedShaped
<1> HIDE DEF u
<1>2. /\ IsFunction(f) /\ DOMAIN f = FieldParts /\ f.kind = "field" /\ f.relation = "many_to_many"
      /\ f.name = d.name
  BY <1>1, PartsDiffer DEF Shaped, IsFunction
<1>3. Collection(d) = f \/ Collection(d) = [f EXCEPT !.scope = {m.says}]
  BY DEF Collection, u
<1> HIDE DEF f, m
<1>4. LET g == [f EXCEPT !.scope = {m.says}]
      IN  /\ IsFunction(g) /\ DOMAIN g = FieldParts /\ g.kind = "field" /\ g.relation = "many_to_many"
          /\ g.name = d.name
  BY <1>2, PartsDiffer DEF IsFunction
<1>. QED
  BY <1>2, <1>3, <1>4 DEF Parsed

LEMMA ConfiguredParsed ==
    ASSUME NEW f, Shaped(f), Configured(f) # Refused
    PROVE  Parsed(Configured(f)) /\ Configured(f).name = f.name
<1> DEFINE one == IF Has(f, "one_to_one") THEN OneToOne(f) ELSE f
<1>1. one # Refused
  BY DEF Configured
<1>2. /\ IsFunction(one) /\ DOMAIN one = FieldParts /\ one.kind = "field" /\ one.name = f.name
      /\ one.relation \in {"none", "one_to_one", "many_to_one"}
      /\ one.relation = "many_to_one" => one.backref = "none"
  <2>1. CASE Has(f, "one_to_one")
    <3> DEFINE h == [f EXCEPT !.relation = "one_to_one", !.unique = {"yes"}, !.backref = ModuleName]
    <3>1. one = h
      BY <1>1, <2>1 DEF OneToOne
    <3>2. DOMAIN f = FieldParts /\ f.kind = "field"
      BY DEF Shaped
    <3>3. /\ IsFunction(h) /\ DOMAIN h = FieldParts /\ h.kind = "field" /\ h.name = f.name
          /\ h.relation = "one_to_one"
      BY <3>2, PartsDiffer DEF IsFunction
    <3> HIDE DEF one, h
    <3>. QED
      BY <3>1, <3>3
  <2>2. CASE ~Has(f, "one_to_one")
    BY <2>2 DEF Shaped
  <2>. QED
    BY <2>1, <2>2
<1>3. ASSUME NEW g, IsFunction(g), DOMAIN g = FieldParts, g.kind = "field", g.name = f.name, ConfigureSelf(g) # Refused
      PROVE  Parsed(ConfigureSelf(g)) /\ ConfigureSelf(g).name = f.name
  <2> DEFINE c == Value(g, "self_relationship")
             h == [g EXCEPT !.class = ModuleName, !.relation = "self_many_to_one",
                            !.key = Value(g, "fk").column, !.backref = c]
  <2>1. ConfigureSelf(g) = h
        /\ {n \in {g.relationName, c} : ValidName(n) /\ n \notin ReservedNames \cup {"relationship", "backref"}}
              = {g.relationName, c}
    BY <1>3 DEF ConfigureSelf
  <2>2. g.relationName \notin ReservedNames /\ c \notin ReservedNames
    BY <2>1
  <2> HIDE DEF c
  <2>3. /\ IsFunction(h) /\ DOMAIN h = FieldParts /\ h.kind = "field" /\ h.name = f.name
        /\ h.class = ModuleName /\ h.relation = "self_many_to_one" /\ h.relationName = g.relationName /\ h.backref = c
    BY <1>3, PartsDiffer DEF IsFunction
  <2> HIDE DEF h
  <2>. QED
    BY <2>1, <2>2, <2>3 DEF Parsed
<1>4. ASSUME NEW g, IsFunction(g), DOMAIN g = FieldParts, g.kind = "field", g.name = f.name,
             g.relation # "self_many_to_one", ConfigureOneToMany(g) # Refused
      PROVE  Parsed(ConfigureOneToMany(g)) /\ ConfigureOneToMany(g).name = f.name
  <2> DEFINE to == Value(g, "one_to_many")
             t == IF to.class = "default" THEN g.class ELSE to.class
             h == [g EXCEPT !.class = t, !.key = Value(g, "fk").column, !.backref = to.collection]
  <2>1. ConfigureOneToMany(g) = h /\ g.relationName \notin ReservedNames
    BY <1>4 DEF ConfigureOneToMany
  <2> HIDE DEF to, t
  <2>3. /\ IsFunction(h) /\ DOMAIN h = FieldParts /\ h.kind = "field" /\ h.name = f.name
        /\ h.relation = g.relation /\ h.relationName = g.relationName
    BY <1>4, PartsDiffer DEF IsFunction
  <2> HIDE DEF h
  <2>. QED
    BY <1>4, <2>1, <2>3 DEF Parsed
<1>5. Configured(f) \in {ConfigureSelf(one), ConfigureOneToMany(one), one}
  BY <1>1 DEF Configured
<1>6. Parsed(one)
  BY <1>2 DEF Parsed
<1> HIDE DEF one
<1>. QED
  BY <1>2, <1>3, <1>4, <1>5, <1>6

LEMMA ParseFieldIs ==
    ASSUME NEW d, WellDeclared(d), ParseField(d) # Refused
    PROVE  Parsed(ParseField(d)) /\ ParseField(d).name = d.name
<1>1. CASE d.type = "many_to_many"
  BY <1>1, CollectionParsed DEF ParseField
<1>2. CASE d.type # "many_to_many"
  <2>1. Modified(d) # Refused /\ ParseField(d) = Configured(Modified(d))
    BY <1>2 DEF ParseField
  <2>2. Shaped(Modified(d)) /\ Modified(d).name = d.name
    BY <2>1, ModifiedShaped
  <2>. QED
    BY <2>1, <2>2, ConfiguredParsed
<1>. QED
  BY <1>1, <1>2

FieldsRead(ds) == [i \in DOMAIN ds |-> ParseField(ds[i])]
ValidTogether(fs, o) ==
    /\ ValidFields(fs) /\ OneToManyNames(fs) /\ SelfRelationships(fs) /\ Cascades(fs)
    /\ \A i \in DOMAIN fs : Encrypted(fs[i]) /\ Computed(fs, fs[i]) /\ Hybrid(fs, fs[i])
    /\ ValidIndexes(fs, o) /\ ValidModule(fs, o)

LEMMA ParseIs ==
    ASSUME NEW ds, NEW o
    PROVE  Parse(ds, o) =
               IF (\A i \in DOMAIN ds : FieldsRead(ds)[i] # Refused) /\ ValidTogether(FieldsRead(ds), o)
               THEN [i \in DOMAIN ds |-> Scoped(FieldsRead(ds)[i], o)]
               ELSE <<Refused>>
<1> DEFINE fs == [i \in DOMAIN ds |-> ParseField(ds[i])]
           all == [i \in DOMAIN fs |-> Scoped(fs[i], o)]
<1>1. DOMAIN fs = DOMAIN ds /\ fs = FieldsRead(ds)
  BY DEF FieldsRead
<1>2. Parse(ds, o) = IF \E i \in DOMAIN fs : fs[i] = Refused THEN <<Refused>>
                     ELSE IF ValidTogether(fs, o) THEN all ELSE <<Refused>>
  BY Zenon DEF Parse, ValidTogether
<1>3. all = [i \in DOMAIN ds |-> Scoped(FieldsRead(ds)[i], o)]
  BY <1>1
<1> HIDE DEF all, fs
<1>. QED
  BY <1>1, <1>2, <1>3

\* a scope is all that a module adds to its fields
LEMMA ScopedIs ==
    ASSUME NEW f, Parsed(f), NEW o
    PROVE  /\ Parsed(Scoped(f, o))
           /\ \A x \in FieldParts \ {"scope"} : Scoped(f, o)[x] = f[x]
<1> DEFINE g == [f EXCEPT !.scope = {"tenant"}]
<1>1. Scoped(f, o) \in {f, g}
  BY DEF Scoped
<1>2. DOMAIN f = FieldParts
  BY DEF Parsed
<1>3. /\ IsFunction(g) /\ DOMAIN g = FieldParts
      /\ \A x \in FieldParts \ {"scope"} : g[x] = f[x]
  BY <1>2 DEF IsFunction
<1>4. {"kind", "relation", "class", "relationName", "backref"} \subseteq FieldParts \ {"scope"}
  BY DEF FieldParts, Kinds
<1> HIDE DEF g
<1>5. Parsed(g)
  BY <1>3, <1>4 DEF Parsed
<1>. QED
  BY <1>1, <1>3, <1>5

LEMMA ParsedIsAccepted ==
    ASSUME NEW f, Parsed(f)
    PROVE  f # Refused
<1>1. f.kind = "field"
  BY DEF Parsed
<1>2. Refused.kind = "refused"
  BY DEF Refused
<1>. QED
  BY <1>1, <1>2

\* the columns a module has beside its fields
LEMMA ManagedColumns ==
    ASSUME NEW fs, NEW o, NEW n, n \in Columns(fs, o), n \notin NamesOf(fs)
    PROVE  \/ n \in ReservedNames
           \/ o.audit /\ n \in AuditNames
           \/ o.version /\ n = "version_id"
           \/ n = TenantKey
BY DEF Columns, IndexColumns, NamesOf, ReservedNames, Generated, AuditNames

LEMMA NamesDistinct ==
    ASSUME NEW ds, NEW o, \A i \in DOMAIN ds : WellDeclared(ds[i]), Accepted(Parse(ds, o))
    PROVE  LET fs == Parse(ds, o)
               managed == Columns(fs, o) \ NamesOf(fs)
               added(f) == {f.relationName} \cup IF f.relation = "self_many_to_one" THEN {f.backref} ELSE {}
           IN  \A i \in DOMAIN fs :
                \/ fs[i].relation = "self_many_to_one"
                \/ fs[i].relation = "many_to_one" /\ fs[i].backref # "none"
                \/ Has(fs[i], "cascade_delete")
                => /\ fs[i].relationName \notin managed \ {TenantKey}
                   /\ added(fs[i]) \cap (NamesOf(fs) \cup Generated) = {}
                   /\ \A j \in DOMAIN fs \ {i} : added(fs[j]) \cap added(fs[i]) = {}
<1> DEFINE gs == FieldsRead(ds)
           fs == Parse(ds, o)
           added(f) == {f.relationName} \cup IF f.relation = "self_many_to_one" THEN {f.backref} ELSE {}
<1>1. /\ \A i \in DOMAIN ds : gs[i] # Refused
      /\ ValidTogether(gs, o)
      /\ fs = [i \in DOMAIN ds |-> Scoped(gs[i], o)]
  BY ParseIs DEF Accepted
<1>2. DOMAIN gs = DOMAIN ds /\ DOMAIN fs = DOMAIN ds
  BY <1>1 DEF FieldsRead
<1>3. ASSUME NEW i \in DOMAIN ds
      PROVE  /\ Parsed(fs[i]) /\ fs[i] = Scoped(gs[i], o)
             /\ fs[i].name = gs[i].name /\ fs[i].relation = gs[i].relation /\ fs[i].class = gs[i].class
             /\ fs[i].relationName = gs[i].relationName /\ fs[i].backref = gs[i].backref
             /\ fs[i].cascade_delete = gs[i].cascade_delete
  <2>1. gs[i] = ParseField(ds[i])
    BY DEF FieldsRead
  <2>2. Parsed(gs[i])
    BY <1>1, <2>1, ParseFieldIs
  <2>3. {"name", "relation", "class", "relationName", "backref", "cascade_delete"} \subseteq FieldParts \ {"scope"}
    BY DEF FieldParts, Kinds
  <2>4. fs[i] = Scoped(gs[i], o)
    BY <1>1
  <2> HIDE DEF fs, gs
  <2>. QED
    BY <2>2, <2>3, <2>4, ScopedIs
<1> HIDE DEF fs, gs
<1>4. NamesOf(fs) = NamesOf(gs)
  BY <1>2, <1>3 DEF NamesOf
<1>5. AllNames(gs) = NamesOf(gs) \cup {gs[i].relationName : i \in DOMAIN gs}
  BY DEF AllNames
\* a name that is not reserved and is some field's is not a managed column
<1>6. ASSUME NEW i \in DOMAIN ds, fs[i].relationName \notin ReservedNames
      PROVE  fs[i].relationName \notin (Columns(fs, o) \ NamesOf(fs)) \ {TenantKey}
  <2>1. fs[i].relationName \in AllNames(gs)
    BY <1>2, <1>3, <1>5
  <2>2. /\ o.audit => fs[i].relationName \notin AuditNames
        /\ o.version => fs[i].relationName # "version_id"
    BY <1>1, <2>1 DEF ValidTogether, ValidModule
  <2>. QED
    BY <1>6, <2>2, ManagedColumns
<1>7. ASSUME NEW i \in DOMAIN ds, fs[i].relation = "self_many_to_one"
      PROVE  /\ fs[i].relationName \notin NamesOf(fs) /\ fs[i].backref \notin NamesOf(fs)
             /\ \A j \in DOMAIN ds \ {i} :
                   /\ fs[j].relationName # fs[i].relationName /\ fs[j].relationName # fs[i].backref
                   /\ fs[j].relation = "self_many_to_one" =>
                         fs[j].backref # fs[i].relationName /\ fs[j].backref # fs[i].backref
  <2>1. SelfNames(gs, i)
    BY <1>1, <1>2, <1>3, <1>7 DEF ValidTogether, SelfRelationships
  <2>2. ASSUME NEW j \in DOMAIN ds \ {i}
        PROVE  /\ gs[j].relationName \notin {gs[i].relationName, gs[i].backref}
               /\ ~(gs[j].class = gs[i].class /\ gs[j].backref \in {gs[i].relationName, gs[i].backref})
    <3>1. gs[j] \in Others(gs, i)
      BY <1>2 DEF Others
    <3>. QED
      BY <2>1, <3>1 DEF SelfNames
  <2>3. \A j \in DOMAIN ds : fs[j].relation = "self_many_to_one" => fs[j].class = ModuleName
    BY <1>3 DEF Parsed
  <2>4. gs[i].relationName \notin NamesOf(gs) /\ gs[i].backref \notin NamesOf(gs)
    BY <2>1 DEF SelfNames
  <2>5. ASSUME NEW j \in DOMAIN ds \ {i}
        PROVE  /\ fs[j].relationName # fs[i].relationName /\ fs[j].relationName # fs[i].backref
               /\ fs[j].relation = "self_many_to_one" =>
                         fs[j].backref # fs[i].relationName /\ fs[j].backref # fs[i].backref
    BY <1>3, <1>7, <2>2, <2>3
  <2>. QED
    BY <1>3, <1>4, <2>4, <2>5
<1>8. ASSUME NEW i \in DOMAIN ds, fs[i].relation # "self_many_to_one",
             (fs[i].relation = "many_to_one" /\ fs[i].backref # "none") \/ Has(fs[i], "cascade_delete")
      PROVE  /\ fs[i].relationName \notin NamesOf(fs) /\ fs[i].relationName \notin ReservedNames
             /\ \A j \in DOMAIN ds \ {i} : fs[j].relationName # fs[i].relationName
  <2>1. \A j \in DOMAIN ds \ {i} : gs[j] \in Others(gs, i)
    BY <1>2 DEF Others
  <2>2. CASE Has(fs[i], "cascade_delete")
    <3>1. Has(gs[i], "cascade_delete")
      BY <1>3, <2>2 DEF Has
    <3>2. /\ gs[i].relationName \notin ReservedNames /\ gs[i].relationName \notin NamesOf(gs)
          /\ \A o2 \in Others(gs, i) : o2.relationName # gs[i].relationName
      BY <1>1, <1>2, <3>1 DEF ValidTogether, Cascades
    <3>. QED
      BY <1>3, <1>4, <2>1, <3>2
  <2>3. CASE fs[i].relation = "many_to_one" /\ fs[i].backref # "none"
    <3>1. gs[i].relation = "many_to_one" /\ gs[i].backref # "none"
      BY <1>3, <2>3
    <3>2. /\ gs[i].relationName \notin NamesOf(gs)
          /\ \A o2 \in Others(gs, i) : o2.relationName # gs[i].relationName
      BY <1>1, <1>2, <3>1 DEF ValidTogether, OneToManyNames
    <3>3. fs[i].relationName \notin ReservedNames
      BY <1>3, <2>3 DEF Parsed
    <3>. QED
      BY <1>3, <1>4, <2>1, <3>2, <3>3
  <2>. QED
    BY <1>8, <2>2, <2>3
<1>9. ASSUME NEW i \in DOMAIN fs,
                \/ fs[i].relation = "self_many_to_one"
                \/ fs[i].relation = "many_to_one" /\ fs[i].backref # "none"
                \/ Has(fs[i], "cascade_delete")
      PROVE  /\ fs[i].relationName \notin (Columns(fs, o) \ NamesOf(fs)) \ {TenantKey}
             /\ added(fs[i]) \cap (NamesOf(fs) \cup Generated) = {}
             /\ \A j \in DOMAIN fs \ {i} : added(fs[j]) \cap added(fs[i]) = {}
  <2>1. CASE fs[i].relation = "self_many_to_one"
    <3>1. fs[i].relationName \notin ReservedNames /\ fs[i].backref \notin ReservedNames
      BY <1>2, <1>3, <2>1 DEF Parsed
    <3>2. added(fs[i]) \cap (NamesOf(fs) \cup Generated) = {}
      BY <1>2, <1>7, <2>1, <3>1 DEF ReservedNames
    <3>. QED
      BY <1>2, <1>6, <1>7, <2>1, <3>1, <3>2
  <2>2. CASE fs[i].relation # "self_many_to_one"
    <3>1. /\ fs[i].relationName \notin NamesOf(fs) /\ fs[i].relationName \notin ReservedNames
          /\ \A j \in DOMAIN fs \ {i} : fs[j].relationName # fs[i].relationName
      BY <1>2, <1>8, <1>9, <2>2
    <3>2. ASSUME NEW j \in DOMAIN fs \ {i} PROVE added(fs[j]) \cap added(fs[i]) = {}
      <4>1. CASE fs[j].relation = "self_many_to_one"
        BY <1>2, <1>7, <2>2, <3>1, <4>1
      <4>2. CASE fs[j].relation # "self_many_to_one"
        BY <2>2, <3>1, <4>2
      <4>. QED
        BY <4>1, <4>2
    <3>3. added(fs[i]) \cap (NamesOf(fs) \cup Generated) = {}
      BY <2>2, <3>1 DEF ReservedNames
    <3>. QED
      BY <1>2, <1>6, <2>2, <3>1, <3>2, <3>3
  <2>. QED
    BY <2>1, <2>2
<1>. QED
  BY <1>9 DEF fs

\* In every accepted module the names of a collection, a cascade or a self
\* relationship are told apart from fields, columns and each other as far as
\* they are compared, whatever is declared, in which order, and with which
\* options.
THEOREM RelationshipsHaveTheirNames == Spec => []RelationshipNamesDistinct
<1>1. DeclarationInv => RelationshipNamesDistinct
  BY NamesDistinct DEF DeclarationInv, RelationshipNamesDistinct
<1>2. DeclarationInv /\ [Next]_operationVars => DeclarationInv'
  BY DeclarationInvNext, ServicesApart
<1>. QED
  BY <1>1, <1>2, DeclarationInvInit, PTL DEF Spec

\* a sequence of fields in another order, two of them having changed places
Reordered(fs, gs, p) ==
    /\ DOMAIN gs = DOMAIN fs /\ p \in [DOMAIN fs -> DOMAIN fs]
    /\ \A i \in DOMAIN fs : p[p[i]] = i /\ gs[i] = fs[p[i]]

LEMMA ReorderedBack ==
    ASSUME NEW fs, NEW gs, NEW p, Reordered(fs, gs, p)
    PROVE  Reordered(gs, fs, p)
BY DEF Reordered

\* what the validators see of the fields but for their order
LEMMA ReorderedSets ==
    ASSUME NEW fs, NEW gs, NEW p, Reordered(fs, gs, p), NEW o
    PROVE  /\ NamesOf(gs) = NamesOf(fs)
           /\ AllNames(gs) = AllNames(fs)
           /\ \A names : Reads(gs, names) = Reads(fs, names)
           /\ Scopes(gs) = Scopes(fs)
           /\ {fs[i].name : i \in DOMAIN fs} = {gs[i].name : i \in DOMAIN gs}
           /\ \A i \in DOMAIN fs : Others(gs, i) = Others(fs, p[i])
<1> USE DEF Reordered
<1>1. NamesOf(gs) = NamesOf(fs)
  BY DEF NamesOf
<1>2. {fs[i].relationName : i \in DOMAIN fs} = {gs[i].relationName : i \in DOMAIN gs}
  OBVIOUS
<1>3. AllNames(gs) = AllNames(fs)
  BY <1>1, <1>2 DEF AllNames
<1>4. ASSUME NEW names PROVE Reads(gs, names) = Reads(fs, names)
  BY DEF Reads
<1>5. {fs[i].scope : i \in DOMAIN fs} = {gs[i].scope : i \in DOMAIN gs}
  OBVIOUS
<1>6. Scopes(gs) = Scopes(fs)
  BY <1>5 DEF Scopes
<1>7. ASSUME NEW i \in DOMAIN fs PROVE Others(gs, i) = Others(fs, p[i])
  <2>1. \A j \in DOMAIN fs \ {i} : p[j] \in DOMAIN fs \ {p[i]} /\ gs[j] = fs[p[j]]
    OBVIOUS
  <2>2. \A j \in DOMAIN fs \ {p[i]} : p[j] \in DOMAIN fs \ {i} /\ gs[p[j]] = fs[j]
    OBVIOUS
  <2>. QED
    BY <2>1, <2>2 DEF Others
<1>. QED
  BY <1>1, <1>3, <1>4, <1>6, <1>7 DEF NamesOf

LEMMA ReorderedKeys ==
    ASSUME NEW fs, NEW gs, NEW p, Reordered(fs, gs, p), NEW o
    PROVE  /\ \A i \in DOMAIN fs : i \in PrimaryKeys(gs) <=> p[i] \in PrimaryKeys(fs)
           /\ PrimaryKeys(gs) = {} <=> PrimaryKeys(fs) = {}
           /\ (\A i, j \in PrimaryKeys(fs) : i = j) => (\A i, j \in PrimaryKeys(gs) : i = j)
           /\ {[name |-> fs[i].name, type |-> fs[i].type] : i \in PrimaryKeys(fs)}
                  = {[name |-> gs[i].name, type |-> gs[i].type] : i \in PrimaryKeys(gs)}
           /\ IndexColumns(gs, o) = IndexColumns(fs, o)
<1>0. PrimaryKeys(fs) \subseteq DOMAIN fs /\ PrimaryKeys(gs) \subseteq DOMAIN fs
  BY DEF PrimaryKeys, Reordered
<1>1. \A i \in DOMAIN fs : i \in PrimaryKeys(gs) <=> p[i] \in PrimaryKeys(fs)
  BY DEF PrimaryKeys, Has, Reordered
<1>2. \A i \in DOMAIN fs : p[i] \in DOMAIN fs /\ p[p[i]] = i /\ gs[i] = fs[p[i]]
  BY DEF Reordered
<1>3. \A i \in PrimaryKeys(fs) : p[i] \in PrimaryKeys(gs) /\ gs[p[i]] = fs[i]
  BY <1>0, <1>1, <1>2
<1>4. PrimaryKeys(gs) = {} <=> PrimaryKeys(fs) = {}
  BY <1>0, <1>1, <1>2
<1>5. (\A i, j \in PrimaryKeys(fs) : i = j) => (\A i, j \in PrimaryKeys(gs) : i = j)
  BY <1>0, <1>1, <1>2
<1>6. {[name |-> fs[i].name, type |-> fs[i].type] : i \in PrimaryKeys(fs)}
          = {[name |-> gs[i].name, type |-> gs[i].type] : i \in PrimaryKeys(gs)}
  <2>1. \A i \in PrimaryKeys(fs) : \E j \in PrimaryKeys(gs) : gs[j] = fs[i]
    BY <1>3
  <2>2. \A i \in PrimaryKeys(gs) : \E j \in PrimaryKeys(fs) : fs[j] = gs[i]
    BY <1>0, <1>1, <1>2
  <2>. QED
    BY <2>1, <2>2
<1>7. {gs[i].name : i \in {j \in DOMAIN gs : gs[j].relation # "many_to_many" /\ HasNone(gs[j], {"hybrid", "encrypted"})}}
        = {fs[i].name : i \in {j \in DOMAIN fs : fs[j].relation # "many_to_many" /\ HasNone(fs[j], {"hybrid", "encrypted"})}}
  <2> DEFINE C(f) == f.relation # "many_to_many" /\ HasNone(f, {"hybrid", "encrypted"})
  <2>1. DOMAIN gs = DOMAIN fs
    BY DEF Reordered
  <2> HIDE DEF C
  <2>2. {gs[i].name : i \in {j \in DOMAIN gs : C(gs[j])}} = {fs[i].name : i \in {j \in DOMAIN fs : C(fs[j])}}
    BY <1>2, <2>1
  <2>. QED
    BY <2>2 DEF C
<1>8. IndexColumns(gs, o) = IndexColumns(fs, o)
  BY <1>4, <1>7 DEF IndexColumns
<1>. QED
  BY <1>1, <1>4, <1>5, <1>6, <1>8

LEMMA ReorderedValid ==
    ASSUME NEW fs, NEW gs, NEW p, Reordered(fs, gs, p), NEW o, ValidTogether(fs, o)
    PROVE  ValidTogether(gs, o)
<1>0. /\ DOMAIN gs = DOMAIN fs
      /\ \A i \in DOMAIN fs : p[i] \in DOMAIN fs /\ p[p[i]] = i /\ gs[i] = fs[p[i]]
  BY DEF Reordered
<1>s. /\ NamesOf(gs) = NamesOf(fs)
      /\ AllNames(gs) = AllNames(fs)
      /\ \A names : Reads(gs, names) = Reads(fs, names)
      /\ Scopes(gs) = Scopes(fs)
      /\ \A i \in DOMAIN fs : Others(gs, i) = Others(fs, p[i])
  BY ReorderedSets
<1>k. /\ \A i \in DOMAIN fs : i \in PrimaryKeys(gs) <=> p[i] \in PrimaryKeys(fs)
      /\ (\A i, j \in PrimaryKeys(fs) : i = j) => (\A i, j \in PrimaryKeys(gs) : i = j)
      /\ IndexColumns(gs, o) = IndexColumns(fs, o)
  BY ReorderedKeys
<1>1. ValidFields(gs)
  BY <1>0 DEF ValidTogether, ValidFields
<1>2. OneToManyNames(gs)
  <2> SUFFICES ASSUME NEW i \in DOMAIN fs, gs[i].relation = "many_to_one" /\ gs[i].backref # "none"
               PROVE  /\ gs[i].relationName \notin NamesOf(gs)
                      /\ \A x \in Others(gs, i) :
                            /\ x.relationName # gs[i].relationName
                            /\ ~(x.class = gs[i].class /\ x.backref = gs[i].backref)
    BY <1>0 DEF OneToManyNames
  <2>. QED
    BY <1>0, <1>s DEF ValidTogether, OneToManyNames
<1>3. SelfRelationships(gs)
  <2> DEFINE keys(hs) == {[name |-> hs[i].name, type |-> hs[i].type] : i \in PrimaryKeys(hs)}
             key(ks) == IF ks = {} THEN [name |-> "id", type |-> "int"] ELSE CHOOSE k \in ks : TRUE
             selves(hs) == {i \in DOMAIN hs : hs[i].relation = "self_many_to_one"}
  <2>1. keys(gs) = keys(fs)
    BY ReorderedKeys
  <2> HIDE DEF keys, key
  <2>2. ASSUME NEW hs
        PROVE  SelfRelationships(hs) <=>
                 (selves(hs) # {} =>
                    /\ \A i, j \in PrimaryKeys(hs) : i = j /\ ~Has(hs[i], "computed")
                    /\ keys(hs) = {} => "id" \notin NamesOf(hs)
                    /\ \A i \in selves(hs) :
                          /\ hs[i].key = key(keys(hs)).name /\ hs[i].type = key(keys(hs)).type
                          /\ hs[i].name # key(keys(hs)).name
                          /\ hs[i].relationName # hs[i].backref
                          /\ SelfNames(hs, i))
    BY Zenon DEF SelfRelationships, keys, key
  <2>3. \A i \in selves(gs) : p[i] \in selves(fs)
    BY <1>0
  <2>4. \A i \in DOMAIN fs : SelfNames(fs, p[i]) => SelfNames(gs, i)
    BY <1>0, <1>s DEF SelfNames
  <2>5. selves(gs) \subseteq DOMAIN fs
    BY <1>0
  <2>6. PrimaryKeys(gs) \subseteq DOMAIN fs
    BY <1>0 DEF PrimaryKeys
  <2> HIDE DEF selves
  <2> SUFFICES ASSUME selves(gs) # {}
               PROVE  /\ \A i, j \in PrimaryKeys(gs) : i = j /\ ~Has(gs[i], "computed")
                      /\ keys(gs) = {} => "id" \notin NamesOf(gs)
                      /\ \A i \in selves(gs) :
                            /\ gs[i].key = key(keys(gs)).name /\ gs[i].type = key(keys(gs)).type
                            /\ gs[i].name # key(keys(gs)).name
                            /\ gs[i].relationName # gs[i].backref
                            /\ SelfNames(gs, i)
    BY <2>2
  <2>7. /\ \A i, j \in PrimaryKeys(fs) : i = j /\ ~Has(fs[i], "computed")
        /\ keys(fs) = {} => "id" \notin NamesOf(fs)
        /\ \A i \in selves(fs) :
              /\ fs[i].key = key(keys(fs)).name /\ fs[i].type = key(keys(fs)).type
              /\ fs[i].name # key(keys(fs)).name
              /\ fs[i].relationName # fs[i].backref
              /\ SelfNames(fs, i)
    <3>1. selves(fs) # {}
      BY <2>3
    <3>. QED
      BY <2>2, <3>1 DEF ValidTogether
  <2>8. \A i, j \in PrimaryKeys(gs) : i = j /\ ~Has(gs[i], "computed")
    BY <1>0, <1>k, <2>6, <2>7 DEF Has
  <2>9. keys(gs) = {} => "id" \notin NamesOf(gs)
    BY <1>s, <2>1, <2>7
  <2>10. ASSUME NEW i \in selves(gs)
         PROVE  /\ gs[i].key = key(keys(gs)).name /\ gs[i].type = key(keys(gs)).type
                /\ gs[i].name # key(keys(gs)).name
                /\ gs[i].relationName # gs[i].backref
                /\ SelfNames(gs, i)
    <3>1. i \in DOMAIN fs /\ p[i] \in selves(fs) /\ gs[i] = fs[p[i]]
      BY <1>0, <2>3, <2>5
    <3>2. keys(gs) = keys(fs) /\ SelfNames(gs, i)
      BY <2>1, <2>4, <2>7, <3>1
    <3>. QED
      BY <2>7, <3>1, <3>2
  <2>. QED
    BY <2>8, <2>9, <2>10
<1>4. Cascades(gs)
  <2>1. \A i \in DOMAIN gs : Has(gs[i], "passive_deletes") => Has(gs[i], "cascade_delete")
    BY <1>0 DEF ValidTogether, Cascades
  <2>2. (\E i \in DOMAIN gs : Has(gs[i], "cascade_delete")) =>
            \A i \in DOMAIN gs : {gs[i].name, gs[i].relationName} \cap {"backref", "relationship"} = {}
    <3>1. (\E i \in DOMAIN fs : Has(fs[i], "cascade_delete")) =>
              \A i \in DOMAIN fs : {fs[i].name, fs[i].relationName} \cap {"backref", "relationship"} = {}
      BY DEF ValidTogether, Cascades
    <3>. QED
      BY <1>0, <3>1
  <2>3. ASSUME NEW i \in DOMAIN gs, Has(gs[i], "cascade_delete")
        PROVE  /\ gs[i].relation \in {"many_to_one", "one_to_one", "self_many_to_one"} /\ gs[i].backref # "none"
               /\ Has(gs[i], "fk") /\ gs[i].type \in KeyTypes /\ ~Has(gs[i], "computed")
               /\ Value(gs[i], "fk").table = ModuleTable => gs[i].relation = "self_many_to_one"
               /\ \A n \in {gs[i].relationName, gs[i].class, gs[i].backref} : ValidName(n) /\ n \notin ReservedNames
               /\ gs[i].relationName \notin NamesOf(gs)
               /\ \A x \in Others(gs, i) :
                     /\ x.relationName # gs[i].relationName
                     /\ ~(x.class = gs[i].class /\ x.backref = gs[i].backref)
    <3>1. p[i] \in {j \in DOMAIN fs : Has(fs[j], "cascade_delete")} /\ gs[i] = fs[p[i]]
      BY <1>0, <2>3
    <3>2. NamesOf(gs) = NamesOf(fs) /\ Others(gs, i) = Others(fs, p[i])
      BY <1>0, <1>s
    <3> HIDE DEF Has, Value
    <3>3. LET j == p[i] IN
               /\ fs[j].relation \in {"many_to_one", "one_to_one", "self_many_to_one"} /\ fs[j].backref # "none"
               /\ Has(fs[j], "fk") /\ fs[j].type \in KeyTypes /\ ~Has(fs[j], "computed")
               /\ Value(fs[j], "fk").table = ModuleTable => fs[j].relation = "self_many_to_one"
               /\ \A n \in {fs[j].relationName, fs[j].class, fs[j].backref} : ValidName(n) /\ n \notin ReservedNames
               /\ fs[j].relationName \notin NamesOf(fs)
               /\ \A x \in Others(fs, j) :
                     /\ x.relationName # fs[j].relationName
                     /\ ~(x.class = fs[j].class /\ x.backref = fs[j].backref)
      BY <3>1, Zenon DEF ValidTogether, Cascades
    <3>. QED
      BY <3>1, <3>2, <3>3
  <2>. QED
    BY <2>1, <2>2, <2>3 DEF Cascades
<1>5. ASSUME NEW i \in DOMAIN gs PROVE Encrypted(gs[i]) /\ Computed(gs, gs[i]) /\ Hybrid(gs, gs[i])
  <2>1. gs[i] = fs[p[i]] /\ p[i] \in DOMAIN fs
    BY <1>0
  <2>2. Encrypted(fs[p[i]]) /\ Computed(fs, fs[p[i]]) /\ Hybrid(fs, fs[p[i]])
    BY <2>1 DEF ValidTogether
  <2>3. \A f : Computed(gs, f) <=> Computed(fs, f)
    BY <1>s DEF Computed
  <2>4. \A f : Hybrid(gs, f) <=> Hybrid(fs, f)
    BY <1>s DEF Hybrid
  <2>. QED
    BY <2>1, <2>2, <2>3, <2>4
<1>6. ValidIndexes(gs, o)
  BY <1>k DEF ValidTogether, ValidIndexes
<1>7. ValidModule(gs, o)
  BY <1>s, <1>k DEF ValidTogether, ValidModule
<1>. QED
  BY <1>1, <1>2, <1>3, <1>4, <1>5, <1>6, <1>7 DEF ValidTogether

\* modifiers that change places make the same field
LEMMA SwapIs ==
    ASSUME NEW S, NEW s \in Seq(S), NEW i \in 1 .. Len(s) - 1
    PROVE  /\ Swap(s, i) \in Seq(S) /\ Len(Swap(s, i)) = Len(s) /\ DOMAIN Swap(s, i) = DOMAIN s
           /\ Swap(s, i)[i] = s[i + 1] /\ Swap(s, i)[i + 1] = s[i]
           /\ \A j \in DOMAIN s \ {i, i + 1} : Swap(s, i)[j] = s[j]
BY DEF Swap

LEMMA SeqOfItsElements ==
    ASSUME NEW S, NEW s \in Seq(S)
    PROVE  s \in Seq(ToSet(s))
BY DEF ToSet

LEMMA ModifiedSwapped ==
    ASSUME NEW d, WellDeclared(d), NEW e, WellDeclared(e), NEW i \in 1 .. Len(d.modifiers) - 1,
           Exchangeable(d.modifiers, i), e.modifiers = Swap(d.modifiers, i), Unmodified(e) = Unmodified(d)
    PROVE  Modified(e) = Modified(d)
<1> DEFINE n == Len(d.modifiers)
           s == d.modifiers
           r == e.modifiers
<1>1. s \in Seq(ToSet(s)) /\ \A j \in 1 .. n : s[j].kind \in Kinds
  BY DEF WellDeclared
<1>2. /\ Len(r) = n /\ n \in Nat
      /\ r[i] = s[i + 1] /\ r[i + 1] = s[i]
      /\ \A j \in 1 .. n : j \notin {i, i + 1} => r[j] = s[j]
  <2> DEFINE w == Swap(s, i)
  <2>1. n \in Nat /\ DOMAIN s = 1 .. n /\ r = w
    BY <1>1
  <2>2. /\ Len(w) = n /\ w[i] = s[i + 1] /\ w[i + 1] = s[i]
        /\ \A j \in DOMAIN s \ {i, i + 1} : w[j] = s[j]
    BY <1>1, SwapIs
  <2> HIDE DEF w, n, r, s
  <2>. QED
    BY <2>1, <2>2
<1>3. PICK f : IsReading(f, d, n) /\ Modified(d) = f[n]
  BY <1>2, ModifiedIs
<1>4. PICK g : IsReading(g, e, n) /\ Modified(e) = g[n]
  BY <1>2, ModifiedIs
<1>5. f[0] = Unmodified(d) /\ \A j \in 1 .. n : f[j] = Modify(f[j - 1], s[j])
  BY <1>3 DEF IsReading
<1>6. g[0] = Unmodified(d) /\ \A j \in 1 .. n : g[j] = Modify(g[j - 1], r[j])
  BY <1>4 DEF IsReading
<1>7. \A j \in 0 .. n : f[j] = Refused \/ Shaped(f[j])
  BY <1>2, <1>3, ReadingShaped
<1> HIDE DEF n, s, r
<1> DEFINE K == {k \in Nat : k <= n => \A j \in 0 .. k : j # i => g[j] = f[j]}
<1>8. 0 \in K
  BY <1>5, <1>6
<1>9. ASSUME NEW k \in Nat, k \in K PROVE k + 1 \in K
  <2> SUFFICES ASSUME k + 1 <= n PROVE \A j \in 0 .. k + 1 : j # i => g[j] = f[j]
    BY <1>9
  <2>1. \A j \in 0 .. k : j # i => g[j] = f[j]
    BY <1>2, <1>9
  <2>0. (k + 1 # i => g[k + 1] = f[k + 1]) => \A j \in 0 .. k + 1 : j # i => g[j] = f[j]
    <3>1. \A j \in 0 .. k + 1 : j \in 0 .. k \/ j = k + 1
      BY <1>9
    <3>. QED
      BY <2>1, <3>1
  <2> SUFFICES ASSUME k + 1 # i PROVE g[k + 1] = f[k + 1]
    BY <2>0
  <2>2. f[k + 1] = Modify(f[k], s[k + 1]) /\ g[k + 1] = Modify(g[k], r[k + 1])
    BY <1>2, <1>5, <1>6
  <2>3. CASE k = i
    <3>1. i - 1 \in 0 .. k /\ i - 1 # i /\ i \in 1 .. n /\ i + 1 \in 1 .. n
      BY <1>2, <2>3
    <3>2. g[i - 1] = f[i - 1]
      BY <2>1, <3>1
    <3>3. f[i] = Modify(f[i - 1], s[i]) /\ g[i] = Modify(f[i - 1], s[i + 1])
      BY <1>2, <1>5, <1>6, <3>1, <3>2
    <3>4. f[i + 1] = Modify(Modify(f[i - 1], s[i]), s[i + 1])
          /\ g[i + 1] = Modify(Modify(f[i - 1], s[i + 1]), s[i])
      BY <1>2, <2>2, <2>3, <3>3
    <3>5. /\ s[i].kind \in Kinds \ {"regex"} /\ s[i + 1].kind \in Kinds \ {"regex"}
          /\ s[i].kind # "validator" \/ s[i + 1].kind # "validator"
      BY <1>1, <3>1 DEF n, s, Exchangeable
    <3>8. f[i - 1] = Refused \/ f[i - 1].regex = {}
      <4>1. i - 1 \in 0 .. Len(d.modifiers) /\ \A j \in 1 .. i - 1 : d.modifiers[j].kind # "regex"
        BY <1>2, <3>1 DEF n, s, Exchangeable
      <4>. QED
        BY <1>3, <4>1, ReadingOpen DEF n
    <3>6. CASE f[i - 1] = Refused
      BY <2>3, <3>4, <3>6, RefusedStays
    <3>7. CASE Shaped(f[i - 1])
      BY <2>3, <3>4, <3>5, <3>7, <3>8, ShapedIsAccepted, ModifiersCommute
    <3>. QED
      BY <1>2, <1>7, <3>1, <3>6, <3>7
  <2>4. CASE k # i
    <3>1. k \in 0 .. k /\ k + 1 \in 1 .. n /\ k + 1 \notin {i, i + 1}
      BY <1>2, <2>4
    <3>. QED
      BY <1>2, <2>1, <2>2, <2>4, <3>1
  <2>. QED
    BY <2>3, <2>4
<1> HIDE DEF K
<1>10. n \in K
  BY <1>2, <1>8, <1>9, EveryNumber
<1>11. n # i /\ n \in 0 .. n
  BY <1>2 DEF n
<1>. QED
  BY <1>2, <1>3, <1>4, <1>10, <1>11 DEF K

LEMMA FieldSwapped ==
    ASSUME NEW d, WellDeclared(d), NEW i \in 1 .. Len(d.modifiers) - 1, Exchangeable(d.modifiers, i),
           NEW e, e = [d EXCEPT !.modifiers = Swap(@, i)]
    PROVE  WellDeclared(e) /\ ParseField(e) = ParseField(d)
<1> DEFINE s == d.modifiers
           r == Swap(s, i)
<1>1. /\ s \in Seq(ToSet(s)) /\ \A j \in DOMAIN s : s[j].kind \in Kinds
      /\ i \in DOMAIN s /\ i + 1 \in DOMAIN s /\ Len(s) > 1
  BY DEF WellDeclared
<1>2. /\ e.modifiers = r /\ DOMAIN e = DOMAIN d
      /\ e.name = d.name /\ e.type = d.type /\ e.target = d.target
  BY DEF WellDeclared
<1>3. /\ r \in Seq(ToSet(s)) /\ Len(r) = Len(s) /\ DOMAIN r = DOMAIN s
      /\ r[i] = s[i + 1] /\ r[i + 1] = s[i]
      /\ \A j \in DOMAIN s \ {i, i + 1} : r[j] = s[j]
  BY <1>1, SwapIs
<1>4. r \in Seq(ToSet(r)) /\ \A j \in DOMAIN r : r[j].kind \in Kinds
  <2>1. \A j \in DOMAIN r : \E k \in DOMAIN s : r[j] = s[k]
    BY <1>1, <1>3
  <2>2. \A j \in DOMAIN r : r[j].kind \in Kinds
    BY <1>1, <2>1
  <2>3. r \in Seq(ToSet(r))
    BY <1>3, SeqOfItsElements
  <2>. QED
    BY <2>2, <2>3
<1>5. Unmodified(e) = Unmodified(d)
  BY <1>2 DEF Unmodified
<1> HIDE DEF r
<1>6. WellDeclared(e)
  BY <1>2, <1>4 DEF WellDeclared
<1>7. CASE d.type = "many_to_many"
  <2>1. Collection(d) = Refused
    BY <1>1 DEF Collection
  <2>2. Collection(e) = Refused
    BY <1>1, <1>2, <1>3 DEF Collection
  <2>. QED
    BY <1>2, <1>6, <1>7, <2>1, <2>2 DEF ParseField
<1>8. CASE d.type # "many_to_many"
  <2>1. Modified(e) = Modified(d)
    BY <1>2, <1>5, <1>6, ModifiedSwapped DEF r
  <2>. QED
    BY <1>2, <1>6, <1>8, <2>1 DEF ParseField
<1>. QED
  BY <1>7, <1>8

LEMMA ParseSame ==
    ASSUME NEW ds, NEW es, NEW o, DOMAIN es = DOMAIN ds,
           \A i \in DOMAIN ds : ParseField(es[i]) = ParseField(ds[i])
    PROVE  Parse(es, o) = Parse(ds, o)
<1>1. FieldsRead(es) = FieldsRead(ds)
  BY DEF FieldsRead
<1>. QED
  BY <1>1, ParseIs

LEMMA ModifiersInAnyOrder ==
    ASSUME NEW S, NEW ds \in Seq(S), \A k \in DOMAIN ds : WellDeclared(ds[k]), NEW o,
           NEW f \in DOMAIN ds, NEW i \in 1 .. Len(ds[f].modifiers) - 1, Exchangeable(ds[f].modifiers, i)
    PROVE  Parse([ds EXCEPT ![f].modifiers = Swap(@, i)], o) = Parse(ds, o)
<1> DEFINE e == [ds[f] EXCEPT !.modifiers = Swap(@, i)]
           es == [ds EXCEPT ![f] = e]
<1>1. [ds EXCEPT ![f].modifiers = Swap(@, i)] = es
  OBVIOUS
<1>2. ParseField(e) = ParseField(ds[f])
  BY FieldSwapped
<1> HIDE DEF e
<1>3. DOMAIN es = DOMAIN ds /\ \A k \in DOMAIN ds : es[k] = IF k = f THEN e ELSE ds[k]
  OBVIOUS
<1> HIDE DEF es
<1>4. \A k \in DOMAIN ds : ParseField(es[k]) = ParseField(ds[k])
  BY <1>2, <1>3
<1>. QED
  BY <1>1, <1>3, <1>4, ParseSame

\* a module that is accepted is the sequence of its fields
LEMMA AcceptedIs ==
    ASSUME NEW S, NEW ds \in Seq(S), \A k \in DOMAIN ds : WellDeclared(ds[k]), NEW o
    PROVE  Accepted(Parse(ds, o)) <=>
               (\A i \in DOMAIN ds : FieldsRead(ds)[i] # Refused) /\ ValidTogether(FieldsRead(ds), o)
<1> DEFINE all == [i \in DOMAIN ds |-> Scoped(FieldsRead(ds)[i], o)]
<1>1. ASSUME \A i \in DOMAIN ds : FieldsRead(ds)[i] # Refused, all = <<Refused>> PROVE FALSE
  <2>1. 1 \in DOMAIN ds /\ Scoped(FieldsRead(ds)[1], o) = Refused
    <3>1. DOMAIN all = {1} /\ all[1] = Refused
      BY <1>1
    <3>. QED
      BY <3>1
  <2>2. FieldsRead(ds)[1] = ParseField(ds[1])
    BY <2>1 DEF FieldsRead
  <2>3. Parsed(FieldsRead(ds)[1])
    BY <1>1, <2>1, <2>2, ParseFieldIs
  <2>. QED
    BY <2>1, <2>3, ScopedIs, ParsedIsAccepted
<1>2. Parse(ds, o) = IF (\A i \in DOMAIN ds : FieldsRead(ds)[i] # Refused) /\ ValidTogether(FieldsRead(ds), o)
                     THEN all ELSE <<Refused>>
  BY ParseIs
<1> HIDE DEF all
<1>. QED
  BY <1>1, <1>2 DEF Accepted

LEMMA FieldsInAnyOrder ==
    ASSUME NEW S, NEW ds \in Seq(S), \A k \in DOMAIN ds : WellDeclared(ds[k]), NEW o,
           NEW f \in 1 .. Len(ds) - 1
    PROVE  LET swapped == Parse(Swap(ds, f), o)
           IN  IF Accepted(Parse(ds, o)) THEN swapped = Swap(Parse(ds, o), f) ELSE ~Accepted(swapped)
<1> DEFINE es == Swap(ds, f)
           p == [i \in DOMAIN ds |-> IF i = f THEN f + 1 ELSE IF i = f + 1 THEN f ELSE i]
           fs == FieldsRead(ds)
           gs == FieldsRead(es)
<1>1. /\ es \in Seq(S) /\ Len(es) = Len(ds) /\ DOMAIN es = DOMAIN ds
      /\ es[f] = ds[f + 1] /\ es[f + 1] = ds[f]
      /\ \A j \in DOMAIN ds \ {f, f + 1} : es[j] = ds[j]
      /\ f \in DOMAIN ds /\ f + 1 \in DOMAIN ds /\ f # f + 1
  BY SwapIs
<1> HIDE DEF es
<1>2. \A i \in DOMAIN ds : p[i] \in DOMAIN ds /\ p[p[i]] = i /\ es[i] = ds[p[i]]
  BY <1>1
<1>2a. p \in [DOMAIN ds -> DOMAIN ds]
  BY <1>2
<1>2b. p[f] = f + 1 /\ p[f + 1] = f /\ \A j \in DOMAIN ds \ {f, f + 1} : p[j] = j
  BY <1>1
<1> HIDE DEF p
<1>3. /\ DOMAIN fs = DOMAIN ds /\ DOMAIN gs = DOMAIN ds
      /\ \A i \in DOMAIN ds : fs[i] = ParseField(ds[i]) /\ gs[i] = fs[p[i]]
  BY <1>1, <1>2 DEF FieldsRead
<1> HIDE DEF fs, gs
<1>4. Reordered(fs, gs, p) /\ Reordered(gs, fs, p)
  <2>1. Reordered(fs, gs, p)
    BY <1>2, <1>2a, <1>3 DEF Reordered
  <2>. QED
    BY <2>1, ReorderedBack
<1>5. ValidTogether(gs, o) <=> ValidTogether(fs, o)
  BY <1>4, ReorderedValid
<1>6. (\A i \in DOMAIN ds : fs[i] # Refused) <=> \A i \in DOMAIN ds : gs[i] # Refused
  BY <1>2, <1>3
<1>7. \A k \in DOMAIN es : WellDeclared(es[k])
  BY <1>1, <1>2
<1>8. Accepted(Parse(ds, o)) <=> (\A i \in DOMAIN ds : fs[i] # Refused) /\ ValidTogether(fs, o)
  BY AcceptedIs DEF fs
<1>9. Accepted(Parse(es, o)) <=> (\A i \in DOMAIN ds : gs[i] # Refused) /\ ValidTogether(gs, o)
  BY <1>1, <1>7, AcceptedIs DEF gs
<1>10. ASSUME Accepted(Parse(ds, o)) PROVE Parse(es, o) = Swap(Parse(ds, o), f)
  <2> DEFINE module == [i \in DOMAIN ds |-> Scoped(fs[i], o)]
             other == [i \in DOMAIN ds |-> Scoped(gs[i], o)]
  <2>1. Parse(ds, o) = module
    BY <1>8, <1>10, ParseIs DEF fs
  <2>2. Parse(es, o) = other
    BY <1>1, <1>5, <1>6, <1>8, <1>10, ParseIs DEF gs
  <2>3. \A i \in DOMAIN ds : other[i] = module[p[i]]
    BY <1>2, <1>3
  <2>4. Swap(module, f) = [i \in DOMAIN ds |-> module[p[i]]]
    BY <1>1, <1>2b DEF Swap
  <2>5. other = [i \in DOMAIN ds |-> module[p[i]]]
    BY <1>2, <1>3
  <2>. QED
    BY <2>1, <2>2, <2>4, <2>5
<1>. QED
  BY <1>5, <1>6, <1>8, <1>9, <1>10 DEF es

\* The order in which modifiers are given before a pattern, that of validators
\* among themselves excepted, and the order of fields make no difference to the
\* module that is read, or to its being refused.
THEOREM OrderMakesNoDifference == Spec => []OrderIrrelevant
<1>1. DeclarationInv => OrderIrrelevant
  <2> SUFFICES ASSUME DeclarationInv PROVE OrderIrrelevant
    OBVIOUS
  <2>1. PICK S : declared \in Seq(S) /\ \A k \in DOMAIN declared : WellDeclared(declared[k])
    BY DEF DeclarationInv
  <2>2. ASSUME NEW f \in DOMAIN declared, NEW i \in 1 .. Len(declared[f].modifiers) - 1,
               Exchangeable(declared[f].modifiers, i)
        PROVE  Parse([declared EXCEPT ![f].modifiers = Swap(@, i)], option) = Parse(declared, option)
    BY <2>1, <2>2, ModifiersInAnyOrder
  <2>3. ASSUME NEW f \in 1 .. Len(declared) - 1
        PROVE  LET swapped == Parse(Swap(declared, f), option)
               IN  IF Accepted(Parse(declared, option)) THEN swapped = Swap(Parse(declared, option), f)
                   ELSE ~Accepted(swapped)
    BY <2>1, FieldsInAnyOrder
  <2>. QED
    BY <2>2, <2>3, Zenon DEF OrderIrrelevant
<1>2. DeclarationInv /\ [Next]_operationVars => DeclarationInv'
  BY DeclarationInvNext, ServicesApart
<1>. QED
  BY <1>1, <1>2, DeclarationInvInit, PTL DEF Spec

-----------------------------------------------------------------------------
(* The amendment of a model: every decision answers a question of the      *)
(* parent within its claim, and no name of it was taken.                   *)

DecisionSound(f, d) ==
    /\ d.question \in Questions(f.parent) /\ Fits(d.field, d.question)
    /\ Norm[d.field.name] \notin {Norm[x.name] : x \in EntityIn(f.parent, d.question.entity).fields}
    /\ d.field.domain # None => Norm[d.field.domain] \notin {Norm[x.name] : x \in f.parent.domains}

\* two decisions share no question, no name in an entity and no domain
Apart(d, g) ==
    \/ d.question = g.question
    \/ d.question.entity = g.question.entity /\ Norm[d.field.name] = Norm[g.field.name]
    \/ d.field.domain # None /\ g.field.domain # None /\ Norm[d.field.domain] = Norm[g.field.domain]
    => d = g

FinalizationSound(f) ==
    /\ DOMAIN f = {"parent", "candidates", "decisions"}
    /\ f.parent \in Parents
    /\ IsFiniteSet(f.decisions)
    /\ \A d \in f.decisions : DecisionSound(f, d)
    /\ \A d, g \in f.decisions : Apart(d, g)

AmendmentInv ==
    /\ held # Nothing => FinalizationSound(held)
    /\ revision # Nothing =>
          /\ FinalizationSound(revision.finalization) /\ Consistent(revision.finalization)
          /\ revision.model = Revised(revision.finalization)

LEMMA AnswerSound ==
    ASSUME NEW f, FinalizationSound(f), NEW q \in Unresolved(f), NEW x, AcceptsDeclaration(f, q, x),
           NEW g, g = [f EXCEPT !.decisions = @ \cup {[question |-> q, field |-> x]}]
    PROVE  FinalizationSound(g)
<1> DEFINE new == [question |-> q, field |-> x]
<1>1. DOMAIN g = {"parent", "candidates", "decisions"} /\ g.parent = f.parent /\ g.decisions = f.decisions \cup {new}
  BY DEF FinalizationSound
<1>2. new.question = q /\ new.field = x
  OBVIOUS
<1> HIDE DEF new
<1>3. q \in Questions(f.parent) /\ \A d \in f.decisions : d.question # q
  BY DEF Unresolved
<1>4. /\ Fits(x, q)
      /\ \A y \in EntityIn(f.parent, q.entity).fields : Norm[x.name] # Norm[y.name]
      /\ \A d \in f.decisions : d.question.entity = q.entity => Norm[x.name] # Norm[d.field.name]
  BY DEF AcceptsDeclaration, NoCollisions, NamesOfEntity
<1>5. ASSUME x.domain # None
      PROVE  /\ \A y \in f.parent.domains : y.name # None => Norm[x.domain] # Norm[y.name]
             /\ \A d \in f.decisions : d.field.domain # None => Norm[x.domain] # Norm[d.field.domain]
  BY <1>5 DEF AcceptsDeclaration, NoCollisions, DomainNames
<1>6. DecisionSound(g, new)
  <2>1. \A y \in f.parent.domains : y.name # None
    BY ParentsAssumption DEF FinalizationSound, ParentSound
  <2>2. x.domain # None => Norm[x.domain] \notin {Norm[y.name] : y \in f.parent.domains}
    BY <1>5, <2>1
  <2>3. Norm[x.name] \notin {Norm[y.name] : y \in EntityIn(f.parent, q.entity).fields}
    BY <1>4
  <2>. QED
    BY <1>1, <1>2, <1>3, <1>4, <2>2, <2>3 DEF DecisionSound
<1>7. \A d \in f.decisions : DecisionSound(g, d)
  BY <1>1 DEF FinalizationSound, DecisionSound
<1>8. \A d \in f.decisions : Apart(d, new) /\ Apart(new, d)
  BY <1>2, <1>3, <1>4, <1>5 DEF Apart
<1>9. Apart(new, new)
  BY DEF Apart
<1>10. IsFiniteSet(g.decisions)
  <2>1. IsFiniteSet(f.decisions)
    BY DEF FinalizationSound
  <2>2. IsFiniteSet(f.decisions \cup {new})
    BY <2>1, FS_AddElement
  <2>. QED
    BY <1>1, <2>2
<1>. QED
  BY <1>1, <1>6, <1>7, <1>8, <1>9, <1>10 DEF FinalizationSound

LEMMA AmendmentInvNext ==
    ASSUME AmendmentInv, [AmendmentNext]_amendmentVars
    PROVE  AmendmentInv'
<1>1. CASE UNCHANGED <<held, revision>>
  BY <1>1 DEF AmendmentInv
<1>2. CASE StartAmendment
  <2>0. PICK p \in Parents : \E candidates : held' = StartFor(p, candidates)
    BY <1>2 DEF StartAmendment
  <2>1. PICK candidates : held' = StartFor(p, candidates)
    BY <2>0
  <2>2. /\ DOMAIN StartFor(p, candidates) = {"parent", "candidates", "decisions"}
        /\ StartFor(p, candidates).parent = p /\ StartFor(p, candidates).decisions = {}
    BY DEF StartFor
  <2> DEFINE start == StartFor(p, candidates)
  <2> HIDE DEF start
  <2>3. FinalizationSound(start)
    <3>1. IsFiniteSet({})
      BY FS_EmptySet
    <3>2. IsFiniteSet(start.decisions)
      BY <2>2, <3>1 DEF start
    <3>. QED
      BY <2>2, <3>2 DEF FinalizationSound, start
  <2>. QED
    BY <1>2, <2>1, <2>3 DEF StartAmendment, AmendmentInv, start
<1>3. CASE Resolve
  <2>1. PICK q \in Unresolved(held) : \E d \in {x \in Declarations : AcceptsDeclaration(held, q, x)} :
            held' = [held EXCEPT !.decisions = @ \cup {[question |-> q, field |-> d]}]
    BY <1>3 DEF Resolve
  <2>2. PICK d : /\ AcceptsDeclaration(held, q, d)
                 /\ held' = [held EXCEPT !.decisions = @ \cup {[question |-> q, field |-> d]}]
    BY <2>1
  <2>3. FinalizationSound(held)
    BY <1>3 DEF Resolve, AmendmentInv
  <2>4. FinalizationSound(held')
    BY <2>2, <2>3, AnswerSound
  <2>. QED
    BY <1>3, <2>4 DEF Resolve, AmendmentInv
<1>4. CASE Approve
  <2>1. /\ held # Nothing /\ Consistent(held) /\ held' = held
        /\ revision' = [finalization |-> held, model |-> Revised(held)]
    BY <1>4 DEF Approve
  <2>2. revision'.finalization = held /\ revision'.model = Revised(held) /\ FinalizationSound(held)
    BY <2>1 DEF AmendmentInv
  <2>. QED
    BY <2>1, <2>2 DEF AmendmentInv
<1>5. Invalidate => UNCHANGED <<held, revision>>
  BY DEF Invalidate
<1>. QED
  BY <1>1, <1>2, <1>3, <1>4, <1>5 DEF AmendmentNext, amendmentVars

\* what was declared for the open claims of an entity
Mine(f, e) == {d \in f.decisions : d.question.entity = e.id}
MineFor(f, e, slot) == {d \in Mine(f, e) : d.question.choice.slot = slot}

LEMMA ParentIsSound ==
    ASSUME NEW f, FinalizationSound(f)
    PROVE  /\ f.parent \in Parents /\ ParentSound(f.parent)
           /\ \A e \in f.parent.entities : EntityIn(f.parent, e.id) = e
<1>1. f.parent \in Parents /\ ParentSound(f.parent)
  BY ParentsAssumption DEF FinalizationSound
<1>2. ASSUME NEW e \in f.parent.entities PROVE EntityIn(f.parent, e.id) = e
  BY <1>1 DEF ParentSound, EntityIn
<1>. QED
  BY <1>1, <1>2

LEMMA RevisedEntityIs ==
    ASSUME NEW f, FinalizationSound(f), NEW e \in f.parent.entities, NEW r, r = RevisedEntity(f, e)
    PROVE  /\ r.id = e.id /\ r.choices = e.choices
           /\ r.fields = e.fields \cup {Materialise(d.question, d.field) : d \in Mine(f, e)}
           /\ r.identity = e.identity \cup {d.field.name : d \in MineFor(f, e, "identity")}
           /\ r.lifecycle = e.lifecycle \cup {d.field.domain : d \in MineFor(f, e, "lifecycle")}
<1>1. EntityRecord(e)
  BY ParentIsSound DEF ParentSound
<1> DEFINE OfSlot(slot) == {d.field : d \in {g \in Mine(f, e) : g.question.choice.slot = slot}}
           fs == e.fields \cup {Materialise(d.question, d.field) : d \in Mine(f, e)}
           is == e.identity \cup {x.name : x \in OfSlot("identity")}
           ls == e.lifecycle \cup {x.domain : x \in OfSlot("lifecycle")}
<1>2. RevisedEntity(f, e) = [e EXCEPT !.fields = fs, !.identity = is, !.lifecycle = ls]
  BY DEF RevisedEntity, Mine
<1>3. /\ is = e.identity \cup {d.field.name : d \in MineFor(f, e, "identity")}
      /\ ls = e.lifecycle \cup {d.field.domain : d \in MineFor(f, e, "lifecycle")}
  BY DEF MineFor
<1> HIDE DEF fs, is, ls
<1>4. DOMAIN e = {"id", "fields", "identity", "lifecycle", "choices"}
  BY <1>1 DEF EntityRecord
<1>5. r.id = e.id /\ r.choices = e.choices /\ r.fields = fs /\ r.identity = is /\ r.lifecycle = ls
  BY <1>2, <1>4
<1>. QED
  BY <1>3, <1>5 DEF fs

LEMMA RevisedModelIs ==
    ASSUME NEW f, FinalizationSound(f), NEW m, m = Revised(f)
    PROVE  /\ m.entities = {RevisedEntity(f, e) : e \in f.parent.entities}
           /\ m.domains = f.parent.domains \cup
                 {[name |-> d.field.domain, values |-> d.field.values] : d \in {g \in f.decisions : g.field.domain # None}}
           /\ \A e \in f.parent.entities : EntityIn(m, e.id) = RevisedEntity(f, e)
<1> DEFINE es == {RevisedEntity(f, e) : e \in f.parent.entities}
           ds == f.parent.domains \cup
                   {[name |-> d.field.domain, values |-> d.field.values] : d \in {g \in f.decisions : g.field.domain # None}}
<1>1. m = [f.parent EXCEPT !.entities = es, !.domains = ds]
  BY DEF Revised
<1> HIDE DEF es, ds
<1>2. f.parent = [id |-> f.parent.id, domains |-> f.parent.domains, entities |-> f.parent.entities]
  BY ParentIsSound DEF ParentSound
<1>3. DOMAIN f.parent = {"id", "domains", "entities"}
  BY <1>2
<1>4. m.entities = es /\ m.domains = ds
  BY <1>1, <1>3
<1>5. \A e, g \in f.parent.entities : RevisedEntity(f, e).id = RevisedEntity(f, g).id => e = g
  <2>1. \A e \in f.parent.entities : RevisedEntity(f, e).id = e.id
    BY RevisedEntityIs
  <2>2. \A e, g \in f.parent.entities : e.id = g.id => e = g
    BY ParentIsSound DEF ParentSound
  <2>. QED
    BY <2>1, <2>2
<1>6. ASSUME NEW e \in f.parent.entities PROVE EntityIn(m, e.id) = RevisedEntity(f, e)
  <2>1. RevisedEntity(f, e) \in m.entities /\ RevisedEntity(f, e).id = e.id
    BY <1>4, RevisedEntityIs DEF es
  <2>2. \A x \in m.entities : x.id = e.id => x = RevisedEntity(f, e)
    BY <1>4, <1>5, <2>1 DEF es
  <2>. QED
    BY <2>1, <2>2 DEF EntityIn
<1>. QED
  BY <1>4, <1>6 DEF es, ds

\* an open claim is one of its entity, and nothing of the entity stands for it
LEMMA QuestionIs ==
    ASSUME NEW f, FinalizationSound(f), NEW q \in Questions(f.parent)
    PROVE  \E e \in f.parent.entities :
               /\ q.entity = e.id /\ q.choice \in e.choices
               /\ q.choice.slot \in References \cup {"identity", "lifecycle"}
               /\ ~Materialised(e, q.choice)
               /\ EntityIn(f.parent, q.entity) = e
  BY ParentIsSound DEF Questions

LEMMA MineIsNew ==
    ASSUME NEW f, FinalizationSound(f), NEW e \in f.parent.entities, NEW d \in Mine(f, e),
           NEW x, x = Materialise(d.question, d.field)
    PROVE  /\ x.name = d.field.name /\ x.domain = d.field.domain /\ x.unique = d.field.unique
           /\ d.question \in Questions(f.parent) /\ Fits(d.field, d.question)
           /\ \A y \in e.fields : Norm[y.name] # Norm[d.field.name]
           /\ x \notin e.fields
<1>1. x.name = d.field.name /\ x.domain = d.field.domain /\ x.unique = d.field.unique
  BY DEF Materialise
<1>2. DecisionSound(f, d) /\ d.question.entity = e.id
  BY DEF Mine, FinalizationSound
<1>3. EntityIn(f.parent, d.question.entity) = e
  BY <1>2, ParentIsSound
<1>. QED
  BY <1>1, <1>2, <1>3 DEF DecisionSound

\* of an entity that has an identity, no identity is asked for
LEMMA IdentityIsAsked ==
    ASSUME NEW f, FinalizationSound(f), NEW e \in f.parent.entities
    PROVE  /\ e.identity # {} => MineFor(f, e, "identity") = {}
           /\ e.identity = {} /\ Unresolved(f) = {} => MineFor(f, e, "identity") # {}
<1>1. ASSUME NEW d \in MineFor(f, e, "identity"), e.identity # {} PROVE FALSE
  <2>1. d.question \in Questions(f.parent) /\ d.question.entity = e.id /\ d.question.choice.slot = "identity"
    BY MineIsNew DEF MineFor, Mine
  <2>2. PICK g \in f.parent.entities : g.id = e.id /\ ~Materialised(g, d.question.choice)
    BY <2>1, QuestionIs
  <2>3. g = e
    BY <2>2, ParentIsSound DEF ParentSound
  <2>. QED
    BY <1>1, <2>1, <2>2, <2>3 DEF Materialised
<1>2. ASSUME e.identity = {}, Unresolved(f) = {} PROVE MineFor(f, e, "identity") # {}
  <2>1. PICK c \in e.choices : c.slot = "identity"
    BY <1>2, ParentIsSound DEF ParentSound
  <2>2. ~Materialised(e, c)
    BY <1>2, <2>1 DEF Materialised, References
  <2> DEFINE q == [entity |-> e.id, choice |-> c]
  <2>3. q \in Questions(f.parent) /\ q.entity = e.id /\ q.choice.slot = "identity"
    BY <2>1, <2>2 DEF Questions
  <2> HIDE DEF q
  <2>4. PICK d \in f.decisions : d.question = q
    BY <1>2, <2>3 DEF Unresolved
  <2>. QED
    BY <2>3, <2>4 DEF MineFor, Mine
<1>. QED
  BY <1>1, <1>2

\* a declared field identifies exactly when it was declared for the identity
LEMMA UniqueIsIdentity ==
    ASSUME NEW f, FinalizationSound(f), NEW e \in f.parent.entities, NEW d \in Mine(f, e),
           NEW r, r = RevisedEntity(f, e)
    PROVE  d.field.unique <=> d.field.name \in r.identity
<1>1. r.identity = e.identity \cup {g.field.name : g \in MineFor(f, e, "identity")}
  BY RevisedEntityIs
<1>2. Fits(d.field, d.question) /\ \A y \in e.fields : Norm[y.name] # Norm[d.field.name]
  BY MineIsNew
<1>3. d.field.name \notin e.identity
  <2>1. e.identity \subseteq {y.name : y \in e.fields}
    BY ParentIsSound DEF ParentSound
  <2>. QED
    BY <1>2, <2>1
<1>4. CASE d.question.choice.slot = "identity"
  <2>1. d.field.unique
    BY <1>2, <1>4 DEF Fits, FitsIdentity
  <2>2. d \in MineFor(f, e, "identity")
    BY <1>4 DEF MineFor
  <2>. QED
    BY <1>1, <2>1, <2>2
<1>5. CASE d.question.choice.slot # "identity"
  <2>1. ~d.field.unique
    BY <1>2, <1>5 DEF Fits, FitsLifecycle, FitsReference
  <2>2. ASSUME NEW g \in MineFor(f, e, "identity"), g.field.name = d.field.name PROVE FALSE
    <3>1. g \in f.decisions /\ d \in f.decisions /\ g.question.entity = d.question.entity
      BY DEF MineFor, Mine
    <3>2. g = d
      BY <2>2, <3>1 DEF FinalizationSound, Apart
    <3>. QED
      BY <1>5, <3>2 DEF MineFor
  <2>. QED
    BY <1>1, <1>3, <2>1, <2>2
<1>. QED
  BY <1>4, <1>5

\* one field for each open claim of an entity
LEMMA OneFieldEach ==
    ASSUME NEW f, FinalizationSound(f), Unresolved(f) = {}, NEW e \in f.parent.entities,
           NEW added, added = {Materialise(d.question, d.field) : d \in Mine(f, e)}
    PROVE  Cardinality(added) = Cardinality({q \in Questions(f.parent) : q.entity = e.id})
<1> DEFINE mine == Mine(f, e)
           asked == {q \in Questions(f.parent) : q.entity = e.id}
           made == [d \in mine |-> Materialise(d.question, d.field)]
           of == [d \in mine |-> d.question]
<1>1. IsFiniteSet(mine)
  <2>1. IsFiniteSet(f.decisions) /\ mine \subseteq f.decisions
    BY DEF FinalizationSound, Mine
  <2>. QED
    BY <2>1, FS_Subset
<1>2. ASSUME NEW d \in mine, NEW g \in mine, d.question = g.question \/ made[d] = made[g]
      PROVE  d = g
  <2>1. made[d] = made[g] => d.field.name = g.field.name
    BY MineIsNew
  <2>2. Apart(d, g) /\ d.question.entity = g.question.entity
    BY DEF Mine, FinalizationSound
  <2>. QED
    BY <1>2, <2>1, <2>2 DEF Apart
<1>3. made \in Bijection(mine, added)
  <2>1. made \in [mine -> added] /\ \A x \in added : \E d \in mine : made[d] = x
    OBVIOUS
  <2>. QED
    BY <1>2, <2>1 DEF Bijection, Injection, Surjection, IsInjective
<1>4. of \in Bijection(mine, asked)
  <2>1. of \in [mine -> asked]
    BY MineIsNew DEF Mine
  <2>2. ASSUME NEW q \in asked PROVE \E d \in mine : of[d] = q
    <3>1. PICK d \in f.decisions : d.question = q
      BY DEF Unresolved
    <3>. QED
      BY <3>1 DEF Mine
  <2>3. \A d, g \in mine : of[d] = of[g] => d = g
    BY <1>2
  <2>. QED
    BY <2>1, <2>2, <2>3 DEF Bijection, Injection, Surjection, IsInjective
<1> HIDE DEF mine, asked, made, of
<1>5. Cardinality(mine) = Cardinality(added) /\ Cardinality(mine) = Cardinality(asked)
  BY <1>1, <1>3, <1>4, FS_Bijection DEF ExistsBijection
<1>. QED
  BY <1>5 DEF asked

\* Whatever users declare, in whatever order: a revision adds one field for each
\* open claim, changes nothing of its parent, and keeps names and identities apart.
THEOREM RevisionsKeepParents == Spec => []RevisionKeepsParent
<1>1. Init => AmendmentInv
  BY DEF Init, AmendmentInit, AmendmentInv
<1>2. AmendmentInv /\ [Next]_operationVars => AmendmentInv'
  BY AmendmentInvNext, ServicesApart
<1>3. ASSUME AmendmentInv, revision # Nothing PROVE RevisionKeepsParent
  <2> DEFINE f == revision.finalization
             m == revision.model
  <2>1. FinalizationSound(f) /\ Consistent(f) /\ m = Revised(f) /\ Unresolved(f) = {}
    BY <1>3 DEF AmendmentInv, Consistent
  <2> HIDE DEF f, m
  <2>2. /\ m.domains = f.parent.domains \cup
              {[name |-> d.field.domain, values |-> d.field.values] : d \in {g \in f.decisions : g.field.domain # None}}
        /\ \A e \in f.parent.entities : EntityIn(m, e.id) = RevisedEntity(f, e)
    BY <2>1, RevisedModelIs
  <2>3. ASSUME NEW x \in m.domains, NEW y \in m.domains, Norm[x.name] = Norm[y.name] PROVE x = y
    <3> DEFINE of(d) == [name |-> d.field.domain, values |-> d.field.values]
               named == {g \in f.decisions : g.field.domain # None}
    <3>1. \A d \in named : of(d).name = d.field.domain /\ \A z \in f.parent.domains : Norm[z.name] # Norm[d.field.domain]
      BY <2>1 DEF FinalizationSound, DecisionSound
    <3>2. CASE x \in f.parent.domains /\ y \in f.parent.domains
      BY <2>1, <2>3, <3>2, ParentIsSound DEF ParentSound
    <3>3. CASE \E d, g \in named : x = of(d) /\ y = of(g)
      <4>1. PICK d \in named, g \in named : x = of(d) /\ y = of(g)
        BY <3>3
      <4>2. d = g
        BY <2>1, <2>3, <3>1, <4>1 DEF FinalizationSound, Apart
      <4>. QED
        BY <4>1, <4>2
    <3>. QED
      BY <2>2, <2>3, <3>1, <3>2, <3>3
  <2> DEFINE Kept(e, r, added) ==
                 /\ e.fields \subseteq r.fields
                 /\ e.identity # {} => r.identity = e.identity
                 /\ r.choices = e.choices
                 /\ Cardinality(added) = Cardinality({q \in Questions(f.parent) : q.entity = e.id})
                 /\ \A x, y \in r.fields : Norm[x.name] = Norm[y.name] => x = y
                 /\ \A x \in added : x.unique <=> x.name \in r.identity
  <2>4. ASSUME NEW e \in f.parent.entities
        PROVE  Kept(e, EntityIn(m, e.id), EntityIn(m, e.id).fields \ e.fields)
    <3> DEFINE r == EntityIn(m, e.id)
               added == r.fields \ e.fields
    <3>0. r = EntityIn(m, e.id) /\ added = r.fields \ e.fields
      OBVIOUS
    <3> HIDE DEF r, added
    <3>1. r = RevisedEntity(f, e)
      BY <2>2, <3>0
    <3>2. /\ r.choices = e.choices
          /\ r.fields = e.fields \cup {Materialise(d.question, d.field) : d \in Mine(f, e)}
          /\ r.identity = e.identity \cup {d.field.name : d \in MineFor(f, e, "identity")}
      BY <2>1, <3>1, RevisedEntityIs
    <3>3. added = {Materialise(d.question, d.field) : d \in Mine(f, e)}
      BY <2>1, <3>0, <3>2, MineIsNew
    <3>4. e.identity # {} => r.identity = e.identity
      BY <2>1, <3>2, IdentityIsAsked
    <3>5. Cardinality(added) = Cardinality({q \in Questions(f.parent) : q.entity = e.id})
      BY <2>1, <3>3, OneFieldEach
    <3>6. ASSUME NEW x \in r.fields, NEW y \in r.fields, Norm[x.name] = Norm[y.name] PROVE x = y
      <4>1. CASE x \in e.fields /\ y \in e.fields
        BY <2>1, <3>6, <4>1, ParentIsSound DEF ParentSound
      <4>2. CASE \E d, g \in Mine(f, e) : x = Materialise(d.question, d.field) /\ y = Materialise(g.question, g.field)
        <5>1. PICK d \in Mine(f, e), g \in Mine(f, e) :
                  x = Materialise(d.question, d.field) /\ y = Materialise(g.question, g.field)
          BY <4>2
        <5>2. Norm[d.field.name] = Norm[g.field.name]
          BY <2>1, <3>6, <5>1, MineIsNew
        <5>3. d = g
          BY <2>1, <5>2 DEF Mine, FinalizationSound, Apart
        <5>. QED
          BY <5>1, <5>3
      <4>3. \A d \in Mine(f, e) : \A z \in e.fields :
                Norm[z.name] # Norm[Materialise(d.question, d.field).name]
        BY <2>1, MineIsNew
      <4>. QED
        BY <3>2, <3>6, <4>1, <4>2, <4>3
    <3>7. ASSUME NEW x \in added PROVE x.unique <=> x.name \in r.identity
      <4>1. PICK d \in Mine(f, e) : x = Materialise(d.question, d.field)
        BY <3>3
      <4>2. x.unique = d.field.unique /\ x.name = d.field.name
        BY <2>1, <4>1, MineIsNew
      <4>3. d.field.unique <=> d.field.name \in r.identity
        BY <2>1, <3>1, UniqueIsIdentity
      <4>. QED
        BY <4>2, <4>3
    <3>8. Kept(e, r, added)
      BY <3>2, <3>4, <3>5, <3>6, <3>7
    <3>. QED
      BY <3>8 DEF r, added
  <2>5. f.parent.domains \subseteq m.domains
    BY <2>2
  <2>7. \A x, y \in m.domains : Norm[x.name] = Norm[y.name] => x = y
    BY <2>3
  <2>. QED
    BY <2>4, <2>5, <2>7 DEF RevisionKeepsParent, f, m
<1>. QED
  BY <1>1, <1>2, <1>3, PTL DEF Spec, RevisionKeepsParent

\* What users may declare: any inert name that is free, with what an accepted
\* claim asks for.  (A name has up to 64 characters, so an amendment, which takes a
\* name for each field and each open claim of one model, leaves some free.)
PlainTypes == {"uuid", "string", "integer", "external_reference"}
ClaimedValues == {c.values : c \in {c \in UNION {UNION {e.choices : e \in p.entities} : p \in Parents} :
                                        c.slot = "lifecycle" /\ Inert(c.values)}}
FieldNamesTaken(f, id) == {Norm[n] : n \in NamesOfEntity(f, id)}
DomainNamesTaken(f) == {Norm[n] : n \in DomainNames(f)}
PlainField(d, taken, type, unique, mutable) ==
    /\ d.name \notin Credentials \cup Executable /\ Norm[d.name] \notin taken
    /\ d.type = type /\ d.values = {} /\ d.domain = None
    /\ d.required = TRUE /\ d.collection = FALSE /\ d.external = TRUE
    /\ d.unique = unique /\ d.mutable = mutable
EnumeratedField(d, taken, domains, values) ==
    /\ d.name \notin Credentials \cup Executable /\ Norm[d.name] \notin taken
    /\ d.type = "enum" /\ d.values = values
    /\ d.domain \notin Executable \cup {None} /\ Norm[d.domain] \notin domains
    /\ d.collection = FALSE /\ d.external = FALSE /\ d.unique = FALSE
NamesStayFree ==
    \A f : FinalizationSound(f) => \A e \in f.parent.entities :
        /\ \A type \in PlainTypes, unique, mutable \in BOOLEAN :
              \E d \in Declarations : PlainField(d, FieldNamesTaken(f, e.id), type, unique, mutable)
        /\ \A values \in ClaimedValues :
              \E d \in Declarations :
                  EnumeratedField(d, FieldNamesTaken(f, e.id), DomainNamesTaken(f), values)

\* the claim of a question that is open was accepted by the clarification
LEMMA OpenClaimAccepted ==
    ASSUME NEW f, FinalizationSound(f), NEW q \in Questions(f.parent)
    PROVE  /\ ClaimAccepted(q.choice)
           /\ q.choice.slot \in References \cup {"identity", "lifecycle"}
           /\ q.choice.slot = "lifecycle" /\ Inert(q.choice.values) =>
                 q.choice.values \in ClaimedValues
<1>1. PICK e \in f.parent.entities :
          q.choice \in e.choices /\ q.choice.slot \in References \cup {"identity", "lifecycle"}
  BY QuestionIs
<1>2. ClaimAccepted(q.choice)
  BY <1>1, ParentIsSound DEF ParentSound
<1>3. q.choice \in UNION {UNION {g.choices : g \in p.entities} : p \in Parents}
  BY <1>1, ParentIsSound
<1>. QED
  BY <1>1, <1>2, <1>3 DEF ClaimedValues

LEMMA SomebodyCanAnswer ==
    ASSUME NamesStayFree, NEW f, FinalizationSound(f), NEW q \in Unresolved(f),
           Inert(q.choice.values)
    PROVE  \E d \in Declarations : AcceptsDeclaration(f, q, d)
<1>1. q \in Questions(f.parent)
  BY DEF Unresolved
<1>2. PICK e \in f.parent.entities : q.entity = e.id
  BY <1>1, QuestionIs
<1> DEFINE c == q.choice
           taken == FieldNamesTaken(f, q.entity)
           domains == DomainNamesTaken(f)
<1>3. /\ \A type \in PlainTypes, unique, mutable \in BOOLEAN :
            \E d \in Declarations : PlainField(d, taken, type, unique, mutable)
      /\ \A values \in ClaimedValues :
            \E d \in Declarations : EnumeratedField(d, taken, domains, values)
  BY <1>2 DEF NamesStayFree
<1>4. /\ ClaimAccepted(c) /\ c.slot \in References \cup {"identity", "lifecycle"}
      /\ c.slot = "lifecycle" => c.values \in ClaimedValues
      /\ Inert(c.values)
  BY <1>1, OpenClaimAccepted
<1> HIDE DEF c, taken, domains
<1>5. ASSUME NEW d, Norm[d.name] \notin taken, d.domain # None => Norm[d.domain] \notin domains
      PROVE  NoCollisions(f, q, d)
  BY <1>5 DEF NoCollisions, taken, domains, FieldNamesTaken, DomainNamesTaken
<1>6. CASE c.slot = "identity"
  <2>1. PICK type \in PlainTypes : c.values = {type}
    BY <1>4, <1>6 DEF ClaimAccepted, PlainTypes
  <2>2. PICK d \in Declarations : PlainField(d, taken, type, TRUE, FALSE)
    BY <1>3
  <2>3. DeclarationSound(d) /\ FitsIdentity(d, c)
    BY <2>1, <2>2, ExecutableAssumption
       DEF PlainField, DeclarationSound, Inert, FitsIdentity, PlainTypes
  <2>. QED
    BY <1>5, <1>6, <2>2, <2>3 DEF PlainField, EnumeratedField, AcceptsDeclaration, Fits, c
<1>7. CASE c.slot = "lifecycle"
  <2>1. c.values \in ClaimedValues /\ c.values # {}
    <3>1. Cardinality(c.values) \in 2 .. 64
      BY <1>4, <1>7 DEF ClaimAccepted
    <3>. QED
      BY <1>4, <1>7, <3>1, FS_EmptySet
  <2>2. PICK d \in Declarations : EnumeratedField(d, taken, domains, c.values)
    BY <1>3, <2>1
  <2>3. DeclarationSound(d) /\ FitsLifecycle(d, c)
    BY <1>4, <2>1, <2>2 DEF EnumeratedField, DeclarationSound, Inert, FitsLifecycle
  <2>. QED
    BY <1>5, <1>7, <2>2, <2>3 DEF PlainField, EnumeratedField, AcceptsDeclaration, Fits, c
<1>8. CASE c.slot \in References
  <2>1. PICK type \in PlainTypes :
            IF c.slot = "principal_reference" THEN type = "string" ELSE type \in c.values
    <3>1. CASE c.slot = "principal_reference"
      BY <3>1 DEF PlainTypes
    <3>2. CASE c.slot = "external_reference"
      BY <1>4, <3>2 DEF ClaimAccepted, PlainTypes
    <3>3. CASE c.slot = "field"
      BY <1>4, <3>3 DEF ClaimAccepted, PlainTypes
    <3>. QED
      BY <1>8, <3>1, <3>2, <3>3 DEF References
  <2>2. PICK d \in Declarations : PlainField(d, taken, type, FALSE, TRUE)
    BY <1>3
  <2>3. DeclarationSound(d) /\ FitsReference(d, c)
    BY <2>1, <2>2, ExecutableAssumption
       DEF PlainField, DeclarationSound, Inert, FitsReference, PlainTypes
  <2>4. c.slot # "identity" /\ c.slot # "lifecycle"
    BY <1>8 DEF References
  <2>. QED
    BY <1>5, <2>2, <2>3, <2>4 DEF PlainField, EnumeratedField, AcceptsDeclaration, Fits, c
<1>. QED
  BY <1>4, <1>6, <1>7, <1>8

\* what is answered to the end names nothing that is not there
LEMMA AnsweredIsConsistent ==
    ASSUME NEW f, FinalizationSound(f), Unresolved(f) = {}, Questions(f.parent) # {}
    PROVE  Consistent(f)
<1> DEFINE m == Revised(f)
           domains == {x.name : x \in m.domains}
<1>1. f.decisions # {}
  BY DEF Unresolved
<1>2. /\ m.entities = {RevisedEntity(f, e) : e \in f.parent.entities}
      /\ m.domains = f.parent.domains \cup
            {[name |-> d.field.domain, values |-> d.field.values] : d \in {g \in f.decisions : g.field.domain # None}}
  BY RevisedModelIs
<1>3. \A d \in f.decisions : d.field.domain # None => d.field.domain \in domains
  <2>1. ASSUME NEW d \in f.decisions, d.field.domain # None PROVE d.field.domain \in domains
    <3> DEFINE x == [name |-> d.field.domain, values |-> d.field.values]
    <3>1. x \in m.domains /\ x.name = d.field.domain
      BY <1>2, <2>1
    <3>. QED
      BY <3>1
  <2>. QED
    BY <2>1
<1>4. {x.name : x \in f.parent.domains} \subseteq domains
  BY <1>2
<1> HIDE DEF domains
<1>5. ASSUME NEW e \in f.parent.entities, NEW r, r = RevisedEntity(f, e)
      PROVE  /\ r.identity # {} /\ r.identity \subseteq {x.name : x \in r.fields}
             /\ r.lifecycle \subseteq domains
             /\ \A x \in r.fields : x.domain # None => x.domain \in domains
  <2>1. /\ r.fields = e.fields \cup {Materialise(d.question, d.field) : d \in Mine(f, e)}
        /\ r.identity = e.identity \cup {d.field.name : d \in MineFor(f, e, "identity")}
        /\ r.lifecycle = e.lifecycle \cup {d.field.domain : d \in MineFor(f, e, "lifecycle")}
    BY <1>5, RevisedEntityIs
  <2>2. /\ e.identity \subseteq {x.name : x \in e.fields}
        /\ e.lifecycle \cup ({x.domain : x \in e.fields} \ {None}) \subseteq {x.name : x \in f.parent.domains}
    BY ParentIsSound DEF ParentSound
  <2>3. r.identity # {}
    <3>1. CASE e.identity = {}
      <4>1. PICK g \in MineFor(f, e, "identity") : TRUE
        BY <3>1, IdentityIsAsked
      <4>2. g.field.name \in r.identity
        BY <2>1
      <4>. QED
        BY <4>2
    <3>2. CASE e.identity # {}
      BY <2>1, <3>2
    <3>. QED
      BY <3>1, <3>2
  <2>4. r.identity \subseteq {x.name : x \in r.fields}
    <3>1. ASSUME NEW d \in MineFor(f, e, "identity") PROVE d.field.name \in {x.name : x \in r.fields}
      BY <2>1, MineIsNew DEF MineFor
    <3>. QED
      BY <2>1, <2>2, <3>1
  <2>5. r.lifecycle \subseteq domains
    <3>1. ASSUME NEW d \in MineFor(f, e, "lifecycle") PROVE d.field.domain \in domains
      <4>1. Fits(d.field, d.question) /\ d.question.choice.slot = "lifecycle" /\ d \in f.decisions
        BY MineIsNew DEF MineFor, Mine
      <4>2. d.field.domain # None
        BY <4>1 DEF Fits, FitsLifecycle, DeclarationSound
      <4>. QED
        BY <1>3, <4>1, <4>2
    <3>. QED
      BY <1>4, <2>1, <2>2, <3>1
  <2>6. ASSUME NEW x \in r.fields, x.domain # None PROVE x.domain \in domains
    <3>1. CASE x \in e.fields
      BY <1>4, <2>2, <2>6, <3>1
    <3>2. CASE \E d \in Mine(f, e) : x = Materialise(d.question, d.field)
      BY <1>3, <2>6, <3>2, MineIsNew DEF Mine
    <3>. QED
      BY <2>1, <3>1, <3>2
  <2>. QED
    BY <2>3, <2>4, <2>5, <2>6
<1>. QED
  BY <1>1, <1>2, <1>5 DEF Consistent, domains

\* As long as names stay free to declare, every open question of a claim that is
\* inert can be answered, and an amendment answered to the end can be approved.
THEOREM AmendmentsNeverStuck ==
    ASSUME NamesStayFree
    PROVE  Spec => []NeverStuck
<1>1. Init => AmendmentInv
  BY DEF Init, AmendmentInit, AmendmentInv
<1>2. AmendmentInv /\ [Next]_operationVars => AmendmentInv'
  BY AmendmentInvNext, ServicesApart
<1>3. AmendmentInv => NeverStuck
  BY SomebodyCanAnswer, AnsweredIsConsistent DEF AmendmentInv, NeverStuck
<1>. QED
  BY <1>1, <1>2, <1>3, PTL DEF Spec
=============================================================================
