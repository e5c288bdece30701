------------------------------ MODULE ReleaseGate ------------------------------
(***************************************************************************)
(* The release gate (tools/release_gate.py): it reads the commit, runs the *)
(* test contracts one after the other on whatever the working tree holds   *)
(* then, compares a local security review with the commit and the tree,    *)
(* and only completes with evidence attested for that commit               *)
(* (tools/promotion_evidence.py).  Somebody may edit, commit and check out *)
(* meanwhile.  A working tree is its snapshot digest.                      *)
(***************************************************************************)
EXTENDS Naturals, Sequences, FiniteSets

CONSTANTS
    Commits, Trees,
    TestContracts,      \* the contracts in order: the skips each approves
    Runs,           \* the ways a test process ends: [clean, counted, skips]
    Reviews,        \* reviews at hand: [sound, commit, kind, snapshot, severities]
    Evidence,       \* attested evidence at hand, or NoEvidence
    NoEvidence,
    RequiredChecks,
    MaxEdits        \* bound: edits of the tree while a gate runs

VARIABLES
    head, tree,     \* the repository
    gate,           \* the gate: where it is, and what it was given and has read
    results,        \* its results so far
    edits

gateVars == <<head, tree, gate, results, edits>>

NoGate == [at |-> "none"]

GateInit ==
    /\ head \in Commits /\ tree \in Trees
    /\ gate = NoGate /\ results = <<>> /\ edits = 0

Edit ==
    /\ edits < MaxEdits
    /\ edits' = edits + 1
    /\ head' \in Commits /\ tree' \in Trees
    /\ UNCHANGED <<gate, results>>

\* "none" stands for a commit that Git cannot tell, and for the snapshot of a
\* tree with odd files
CurrentCommit == {head, "none"}
WorkingTreeDigest == {tree, "none"}

Execute(review, evidence) ==
    /\ gate = NoGate
    /\ \E commit \in CurrentCommit :
          gate' = [at |-> IF commit = "none" THEN "broken" ELSE "contracts", commit |-> commit,
                   review |-> review, evidence |-> evidence, snapshot |-> "none"]
    /\ UNCHANGED <<head, tree, results, edits>>

ResultOf(passed, blocked) == [passed |-> passed, blocked |-> blocked]
HasPassed(r) == r.passed

ContractPasses(run, approved) == run.clean /\ run.counted /\ run.skips \subseteq approved

\* the first contract that fails is the last one run
RunContract(run) ==
    /\ gate.at = "contracts" /\ Len(results) < Len(TestContracts)
    /\ LET passed == ContractPasses(run, TestContracts[Len(results) + 1])
       IN  /\ results' = Append(results, ResultOf(passed, FALSE))
           /\ gate' = [gate EXCEPT !.at =
                         IF ~passed THEN "ended"
                         ELSE IF Len(results) + 1 = Len(TestContracts) THEN "review" ELSE @]
    /\ UNCHANGED <<head, tree, edits>>

Blocking == {"critical", "high", "medium"}
Allowed == Blocking \cup {"low"}

Matches(review, snapshot) ==
    /\ review.sound
    /\ review.commit = gate.commit
    /\ review.kind \in {"git_diff", "git_worktree"} /\ review.snapshot = snapshot
    /\ review.severities \subseteq Allowed

\* mutant: the review is compared with the commit only
Unobjectionable(review, snapshot) ==
    /\ review.sound
    /\ review.commit = gate.commit
    /\ review.severities \subseteq Allowed /\ review.severities \cap Blocking = {}

\* a review that finds nothing does not pass either: it is blocked until
\* something that can be trusted says the same
Clear(review, snapshot) == Matches(review, snapshot) /\ review.severities \cap Blocking = {}

Attested(e) == e # NoEvidence /\ e.attested = gate.commit
Promotes(e) == /\ e.commit = gate.commit
               /\ e.checks = RequiredChecks
               /\ e.docker

ValidateReview ==
    /\ gate.at = "review"
    /\ \E snapshot \in WorkingTreeDigest :
          LET clear == gate.review \in {r \in Reviews : Clear(r, snapshot)}
          IN  /\ gate' = [gate EXCEPT !.at = IF clear /\ gate.evidence # NoEvidence THEN "promotion" ELSE "ended",
                                      !.snapshot = snapshot]
              /\ results' = IF clear /\ gate.evidence # NoEvidence THEN results
                            ELSE Append(results, ResultOf(FALSE, clear))
    /\ UNCHANGED <<head, tree, edits>>

ValidatePromotion ==
    /\ gate.at = "promotion"
    /\ gate' = [gate EXCEPT !.at = "ended"]
    /\ \E available \in BOOLEAN :
          results' = Append(results, IF available /\ Attested(gate.evidence)
                                     THEN ResultOf(Promotes(gate.evidence), FALSE) ELSE ResultOf(FALSE, TRUE))
    /\ UNCHANGED <<head, tree, edits>>

ReleaseComplete ==
    /\ gate.at = "ended"
    /\ Len(results) = Len(TestContracts) + 1
    /\ \A i \in DOMAIN results : HasPassed(results[i])

GateNext ==
    \/ Edit
    \/ \E review \in Reviews, e \in Evidence \cup {NoEvidence} : Execute(review, e)
    \/ \E run \in Runs : RunContract(run)
    \/ ValidateReview
    \/ ValidatePromotion

-----------------------------------------------------------------------------
\* A release is only complete for a commit that was attested and whose review,
\* without anything that blocks, is one of the working tree as it was when the
\* contracts had passed, whatever was edited in between.
CompleteIsReviewed ==
    ReleaseComplete =>
        /\ gate.review.commit = gate.commit /\ gate.review.snapshot = gate.snapshot
        /\ gate.review.severities \cap Blocking = {}
        /\ gate.evidence.attested = gate.commit /\ gate.evidence.commit = gate.commit
=============================================================================
