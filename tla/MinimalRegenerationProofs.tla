--------------------- MODULE MinimalRegenerationProofs ---------------------
(***************************************************************************)
(* Theorems about MinimalRegeneration for every set of paths and contents, *)
(* any number of plans and any bound on crashes.  They assume ~LiveEdits:  *)
(* the user edits between calls only.                                      *)
(***************************************************************************)
EXTENDS MinimalRegeneration, TLAPS

USE PathsAssumption, ContentAssumption, RegenerationBounds

\* an operation that writes starts from something no user wrote
Harmless(ops) == \A p \in Mutable(ops) : ops[p].old # UserContent

PlanInv ==
    /\ \A plan \in plans : Harmless(plan.ops)
    /\ pc \in {"backup", "journal", "write"} => Harmless(op)

\* what is journalled can be put back without touching a user's content
JournalInv ==
    journal # Absent =>
        /\ last = journal
        /\ DOMAIN journal.new = DOMAIN journal.old
        /\ \A p \in DOMAIN journal.old :
              journal.old[p] # UserContent /\ journal.new[p] # UserContent

CallInv ==
    /\ pc \in {"backup", "journal"} => \A p \in Mutable(op) : disk[p] = op[p].old
    /\ pc = "journal" => backups = [p \in Mutable(op) |-> disk[p]]
    /\ pc \in {"write", "restore", "unlink"} => journal # Absent
    /\ pc \in {"write", "restore"} => backups = journal.old /\ todo \subseteq DOMAIN backups
    /\ pc \in {"write", "restore"} =>
          \A p \in DOMAIN backups : disk[p] \in {journal.old[p], journal.new[p]}
    /\ pc = "write" =>
          /\ DOMAIN backups = Mutable(op)
          /\ \A p \in DOMAIN backups : journal.new[p] = op[p].new
          /\ \A p \in DOMAIN backups : p \notin todo => disk[p] = journal.new[p]
    /\ pc = "restore" => \A p \in DOMAIN backups : p \notin todo => disk[p] = journal.old[p]
    /\ pc = "unlink" => \A p \in DOMAIN journal.new : disk[p] = journal.new[p]

\* with no journal, the files of the last apply are on one side of it
SidesInv ==
    journal = Absent /\ last # Absent =>
        \E side \in {last.old, last.new} :
            DOMAIN side \subseteq Paths
                /\ \A p \in DOMAIN side : disk[p] \in {side[p], UserContent}

RInv == TypeOK /\ PlanInv /\ JournalInv /\ CallInv /\ SidesInv

-----------------------------------------------------------------------------
(* Partial maps from paths *)

LEMMA MapIntro ==
    ASSUME NEW S, NEW D \in SUBSET Paths, NEW f \in [D -> S] PROVE f \in PartialMaps(S)
BY DEF PartialMaps

LEMMA MapElim ==
    ASSUME NEW S, NEW f \in PartialMaps(S)
    PROVE  DOMAIN f \subseteq Paths /\ f \in [DOMAIN f -> S]
BY DEF PartialMaps

LEMMA MapEmpty == ASSUME NEW S PROVE <<>> \in PartialMaps(S)
<1>1. <<>> \in [{} -> S]
  OBVIOUS
<1>. QED
  BY <1>1, MapIntro

LEMMA MutableIn ==
    ASSUME NEW ops \in PartialMaps(Operations)
    PROVE  /\ Mutable(ops) \subseteq DOMAIN ops /\ Mutable(ops) \in SUBSET Paths
           /\ \A p \in DOMAIN ops : ops[p].old \in Contents
                                   /\ ops[p].new \in Generated \cup {Absent}
<1>1. DOMAIN ops \subseteq Paths /\ ops \in [DOMAIN ops -> Operations]
  BY MapElim
<1>2. \A p \in DOMAIN ops : ops[p] \in Operations
  BY <1>1
<1>. QED
  BY <1>1, <1>2 DEF Mutable, Operations

-----------------------------------------------------------------------------
LEMMA RInit == Init => RInv
BY MapEmpty DEF Init, RInv, TypeOK, PlanInv, JournalInv, CallInv, SidesInv

\* Every step keeps the types.
LEMMA TypeNext == RInv /\ [Next]_vars => TypeOK'
<1> SUFFICES ASSUME RInv, [Next]_vars PROVE TypeOK'
  OBVIOUS
<1>t. TypeOK
  BY DEF RInv
<1> USE <1>t DEF TypeOK, Contents
<1>1. CASE Bootstrap
  BY <1>1 DEF Bootstrap
<1>2. CASE Plan
  <2>1. PICK proposed \in [Paths -> Generated \cup {Absent}], users \in Claims :
            LET new == [ops |-> PlanOf(proposed, users), users |-> users] IN
            plans' = IF Cardinality(plans) < MaxPlans THEN plans \cup {new} ELSE {new}
    BY <1>2 DEF Plan
  <2>2. PlanOf(proposed, users) \in PartialMaps(Operations)
    <3> DEFINE D == {q \in Paths : manifest[q] # Absent \/ proposed[q] # Absent}
    <3>1. ASSUME NEW p \in D
          PROVE  [action |-> Action(p, proposed[p], users), old |-> disk[p],
                  new |-> proposed[p]] \in Operations
      BY <3>1 DEF Operations, Actions, Action
    <3>2. PlanOf(proposed, users) \in [D -> Operations]
      BY <3>1 DEF PlanOf
    <3>. QED
      BY <3>2, MapIntro
  <2>3. plans' \subseteq plans \cup {[ops |-> PlanOf(proposed, users), users |-> users]}
    BY <2>1
  <2>4. \A p \in plans' : p.ops \in PartialMaps(Operations) /\ p.users \subseteq Paths
    <3>1. users \subseteq Paths
      BY PathsAssumption
    <3>2. ASSUME NEW p \in plans' PROVE p.ops \in PartialMaps(Operations) /\ p.users \subseteq Paths
      <4>1. CASE p \in plans
        BY <4>1
      <4>2. CASE p = [ops |-> PlanOf(proposed, users), users |-> users]
        BY <4>2, <2>2, <3>1
      <4>. QED
        BY <4>1, <4>2, <2>3
    <3>. QED
      BY <3>2
  <2>. QED
    BY <1>2, <2>4 DEF Plan
<1>3. CASE Apply
  BY <1>3 DEF Apply
<1>4. CASE ReadBackups
  <2>1. [p \in Mutable(op) |-> disk[p]] \in PartialMaps(Contents)
    BY MutableIn, MapIntro
  <2>. QED
    BY <1>4, <2>1 DEF ReadBackups
<1>5. CASE WriteJournal
  <2>1. [p \in Mutable(op) |-> op[p].new] \in PartialMaps(Contents)
    BY MutableIn, MapIntro
  <2>. QED
    BY <1>5, <2>1, MutableIn DEF WriteJournal
<1>6. CASE WriteFile
  <2>1. PICK p \in todo : p \in Paths /\ p \in DOMAIN op /\ disk' = [disk EXCEPT ![p] = op[p].new]
                             /\ todo' = todo \ {p}
    BY <1>6 DEF WriteFile, RInv, CallInv, Mutable
  <2>2. op[p].new \in Contents
    BY <2>1, MutableIn
  <2>. QED
    BY <1>6, <2>1, <2>2 DEF WriteFile
<1>7. CASE WriteManifest
  BY <1>7, MutableIn DEF WriteManifest
<1>8. CASE Fail
  BY <1>8, MapElim DEF Fail
<1>9. CASE Recover
  BY <1>9, MapElim DEF Recover
<1>10. CASE RestoreFile
  <2>1. PICK p \in todo : disk' = [disk EXCEPT ![p] = backups[p]] /\ todo' = todo \ {p}
    BY <1>10 DEF RestoreFile
  <2>2. backups[p] \in Contents
    BY <1>10, <2>1, MapElim DEF RestoreFile, RInv, CallInv
  <2>. QED
    BY <1>10, <2>1, <2>2 DEF RestoreFile
<1>11. CASE UnlinkJournal
  BY <1>11, MapEmpty DEF UnlinkJournal, Return
<1>12. CASE UserEdit
  BY <1>12 DEF UserEdit
<1>13. CASE Crash
  BY <1>13, MapEmpty DEF Crash, Return
<1>14. CASE UNCHANGED vars
  BY <1>14 DEF vars
<1>. QED
  BY <1>1, <1>2, <1>3, <1>4, <1>5, <1>6, <1>7, <1>8, <1>9, <1>10, <1>11, <1>12,
     <1>13, <1>14 DEF Next, Continue

\* A plan never writes over a content that only a user wrote.
LEMMA PlanHarmless ==
    ASSUME TypeOK, manifest # Absent, NEW proposed, NEW users
    PROVE  Harmless(PlanOf(proposed, users))
<1> SUFFICES ASSUME NEW p \in Mutable(PlanOf(proposed, users))
             PROVE  disk[p] # UserContent
  BY DEF Harmless, Mutable, PlanOf
<1>1. Action(p, proposed[p], users) # "conflict" /\ p \in Paths
  BY DEF Mutable, PlanOf
<1>2. ~Conflicting(p, users)
  BY <1>1 DEF Action
<1>. QED
  BY <1>1, <1>2 DEF Conflicting, TypeOK

\* Every step keeps what a call relies on; the user's steps are between calls.
LEMMA RNext == ASSUME ~LiveEdits PROVE RInv /\ [Next]_vars => RInv'
<1> SUFFICES ASSUME RInv, [Next]_vars PROVE (PlanInv /\ JournalInv /\ CallInv /\ SidesInv)'
  BY TypeNext DEF RInv
<1>t. TypeOK /\ TypeOK'
  BY TypeNext DEF RInv
<1> USE <1>t DEF RInv, PlanInv, JournalInv, CallInv, SidesInv, Harmless
<1>1. CASE Bootstrap
  BY <1>1 DEF Bootstrap
<1>2. CASE Plan
  <2>1. \A plan \in plans' : Harmless(plan.ops)
    <3>1. PICK proposed \in [Paths -> Generated \cup {Absent}], users \in Claims :
              plans' \subseteq plans \cup {[ops |-> PlanOf(proposed, users), users |-> users]}
      BY <1>2 DEF Plan
    <3>2. Harmless(PlanOf(proposed, users))
      BY <1>2, PlanHarmless DEF Plan
    <3>. QED
      BY <3>1, <3>2
  <2>. QED
    BY <1>2, <2>1 DEF Plan
<1>3. CASE Apply
  BY <1>3 DEF Apply
<1>4. CASE ReadBackups
  BY <1>4 DEF ReadBackups
<1>5. CASE WriteJournal
  <2>1. /\ [p \in Mutable(op) |-> op[p].new] \in PartialMaps(Contents)
        /\ \A p \in Mutable(op) : op[p].new # UserContent
    <3>1. op \in PartialMaps(Operations)
      BY DEF TypeOK
    <3>2. \A p \in Mutable(op) : op[p].new \in Generated \cup {Absent}
      BY <3>1, MutableIn
    <3>3. [p \in Mutable(op) |-> op[p].new] \in [Mutable(op) -> Contents]
      BY <3>2 DEF Contents
    <3>. QED
      BY <3>1, <3>2, <3>3, MutableIn, MapIntro
  <2>2. journal' # Absent
    BY <1>5, <2>1 DEF WriteJournal, TypeOK
  <2>3. DOMAIN backups = Mutable(op) /\ \A p \in Mutable(op) : backups[p] = disk[p] /\ disk[p] = op[p].old
    BY <1>5 DEF WriteJournal
  <2>4. /\ journal'.old = backups /\ journal'.new = [p \in Mutable(op) |-> op[p].new]
        /\ last' = journal' /\ todo' = Mutable(op) /\ pc' = "write"
        /\ UNCHANGED <<disk, plans, op, backups>>
    BY <1>5 DEF WriteJournal
  <2>5. Mutable(op)' = Mutable(op)
    BY <2>4 DEF Mutable
  <2>6. Harmless(op)
    BY <1>5 DEF WriteJournal
  <2>. QED
    BY <2>1, <2>2, <2>3, <2>4, <2>5, <2>6
<1>6. CASE WriteFile
  BY <1>6 DEF WriteFile, TypeOK
<1>7. CASE WriteManifest
  BY <1>7 DEF WriteManifest
<1>8. CASE Fail
  BY <1>8 DEF Fail
<1>9. CASE Recover
  BY <1>9 DEF Recover, Recoverable
<1>10. CASE RestoreFile
  BY <1>10 DEF RestoreFile, TypeOK
<1>11. CASE UnlinkJournal
  <2>1. journal # Absent /\ last = journal
    BY <1>11 DEF UnlinkJournal
  <2>2. DOMAIN journal.old \subseteq Paths /\ DOMAIN journal.new \subseteq Paths
    BY <2>1, MapElim DEF TypeOK
  <2>3. CASE pc = "unlink"
    BY <1>11, <2>1, <2>2, <2>3 DEF UnlinkJournal, Return
  <2>4. CASE pc = "restore" /\ todo = {}
    BY <1>11, <2>1, <2>2, <2>4 DEF UnlinkJournal, Return
  <2>. QED
    BY <1>11, <2>3, <2>4 DEF UnlinkJournal
<1>12. CASE UserEdit
  BY <1>12 DEF UserEdit, TypeOK
<1>13. CASE Crash
  BY <1>13 DEF Crash, Return
<1>14. CASE UNCHANGED vars
  BY <1>14 DEF vars
<1>. QED
  BY <1>1, <1>2, <1>3, <1>4, <1>5, <1>6, <1>7, <1>8, <1>9, <1>10, <1>11, <1>12,
     <1>13, <1>14 DEF Next, Continue

LEMMA RAlways == ASSUME ~LiveEdits PROVE Spec => []RInv
<1>1. RInv /\ [Next]_vars => RInv'
  BY RNext
<1>. QED
  BY RInit, <1>1, PTL DEF Spec

\* The state keeps its types.
THEOREM RegenerationTypes == ASSUME ~LiveEdits PROVE Spec => []TypeOK
<1>1. RInv => TypeOK
  BY DEF RInv
<1>. QED
  BY RAlways, <1>1, PTL

\* Whatever fails or dies, between calls the files of the last apply are all old
\* or all new, but for later edits.
THEOREM NoMixture == ASSUME ~LiveEdits PROVE Spec => []AllOrNothing
<1>1. RInv => AllOrNothing
  BY DEF RInv, SidesInv, AllOrNothing, Clean
<1>. QED
  BY RAlways, <1>1, PTL

\* No call, finished, failed, interrupted or recovering, replaces or removes what
\* only the user wrote.
THEOREM UserWorkSafe == ASSUME ~LiveEdits PROVE Spec => UserWorkKept
<1> DEFINE Kept == \A p \in Paths : disk[p] = UserContent => disk'[p] = UserContent
<1>1. ASSUME RInv, [Next]_vars PROVE [Kept]_vars
  <2>1. CASE WriteFile
    BY <1>1, <2>1 DEF WriteFile, RInv, CallInv, JournalInv, TypeOK
  <2>2. CASE RestoreFile
    BY <1>1, <2>2 DEF RestoreFile, RInv, CallInv, JournalInv, TypeOK
  <2>3. CASE UserEdit
    BY <1>1, <2>3 DEF UserEdit, RInv, TypeOK
  <2>4. WriteFile \/ RestoreFile \/ UserEdit \/ UNCHANGED disk
    BY <1>1 DEF Next, Continue, vars, Bootstrap, Plan, Apply, ReadBackups, WriteJournal,
         WriteManifest, Fail, Recover, UnlinkJournal, Crash
  <2>. QED
    BY <2>1, <2>2, <2>3, <2>4
<1>. QED
  BY <1>1, RAlways, PTL DEF Spec, UserWorkKept
=============================================================================
