------------------------ MODULE MinimalRegeneration ------------------------
(***************************************************************************)
(* tools/minimal_regeneration.py: one regenerator works on a project whose *)
(* files a user edits too.  A plan compares the ownership manifest with    *)
(* the disk; apply backs the mutable files up in a journal, writes file by *)
(* file, publishes the new manifest and removes the journal; recover puts  *)
(* the backups back.  A step is one read of the project or one durable     *)
(* write; the process may die, and a write may fail, at any of them.       *)
(*                                                                         *)
(* A file is its content (a digest stands for the content it is taken of), *)
(* a path its rank in the sorted order operations are carried out in.      *)
(***************************************************************************)
EXTENDS Naturals, FiniteSets

CONSTANTS
    Paths,        \* generated paths, as ranks in sort order
    Generated,    \* contents a generator produces
    UserContent,  \* a content only a user writes
    Absent,       \* no file, no entry, no content
    Claims,       \* the sets of paths a caller of plan declares user-owned
    MaxPlans,     \* how many plans are kept for a later apply
    MaxCrashes,   \* bound on the number of process deaths
    LiveEdits     \* TRUE: the user edits while a call is running, too

ASSUME PathsAssumption ==
    Paths \subseteq Nat /\ IsFiniteSet(Paths) /\ Claims \subseteq SUBSET Paths

Contents == Generated \cup {UserContent, Absent}

PartialMaps(S) == UNION {[D -> S] : D \in SUBSET Paths}

ASSUME ContentAssumption ==
    /\ UserContent \notin Generated
    /\ Absent \notin Generated \cup {UserContent}
    /\ \A o, n \in PartialMaps(Contents) : [old |-> o, new |-> n] # Absent
    /\ Absent \notin [Paths -> Generated \cup {Absent}]

ASSUME RegenerationBounds ==
    MaxPlans \in Nat /\ MaxCrashes \in Nat /\ LiveEdits \in BOOLEAN

VARIABLES
    disk,      \* content of each path
    manifest,  \* manifest.json: content owned at each path, or Absent itself
    journal,   \* apply-journal.json: old and new content of the mutable paths
    plans,     \* plans computed so far, with the paths claimed user-owned
    pc,        \* where the running call is
    op,        \* the operations of the plan being applied
    backups,   \* backups of the running call
    todo,      \* paths the running call still has to write
    last,      \* history: old and new contents of the last apply
    crashes

vars == <<disk, manifest, journal, plans, pc, op, backups, todo, last, crashes>>

Actions == {"create", "replace", "unchanged", "conflict", "candidate_removal"}
Operations == [action : Actions, old : Contents, new : Generated \cup {Absent}]

TypeOK ==
    /\ disk \in [Paths -> Contents]
    /\ manifest \in [Paths -> Generated \cup {Absent}] \cup {Absent}
    /\ journal # Absent => /\ journal.old \in PartialMaps(Contents)
                           /\ journal.new \in PartialMaps(Contents)
    /\ \A p \in plans : p.ops \in PartialMaps(Operations) /\ p.users \subseteq Paths
    /\ pc \in {"idle", "backup", "journal", "write", "restore", "unlink"}
    /\ op \in PartialMaps(Operations)
    /\ backups \in PartialMaps(Contents)
    /\ todo \subseteq Paths
    /\ crashes \in 0..MaxCrashes

\* a project with files of both kinds and no manifest yet
Init ==
    /\ disk \in [Paths -> Contents]
    /\ manifest = Absent
    /\ journal = Absent
    /\ plans = {}
    /\ pc = "idle"
    /\ op = <<>>
    /\ backups = <<>>
    /\ todo = {}
    /\ last = Absent
    /\ crashes = 0

IsFirst(p, S) == p \in S /\ \A q \in S : p <= q
IsFinal(p, S) == p \in S /\ \A q \in S : p >= q

\* a call ends, and its locals with it
Return == pc' = "idle" /\ op' = <<>> /\ backups' = <<>> /\ todo' = {}

-----------------------------------------------------------------------------
(* bootstrap and plan *)

\* the generator names files that are there with exactly its content
Bootstrap ==
    /\ pc = "idle"
    /\ manifest = Absent
    /\ \E S \in SUBSET {p \in Paths : disk[p] \in Generated} :
          manifest' = [p \in Paths |-> IF p \in S THEN disk[p] ELSE Absent]
    /\ UNCHANGED <<disk, journal, plans, pc, op, backups, todo, last, crashes>>

\* mutant: an owned file is not compared with the disk
ConflictingNewOnly(p, users) ==
    manifest[p] = Absent /\ (p \in users \/ disk[p] # Absent)

Conflicting(p, users) ==
    IF manifest[p] = Absent THEN p \in users \/ disk[p] # Absent
                            ELSE disk[p] # manifest[p]

Action(p, new, users) ==
    CASE Conflicting(p, users)   -> "conflict"
      [] manifest[p] = Absent /\ ~Conflicting(p, users) -> "create"
      [] OTHER -> IF new = Absent THEN "candidate_removal"
                  ELSE IF new = disk[p] THEN "unchanged" ELSE "replace"

PlanOf(proposed, users) ==
    [p \in {q \in Paths : manifest[q] # Absent \/ proposed[q] # Absent} |->
        [action |-> Action(p, proposed[p], users), old |-> disk[p], new |-> proposed[p]]]

Plan ==
    /\ pc = "idle"
    /\ manifest # Absent
    /\ \E proposed \in [Paths -> Generated \cup {Absent}], users \in Claims :
          LET new == [ops |-> PlanOf(proposed, users), users |-> users] IN
          plans' = IF Cardinality(plans) < MaxPlans THEN plans \cup {new} ELSE {new}
    /\ UNCHANGED <<disk, manifest, journal, pc, op, backups, todo, last, crashes>>

-----------------------------------------------------------------------------
(* apply *)

Mutable(ops) ==
    {p \in DOMAIN ops : ops[p].action \in {"create", "replace", "candidate_removal"}}

\* validate refuses a plan with a conflict, then the mutable files are compared
Apply ==
    /\ pc = "idle"
    /\ \E plan \in plans :
          /\ \A p \in DOMAIN plan.ops : plan.ops[p].action # "conflict"
          /\ \A p \in Mutable(plan.ops) : disk[p] = plan.ops[p].old
          /\ op' = plan.ops
    /\ pc' = "backup"
    /\ UNCHANGED <<disk, manifest, journal, plans, backups, todo, last, crashes>>

ReadBackups ==
    /\ pc = "backup"
    /\ pc' = "journal"
    /\ backups' = [p \in Mutable(op) |-> disk[p]]
    /\ UNCHANGED <<disk, manifest, journal, plans, op, todo, last, crashes>>

WriteJournal ==
    /\ pc = "journal"
    /\ pc' = "write"
    /\ journal' = [old |-> backups, new |-> [p \in Mutable(op) |-> op[p].new]]
    /\ last' = journal'
    /\ todo' = Mutable(op)
    /\ UNCHANGED <<disk, manifest, plans, op, backups, crashes>>

WriteFile ==
    /\ pc = "write"
    /\ \E p \in todo :
          /\ IsFirst(p, todo)
          /\ op[p].action = "candidate_removal" => disk[p] = op[p].old
          /\ disk' = [disk EXCEPT ![p] = op[p].new]
          /\ todo' = todo \ {p}
    /\ UNCHANGED <<manifest, journal, plans, pc, op, backups, last, crashes>>

\* every operation with a new content is owned from now on
WriteManifest ==
    /\ pc = "write"
    /\ todo = {}
    /\ pc' = "unlink"
    /\ manifest' = [p \in Paths |-> IF p \in DOMAIN op THEN op[p].new ELSE Absent]
    /\ UNCHANGED <<disk, journal, plans, op, backups, todo, last, crashes>>

\* mutant: a failed apply drops its journal without restoring
FailUnrestored ==
    /\ pc = "write"
    /\ pc' = "unlink"
    /\ UNCHANGED <<disk, manifest, journal, plans, op, backups, todo, last, crashes>>

\* a write fails, or a stale file changed before its deletion: everything is
\* put back, the paths that were not written yet included
Fail ==
    /\ pc = "write"
    /\ pc' = "restore"
    /\ todo' = DOMAIN backups
    /\ UNCHANGED <<disk, manifest, journal, plans, op, backups, last, crashes>>

-----------------------------------------------------------------------------
(* recover, and the restoration it shares with a failed apply *)

\* mutant: files the interrupted apply had not reached are conflicts
RecoverableWritten == \A p \in DOMAIN journal.old : disk[p] = journal.new[p]

Recoverable ==
    \A p \in DOMAIN journal.old : disk[p] \in {journal.old[p], journal.new[p]}

Recover ==
    /\ pc = "idle"
    /\ journal # Absent
    /\ Recoverable
    /\ pc' = "restore"
    /\ backups' = journal.old
    /\ todo' = DOMAIN journal.old
    /\ UNCHANGED <<disk, manifest, journal, plans, op, last, crashes>>

RestoreFile ==
    /\ pc = "restore"
    /\ \E p \in todo :
          /\ IsFinal(p, todo)
          /\ disk' = [disk EXCEPT ![p] = backups[p]]
          /\ todo' = todo \ {p}
    /\ UNCHANGED <<manifest, journal, plans, pc, op, backups, last, crashes>>

UnlinkJournal ==
    /\ \/ pc = "unlink"
       \/ pc = "restore" /\ todo = {}
    /\ Return
    /\ journal' = Absent
    /\ UNCHANGED <<disk, manifest, plans, last, crashes>>

-----------------------------------------------------------------------------
(* The environment *)

UserEdit ==
    /\ pc = "idle" \/ LiveEdits
    /\ \E p \in Paths : disk' = [disk EXCEPT ![p] = UserContent]
    /\ UNCHANGED <<manifest, journal, plans, pc, op, backups, todo, last, crashes>>

Crash ==
    /\ pc # "idle"
    /\ crashes < MaxCrashes
    /\ crashes' = crashes + 1
    /\ Return
    /\ UNCHANGED <<disk, manifest, journal, plans, last>>

Continue ==
    \/ ReadBackups \/ WriteJournal \/ WriteFile \/ WriteManifest
    \/ RestoreFile \/ UnlinkJournal

Next ==
    \/ Bootstrap \/ Plan \/ Apply \/ Continue \/ Fail
    \/ Recover \/ UserEdit \/ Crash

Spec == Init /\ [][Next]_vars

\* A running call goes on, and somebody who sees RECOVERY_REQUIRED keeps
\* calling recover
FairSpec ==
    /\ Spec
    /\ WF_vars(Continue)
    /\ SF_vars(Recover)

-----------------------------------------------------------------------------
(* Properties *)

Clean == pc = "idle" /\ journal = Absent

\* A content only the user wrote is never replaced or removed by a call
UserWorkKept ==
    [][\A p \in Paths : disk[p] = UserContent => disk'[p] = UserContent]_vars

\* Between calls with no recovery required, the files of the last apply are all
\* as before it or all as planned, but for what the user edited since: a failed
\* or interrupted apply never leaves a mixture behind.
AllOrNothing ==
    Clean /\ last # Absent =>
        \E side \in {last.old, last.new} :
            \A p \in DOMAIN side : disk[p] \in {side[p], UserContent}

\* Whatever a call left behind when it died, recovery gets rid of it, unless the
\* user edited a file in between that recovery then refuses to overwrite.
RecoveryCompletes ==
    (journal # Absent) ~>
        \/ journal = Absent
        \/ \E p \in DOMAIN journal.old : disk[p] = UserContent
=============================================================================
