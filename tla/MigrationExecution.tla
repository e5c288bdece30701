------------------------- MODULE MigrationExecution -------------------------
(***************************************************************************)
(* The durable migration life of ONE schema module: the files kept by      *)
(* tools/schema_lifecycle.py (accepted, pending, manifest, migration       *)
(* artifacts), the journal and history kept by tools/migration_execution.py*)
(* and the row of arcacore_migration_state in PostgreSQL.                  *)
(*                                                                         *)
(* Several executors (processes) may work on the module at once.  A step   *)
(* of an executor is one durable effect: one atomic file replacement, one  *)
(* exclusive publish, one unlink or one database transaction; an executor  *)
(* may die between any two of them.  Everything read under one call of     *)
(* _validated, verify_current or status is read in one step.               *)
(*                                                                         *)
(* A revision identity is the digest of (plan(old, new), policy,           *)
(* down_revision), so a revision stands for the whole path of schemas that *)
(* leads to it: Parent and SchemaOf give its predecessor and its schema,   *)
(* and RevisionsAssumption says that the digest is deterministic and free  *)
(* of collisions.  The policy of a render is the policy of its apply.      *)
(***************************************************************************)
EXTENDS Naturals, FiniteSets

CONSTANTS
    Executors,   \* processes that call SchemaLifecycle / MigrationExecutor
    Schemas,     \* schema digests
    Revs,        \* revision identities (bounds the length of the lineage)
    Root,        \* the initial accepted state, whose migration_revision is None
    Parent,      \* Parent[r]: the revision r was planned from
    SchemaOf,    \* SchemaOf[r]: the schema r leads to
    Reversible,  \* the revisions whose downgrade does not raise
    None,        \* an absent file, or a null column
    MaxCrashes,  \* bound on the number of process deaths
    CallersRepeat \* TRUE: who calls recover names the migration of the journal

ASSUME RevisionsAssumption ==
    /\ Root \in Revs
    /\ Parent \in [Revs \ {Root} -> Revs]
    /\ SchemaOf \in [Revs -> Schemas]
    /\ Reversible \subseteq Revs \ {Root}
    /\ \A r \in Revs \ {Root} : Parent[r] # r /\ SchemaOf[Parent[r]] # SchemaOf[r]
    /\ \A r, s \in Revs \ {Root} :
          Parent[r] = Parent[s] /\ SchemaOf[r] = SchemaOf[s] => r = s

\* a write-ahead record of <module>.execution.json
JournalStates == {"STARTED", "DATABASE_COMMITTED", "COMPLETE",
                  "ROLLBACK_STARTED", "ROLLBACK_DATABASE_COMMITTED"}

ASSUME NoneAssumption ==
    /\ None \notin Revs
    /\ None \notin Executors
    /\ \A s \in JournalStates, r \in Revs : [state |-> s, rev |-> r] # None

ASSUME BoundsAssumption == MaxCrashes \in Nat /\ CallersRepeat \in BOOLEAN

VARIABLES
    accepted,   \* <module>.accepted.json: the accepted revision
    pending,    \* <module>.pending.json: the revision pending execution
    manifest,   \* <module>.manifest.json: the revision of the last render
    artifacts,  \* the revisions whose migration file is published
    journal,    \* <module>.execution.json
    history,    \* history/<schema digest>.json: the revision kept per schema
    db,         \* the database row: revision and manifest identity
    lock,       \* holder of the advisory lock between two steps
    pc,         \* where each executor is
    acc,        \* `accepted` as the call read it
    rev,        \* migration.revision / manifest.migration_revision of the call
    created,    \* render: the migration file was created by this call
    crashes     \* number of process deaths so far

files == <<accepted, pending, manifest, artifacts, journal, history>>
locals == <<acc, rev, created>>
vars == <<accepted, pending, manifest, artifacts, journal, history,
          db, lock, pc, acc, rev, created, crashes>>

Labels == {"idle",
           "renderArtifact", "renderManifest", "renderPending",
           "applyStart", "applyDb", "applyCommitted",
           "history", "publish", "accept", "unlink", "complete",
           "fastUnlink", "fastComplete", "recoverLock", "retryComplete",
           "undoLock", "undoAccept", "undoComplete",
           "rollbackStart", "rollbackDb", "rollbackCommitted",
           "rollbackAccept", "rollbackComplete"}

TypeOK ==
    /\ accepted \in Revs
    /\ pending \in (Revs \ {Root}) \cup {None}
    /\ manifest \in (Revs \ {Root}) \cup {None}
    /\ artifacts \subseteq Revs \ {Root}
    /\ journal \in [state : JournalStates, rev : Revs \ {Root}] \cup {None}
    /\ history \in [Schemas -> Revs \cup {None}]
    /\ db \in [rev : Revs, manifest : (Revs \ {Root}) \cup {None}]
    /\ lock \in Executors \cup {None}
    /\ pc \in [Executors -> Labels]
    /\ acc \in [Executors -> Revs]
    /\ rev \in [Executors -> Revs]
    /\ created \in [Executors -> BOOLEAN]
    /\ crashes \in 0..MaxCrashes

\* lifecycle.initialize published the root; no migration was ever rendered
Init ==
    /\ accepted = Root
    /\ pending = None
    /\ manifest = None
    /\ artifacts = {}
    /\ journal = None
    /\ history = [s \in Schemas |-> None]
    /\ db = [rev |-> Root, manifest |-> None]
    /\ lock = None
    /\ pc = [e \in Executors |-> "idle"]
    /\ acc = [e \in Executors |-> Root]
    /\ rev = [e \in Executors |-> Root]
    /\ created = [e \in Executors |-> FALSE]
    /\ crashes = 0

Entry(state, r) == [state |-> state, rev |-> r]

Goto(e, label) == pc' = [pc EXCEPT ![e] = label]

\* The call of e begins with what it validated: an accepted state and a revision
Begin(e, label, a, r) ==
    /\ pc[e] = "idle"
    /\ Goto(e, label)
    /\ acc' = [acc EXCEPT ![e] = a]
    /\ rev' = [rev EXCEPT ![e] = r]

\* ModuleDefinition arguments of a call: the proposed schema names r from a
Planned(a, r) == r # Root /\ Parent[r] = a

-----------------------------------------------------------------------------
(* SchemaLifecycle.render: verify, then publish migration, manifest, pending *)

Render(e) ==
    /\ pending = None
    /\ \E r \in Revs :
          /\ Planned(accepted, r)
          /\ Begin(e, "renderArtifact", accepted, r)
    /\ created' = [created EXCEPT ![e] = FALSE]
    /\ UNCHANGED <<files, db, lock, crashes>>

RenderArtifact(e) ==
    /\ pc[e] = "renderArtifact"
    /\ created' = [created EXCEPT ![e] = rev[e] \notin artifacts]
    /\ artifacts' = artifacts \cup {rev[e]}
    /\ Goto(e, "renderManifest")
    /\ UNCHANGED <<accepted, pending, manifest, journal, history, db, lock,
                   acc, rev, crashes>>

\* what the except branch of render removes besides the manifest
CreatedArtifact(e) == IF created[e] THEN {rev[e]} ELSE {}

RenderManifest(e) ==
    /\ pc[e] = "renderManifest"
    /\ \/ /\ manifest = None
          /\ manifest' = rev[e]
          /\ Goto(e, "renderPending")
          /\ UNCHANGED artifacts
       \/ /\ manifest # None                    \* FileExistsError
          /\ artifacts' = artifacts \ CreatedArtifact(e)
          /\ Goto(e, "idle")
          /\ UNCHANGED manifest
    /\ UNCHANGED <<accepted, pending, journal, history, db, lock, locals, crashes>>

RenderPending(e) ==
    /\ pc[e] = "renderPending"
    /\ Goto(e, "idle")
    /\ \/ /\ pending = None
          /\ pending' = rev[e]
          /\ UNCHANGED <<manifest, artifacts>>
       \/ /\ pending # None                     \* FileExistsError
          /\ manifest' = None
          /\ artifacts' = artifacts \ CreatedArtifact(e)
          /\ UNCHANGED pending
    /\ UNCHANGED <<accepted, journal, history, db, lock, locals, crashes>>

-----------------------------------------------------------------------------
(* MigrationExecutor.apply *)

\* _validated: pending and manifest are the one revision planned from accepted
Validated(r) == r # Root /\ pending = r /\ manifest = r /\ Parent[r] = accepted

Apply(e) ==
    /\ \E r \in Revs :
          /\ Validated(r)
          /\ journal \in {None, Entry("COMPLETE", r)}
          /\ Begin(e, "applyStart", accepted, r)
    /\ UNCHANGED <<files, db, lock, created, crashes>>

WriteJournal(e, from, state, to) ==
    /\ pc[e] = from
    /\ journal' = Entry(state, rev[e])
    /\ Goto(e, to)
    /\ UNCHANGED <<accepted, pending, manifest, artifacts, history, db, lock,
                   locals, crashes>>

ApplyStart(e) == WriteJournal(e, "applyStart", "STARTED", "applyDb")

\* One transaction under the advisory lock; an error leaves STARTED behind
ApplyDb(e) ==
    /\ pc[e] = "applyDb"
    /\ lock = None
    /\ \/ /\ db.rev = acc[e]
          /\ db' = [rev |-> rev[e], manifest |-> rev[e]]
          /\ Goto(e, "applyCommitted")
       \/ /\ Goto(e, "idle")                    \* wrong revision, or DDL failed
          /\ UNCHANGED db
    /\ UNCHANGED <<files, lock, locals, crashes>>

\* mutants: COMPLETE is written before the files follow; no journal after commit
ApplyCommittedEarly(e) == WriteJournal(e, "applyCommitted", "COMPLETE", "history")
ApplyCommittedSilent(e) == WriteJournal(e, "applyCommitted", "STARTED", "history")

ApplyCommitted(e) ==
    WriteJournal(e, "applyCommitted", "DATABASE_COMMITTED", "history")

(* _finalize, the tail of apply and of recover *)

\* exists() and the exclusive publish are two steps
FinalizeHistory(e) ==
    /\ pc[e] = "history"
    /\ Goto(e, IF history[SchemaOf[acc[e]]] = None THEN "publish" ELSE "accept")
    /\ UNCHANGED <<files, db, lock, locals, crashes>>

FinalizePublish(e) ==
    /\ pc[e] = "publish"
    /\ \/ /\ history[SchemaOf[acc[e]]] = None
          /\ history' = [history EXCEPT ![SchemaOf[acc[e]]] = acc[e]]
          /\ Goto(e, "accept")
       \/ /\ history[SchemaOf[acc[e]]] # None   \* FileExistsError
          /\ Goto(e, "idle")
          /\ UNCHANGED history
    /\ UNCHANGED <<accepted, pending, manifest, artifacts, journal, db, lock,
                   locals, crashes>>

FinalizeAccept(e) ==
    /\ pc[e] = "accept"
    /\ Goto(e, "unlink")
    /\ accepted' = rev[e]
    /\ UNCHANGED <<pending, manifest, artifacts, journal, history, db, lock,
                   locals, crashes>>

UnlinkPending(e, from, to) ==
    /\ pc[e] = from
    /\ Goto(e, to)
    /\ pending' = None
    /\ UNCHANGED <<accepted, manifest, artifacts, journal, history, db, lock,
                   locals, crashes>>

FinalizeUnlink(e) == UnlinkPending(e, "unlink", "complete")

FinalizeComplete(e) == WriteJournal(e, "complete", "COMPLETE", "idle")

-----------------------------------------------------------------------------
(* MigrationExecutor.recover(current, proposed): three branches *)

RollbackStates == {"ROLLBACK_STARTED", "ROLLBACK_DATABASE_COMMITTED"}

\* accepted already holds the proposed schema: only pending and journal are left
FastPath(proposed) ==
    journal.state = "DATABASE_COMMITTED" /\ SchemaOf[accepted] = proposed

RecoverFast(e) ==
    /\ journal # None
    /\ FastPath(SchemaOf[accepted])      \* the caller proposes that schema
    /\ CallersRepeat => SchemaOf[accepted] = SchemaOf[journal.rev]
    /\ Begin(e, "fastUnlink", accepted, journal.rev)
    /\ UNCHANGED <<files, db, lock, created, crashes>>

RecoverFastUnlink(e) == UnlinkPending(e, "fastUnlink", "fastComplete")

RecoverFastComplete(e) == WriteJournal(e, "fastComplete", "COMPLETE", "idle")

\* forward reconciliation: _validated again, then look at the database
RecoverForward(e) ==
    /\ journal # None
    /\ journal.state \notin RollbackStates
    /\ \E r \in Revs :
          /\ Validated(r)
          /\ CallersRepeat => r = journal.rev
          /\ Begin(e, "recoverLock", accepted, r)
    /\ UNCHANGED <<files, db, lock, created, crashes>>

RecoverLock(e) ==
    /\ pc[e] = "recoverLock"
    /\ lock = None
    /\ \/ /\ db = [rev |-> rev[e], manifest |-> rev[e]]
          /\ Goto(e, "history")                 \* _finalize, lock released
          /\ UNCHANGED lock
       \/ /\ db # [rev |-> rev[e], manifest |-> rev[e]]
          /\ db.rev = acc[e]
          /\ Goto(e, "retryComplete")           \* RETRY_SAFE, lock held
          /\ lock' = e
       \/ /\ db # [rev |-> rev[e], manifest |-> rev[e]]
          /\ db.rev # acc[e]
          /\ Goto(e, "idle")                    \* cannot be reconciled
          /\ UNCHANGED lock
    /\ UNCHANGED <<files, db, locals, crashes>>

\* a write made inside `with engine.begin()`, whose end releases the lock
CompleteAndUnlock(e, from) ==
    /\ pc[e] = from
    /\ lock = e
    /\ journal' = Entry("COMPLETE", rev[e])
    /\ lock' = None
    /\ Goto(e, "idle")
    /\ UNCHANGED <<accepted, pending, manifest, artifacts, history, db,
                   locals, crashes>>

RecoverRetrySafe(e) == CompleteAndUnlock(e, "retryComplete")

\* the arguments name the manifest's migration backwards: current is its result
Undoing(m) == m \notin {None, Root} /\ SchemaOf[accepted] = SchemaOf[m]

RecoverUndo(e) ==
    /\ journal # None
    /\ journal.state \in RollbackStates
    /\ Undoing(manifest)
    /\ Begin(e, "undoLock", accepted, manifest)
    /\ UNCHANGED <<files, db, lock, created, crashes>>

Historical(r) == history[SchemaOf[Parent[r]]]

UndoLock(e) ==
    /\ pc[e] = "undoLock"
    /\ lock = None
    /\ \/ /\ db.rev = Parent[rev[e]]
          /\ Historical(rev[e]) # None
          /\ Goto(e, "undoAccept")
          /\ lock' = e
       \/ /\ db.rev = rev[e]
          /\ Goto(e, "undoComplete")            \* ROLLBACK_RETRY_SAFE
          /\ lock' = e
       \/ /\ \/ db.rev \notin {Parent[rev[e]], rev[e]}
             \/ db.rev = Parent[rev[e]] /\ Historical(rev[e]) = None
          /\ Goto(e, "idle")
          /\ UNCHANGED lock
    /\ UNCHANGED <<files, db, locals, crashes>>

UndoAccept(e) ==
    /\ pc[e] = "undoAccept"
    /\ Goto(e, "undoComplete")
    /\ accepted' = Historical(rev[e])
    /\ UNCHANGED <<pending, manifest, artifacts, journal, history, db, lock,
                   locals, crashes>>

UndoComplete(e) == CompleteAndUnlock(e, "undoComplete")

-----------------------------------------------------------------------------
(* MigrationExecutor.rollback(current, previous) *)

\* mutant: the manifest's migration need not be the accepted one
RollbackUnaccepted(e) ==
    /\ manifest \in Reversible
    /\ Historical(manifest) # None
    /\ Begin(e, "rollbackStart", accepted, manifest)
    /\ UNCHANGED <<files, db, lock, created, crashes>>

Rollback(e) ==
    /\ manifest \in Reversible
    /\ accepted = manifest
    /\ Historical(manifest) # None
    /\ Begin(e, "rollbackStart", accepted, manifest)
    /\ UNCHANGED <<files, db, lock, created, crashes>>

RollbackStart(e) ==
    WriteJournal(e, "rollbackStart", "ROLLBACK_STARTED", "rollbackDb")

RollbackDb(e) ==
    /\ pc[e] = "rollbackDb"
    /\ lock = None
    /\ \/ /\ db = [rev |-> rev[e], manifest |-> rev[e]]
          /\ db' = [rev |-> Parent[rev[e]], manifest |-> None]
          /\ Goto(e, "rollbackCommitted")
       \/ /\ Goto(e, "idle")                    \* wrong revision, or DDL failed
          /\ UNCHANGED db
    /\ UNCHANGED <<files, lock, locals, crashes>>

RollbackCommitted(e) ==
    WriteJournal(e, "rollbackCommitted", "ROLLBACK_DATABASE_COMMITTED",
                 "rollbackAccept")

\* the historical revision was loaded before the transaction; history entries
\* are never rewritten, so reading it here gives the same revision
RollbackAccept(e) ==
    /\ pc[e] = "rollbackAccept"
    /\ Goto(e, "rollbackComplete")
    /\ accepted' = Historical(rev[e])
    /\ UNCHANGED <<pending, manifest, artifacts, journal, history, db, lock,
                   locals, crashes>>

RollbackComplete(e) == WriteJournal(e, "rollbackComplete", "COMPLETE", "idle")

-----------------------------------------------------------------------------
(* The environment *)

\* _lock gives up when the advisory lock is held for longer than lock_timeout
LockTimeout(e) ==
    /\ pc[e] \in {"applyDb", "rollbackDb", "recoverLock", "undoLock"}
    /\ lock # None
    /\ Goto(e, "idle")
    /\ UNCHANGED <<files, db, lock, locals, crashes>>

\* The process dies; PostgreSQL may notice at once, or keep the dead session,
\* and the lock of its transaction, for a while
Crash(e) ==
    /\ pc[e] # "idle"
    /\ crashes < MaxCrashes
    /\ crashes' = crashes + 1
    /\ Goto(e, "idle")
    /\ lock' \in IF lock = e THEN {e, None} ELSE {lock}
    /\ UNCHANGED <<files, db, locals>>

\* PostgreSQL ends the session of a dead process, which releases its lock
SessionEnds ==
    /\ lock \in Executors
    /\ pc[lock] \notin {"retryComplete", "undoAccept", "undoComplete"}
    /\ lock' = None
    /\ UNCHANGED <<files, db, pc, locals, crashes>>

Quiescent == \A e \in Executors : pc[e] = "idle"

Settled == journal # None => journal.state = "COMPLETE"

\* No operation removes the manifest and render publishes it exclusively, so
\* the next migration needs the operator to remove manifest and journal
OperatorClear ==
    /\ Quiescent
    /\ Settled
    /\ pending = None
    /\ manifest # None
    /\ manifest' = None
    /\ journal' = None
    /\ UNCHANGED <<accepted, pending, artifacts, history, db, lock, pc, locals,
                   crashes>>

Recover(e) == RecoverFast(e) \/ RecoverForward(e) \/ RecoverUndo(e)

\* The next step of a call in progress
Continue(e) ==
    \/ RenderArtifact(e) \/ RenderManifest(e) \/ RenderPending(e)
    \/ ApplyStart(e) \/ ApplyDb(e) \/ ApplyCommitted(e)
    \/ FinalizeHistory(e) \/ FinalizePublish(e) \/ FinalizeAccept(e)
    \/ FinalizeUnlink(e) \/ FinalizeComplete(e)
    \/ RecoverFastUnlink(e) \/ RecoverFastComplete(e)
    \/ RecoverLock(e) \/ RecoverRetrySafe(e)
    \/ UndoLock(e) \/ UndoAccept(e) \/ UndoComplete(e)
    \/ RollbackStart(e) \/ RollbackDb(e) \/ RollbackCommitted(e)
    \/ RollbackAccept(e) \/ RollbackComplete(e)
    \/ LockTimeout(e)

Next ==
    \/ \E e \in Executors :
          Render(e) \/ Apply(e) \/ Recover(e) \/ Rollback(e) \/ Continue(e) \/ Crash(e)
    \/ OperatorClear
    \/ SessionEnds

Spec == Init /\ [][Next]_vars

\* A call in progress goes on until it returns, raises or dies, and while the
\* journal asks for recovery an operator who keeps calling recover gets a turn;
\* PostgreSQL does not keep a dead session for ever
FairSpec ==
    /\ Spec
    /\ WF_vars(SessionEnds)
    /\ \A e \in Executors : WF_vars(Continue(e)) /\ SF_vars(Recover(e))

-----------------------------------------------------------------------------
(* Properties *)

\* When no call is running and the journal asks for no recovery, the accepted
\* schema is the one the database holds: the crash points of apply, recover and
\* rollback never leave the two apart with nothing on disk to say so.
DbAcceptedAgree == Quiescent /\ Settled => db.rev = accepted

\* A call that died with the journal in an apply state left enough behind for
\* one of recover's branches to finish it: the fast path, or a validated pending
\* revision with the database at either end of it.
ApplyRecoverable ==
    Quiescent /\ journal # None /\ ~Settled /\ journal.state \notin RollbackStates =>
        \/ FastPath(SchemaOf[journal.rev]) /\ db.rev = accepted
        \/ Validated(journal.rev) /\ db.rev \in {journal.rev, accepted}

\* recover's short cut is for a finalization that got as far as the accepted
\* state: what it declares finalized is accepted and in the database.
FastPathIsFinalized ==
    \A e \in Executors :
        pc[e] \in {"fastUnlink", "fastComplete"} => accepted = rev[e] /\ db.rev = rev[e]

PendingHasArtifact == pending # None => pending \in artifacts

\* The database moves along the lineage only, one migration at a time: nobody
\* upgrades from a revision other than the one they planned from, however many
\* executors raced for the lock.
DbFollowsLineage ==
    [][db'.rev # db.rev =>
          \/ db'.rev # Root /\ Parent[db'.rev] = db.rev
          \/ db.rev # Root /\ Parent[db.rev] = db'.rev]_vars

\* The journalled executor implements the two-step promise of AtomicMigration: the
\* database leads, the accepted schema follows, never more than one step behind.
Atomic == INSTANCE AtomicMigration WITH committed <- db.rev, published <- accepted
AtomicSpec == Atomic!Spec

\* An apply that died once is always recoverable (a recovery that dies in its
\* turn is another matter: see ApplyRecoverable).
OneCrashRecoverable == crashes <= 1 => ApplyRecoverable

\* An apply that the journal shows unfinished is finished, withdrawn, or undone
\* by a rollback, wherever one process dies on the way.
ApplySettles ==
    (journal # None /\ journal.state \in {"STARTED", "DATABASE_COMMITTED"})
        ~> (Settled \/ journal.state \in RollbackStates \/ crashes > 1)
=============================================================================
