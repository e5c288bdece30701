# TLA+ models of the ArcaCore platform

The repository is a toolkit that authors, generates, migrates and repairs
applications. `arcadev/` takes a request in words through five stages (IDEA,
PLAN, ARCHITECTURE, MODELS, BACKEND) of questions, answers, approvals and
hand-offs and ends with a generated backend. `tools/` holds the generator, the
evolution of schemas and the execution of their migrations, the regeneration of
files a user edits too, the build orchestrator with its runtime harness, the
release gate, and a small runtime library (jobs, events, storage, authorization).
`backend/` is a FastAPI application that was partly generated over.

What makes this code hard is less concurrency in one process than this:
many parts keep their truth in several files, a database row or an immutable value
in a caller's hands; these are written one after another; processes
die, answers arrive late and developers edit files in between; and what one part
judged safe is used by another much later. The models are about that.

1. [The system](#1-the-system)
2. [Modules and code](#2-modules-and-code)
3. [Runs, bounds and fairness](#3-runs-bounds-and-fairness)
4. [Proofs](#4-proofs)
5. [What the models show about the code](#5-what-the-models-show-about-the-code)
6. [Not modelled, and what is next](#6-not-modelled-and-what-is-next)

`tlc -config <run>.cfg <module>` and `tlapm <module>.tla` repeat everything;
PROJECT.json lists runs, theorems, mutations, the lines each definition models and
the hazards of the code.

## 1. The system

| Part | State | Operations | Interacts with | Hard | Must hold |
|---|---|---|---|---|---|
| Schema lifecycle and migration execution: `schema_lifecycle.py`, `migration_execution.py` | accepted, pending, manifest, journal, history and artifact files of a module; the row `arcacore_migration_state` | render, apply, recover, rollback | PostgreSQL (transaction, advisory lock), the rendered migration | death between any two writes; other processes; a lock that times out | database and accepted schema agree when nothing is going on; one death is always recoverable |
| Schema evolution: `schema_evolution.py`, `type_evolution.py`, `alembic_migration.py` | the schema in force, its rows | compare, judge, write upgrade and downgrade | the lifecycle publishes what it writes | rows stored between plan, upgrade and downgrade | the database follows the definition; nothing is lost; what is called safe runs |
| Minimal regeneration: `minimal_regeneration.py` | generated files, ownership manifest, apply journal | bootstrap, plan, apply, recover | the user, who edits the files | failing writes, death, old plans | all old or all new; user work untouched |
| ArcaDev IDEA: `idea_intake.py`, `clarification.py`, `idea_plan_handoff.py`, `project.py` | intake values, assumptions, open questions, conflicts, history; the project file | normalise, answer, make a project, save, load, hand off | a user or a model that answers; PLAN | answers prepared against an older state; contradictions; limits that differ by layer | nobody decides about values unseen; PLAN gets what was agreed; what is written is readable |
| ArcaDev PLAN to BACKEND: `plan_*`, `architecture_*`, `model_*`, `backend_*` clarification, approval and hand-off files | finalization of the stage, last approval, frozen packages | resolve, start over, approve, reject, hand off | each stage reads what the one before froze | approvals that are old when used; replaced decisions | frozen authority is complete and without contradictions |
| ArcaDev engines, specifications and the generation request: `planning_engine.py`, `architecture_engine.py`, `domain_model_engine.py`, `backend_engine.py`, their `*_specification.py`, `arcacore_generation_request.py` | the specification of each stage | derive, check a candidate, map to the generator | adapters that propose other specifications | each stage is checked against the one before only | what was asked for is operated once; no authority appears; an eligible request is complete |
| Amendments: `model_amendment_*.py`, `approved_domain_model_revision.py`, `downstream_authority_invalidation.py` | immutable values | request, answer, finalize, approve, invalidate | the models stage | answers that only fit the model at the end | amendments do not dead-end; a revision keeps its parent |
| Controlled backend generation: `backend_generation.py`, `generation_dependencies.py`, `_generation_process.py` | two snapshots of the source, a copied generator, a workspace, a child process | plan, snapshot, copy, invoke, validate, clean up, record | the generator process, developers | edits meanwhile, hanging and failing children | GENERATED means made from that source, completely |
| Module generator and registry: `generate.py`, `registry.py`, `core/engine.py` | layers of a module, registry, temporary files | generate a module, restore | called by the controlled generation and the command line | a failure after some outputs | a failed generation leaves what it found |
| Build orchestrator, localization, recovery, runtime harness: `build_orchestrator.py`, `failure_localization.py`, `recovery_workflow.py`, `runtime_harness.py` | build lock, build journal, workspace, child process | run a build, validate, judge, recover once | regeneration, developers, a child | death with the lock held, edits while copying, a child at its deadline | success only for a verified child; recovery only of what is proven |
| Jobs and SDK: `jobs.py`, `sdk.py` | invocations, the executor's records, the operations table | enqueue, execute, cancel, prepare a build | handlers, clients, holders of an invocation | overlapping calls, late handlers, edited objects | bounded starts, one handler at a time, never after success |
| Storage and events: `storage.py`, `events.py` | objects and metadata; subscriptions, replay guard | upload, download, delete; publish, deliver, verify | handlers, receivers, disk, network | retries, overlap, restart | no mixed objects; a delivery is acted on once |
| Release gate: `release_gate.py`, `promotion_evidence.py` | commit, working tree, results | run contracts, compare the review, check evidence | git, CI | edits between the steps | complete means reviewed and attested |
| Generated service: `templates/*.j2` | a table, sessions | create, get, list, update, delete, restore | PostgreSQL, overlapping requests | a row that changed since it was loaded | tenants apart; deleted rows stay as they were |
| Field declarations: `core/*_parser.py`, validators, `module_definition.py` | what has been declared | field, modifiers, relationships, options | the renderers | modifiers that need what later ones say | the order of modifiers does not matter; names do not collide |
| Authorization: `authorization.py` | none | authorize | storage, webhooks, generated services | | (part of the others' properties) |

Components meet at values: a migration is planned from the accepted schema that
the executor writes; a stage reads only the package the one before froze; the
generation request carries what BACKEND approved into the controlled generation,
which runs the public generator as a process; the orchestrator validates what
regeneration wrote, as the ownership manifest names it.

## 2. Modules and code

A module with an `MC` twin is instantiated there; a `...Proofs` module extends the
module it proves about: `PlatformOperationsProofs` about all the services, and
`ArcaDevLifecycleProofs` about the stages and about the content they hand on. A definition marked `mutant` is a plausible bug of the
definition near it and not part of any specification: each property was seen to
fail when one of them takes that definition's place.

### Migration: `MigrationExecution`, `AtomicMigration`

One schema module of an application. The variables `accepted`, `pending`, `manifest`,
`artifacts`, `journal`, `history` are the files, `db` is the row, `lock` the advisory
lock that `recover` holds across steps, and `pc`, `acc`, `rev`, `created` the locals of
each executor's call. A step is one durable effect: one atomic replace, one exclusive
publish, one unlink, one transaction. What `_validated` or `status` reads is read in one
step. `Render*` is `SchemaLifecycle.render` with its removal of what it published when a
later publish fails; `Apply*` and `Finalize*` are `apply` and `_finalize`;
`RecoverFast*`, `RecoverForward`, `RecoverLock`, `RecoverUndo`, `Undo*` are the branches
of `recover`; `Rollback*` is `rollback`. `Crash` is a death anywhere, `SessionEnds` the
moment PostgreSQL lets go of the dead process and its lock, `LockTimeout` the exception
of the advisory lock meanwhile, `OperatorClear` the manual removal of the manifest
without which no second render succeeds (the test suite does the same). A revision
stands for the whole lineage below it, as its digest does.

`AtomicMigration` is the promise: the database leads by at most one migration, the
accepted schema follows. `MigrationExecution` implements it with the database
row as `committed` and the accepted file as `published`.

### Schema evolution: `SchemaEvolution`

One table. `Plan` stands for what `plan_schema_evolution` is given, `ClassifyPlan`
for the judgement of its differences (with the type judgements of `type_evolution.py`),
`Steps`, `UpgradeOf` and `DowngradeOf` for the operations `alembic_migration.py` renders
under a policy, and `Transaction` for what PostgreSQL does with them on the rows that
are there, all or nothing. `Upgrade`, `Downgrade` and `Write`, which stores a row,
interleave freely. A value is the room it takes and whether it is ciphertext; a number is
kept in hundredths and loses what the scale of its column has no place for; an object's
name stands for what the name is made of. A migration is a sequence of groups of operations,
one group a change, and `Transaction` carries them out one after the other (`Group`,
`Perform`). `applied` holds, of each migration in force, the definition it started from and its
downgrade. `EvolutionInit` has no table, or the table `create_all` made (`Baseline`) of a definition
that `SchemaLifecycle.initialize` accepted; only such a table can have an enum, since a new one
refuses it and `op.add_column` makes no type. Definitions whose models make another table than a migration
would (with a default, or a field both unique and indexed) are no baselines (`Founding`).

### Minimal regeneration: `MinimalRegeneration`

`disk`, `manifest`, `journal`, the kept `plans`, and the running call (`pc`, `op`,
`backups`, `todo`). `Plan` computes the action of each path as `plan` does;
`Apply`, `ReadBackups`, `WriteJournal`, `WriteFile`, `WriteManifest`, `UnlinkJournal` are
`apply` write by write, `Fail` any write that raises, after which `RestoreFile`
puts every backup back; `Recover` starts the same restoration from a journal.
`UserEdit` is the user.

### ArcaDev IDEA: `IdeaClarification`, `IdeaRecords`

`IdeaClarification` is one session: values held, those derived by the rules, open questions,
tentative assumptions, active conflicts, history. `Normalized` is what
`normalize_idea` may start with. `Submit` is `resolve`, by the six actions an answer
may have; an answer may name any earlier state of the session as the one its
author looked at. `ToProject` and `Handoff` are `to_project` and the gate of
`idea_plan_handoff.py`, applied to any project made so far.

`IdeaRecords` is the same stage seen as documents: which intake, answer, finalization and
project each layer accepts when it is made and when it is read back, the words that
values rest on, and the file of `project.py` with its temporary file, sync and replace.
Texts are model values with a length and words; no answer is given once a project was made.

### ArcaDev PLAN to BACKEND: `ArcaDevStages`, composed in `ArcaDevLifecycle`

`ArcaDevStages` has what the four clarifications share (an answer is refused,
recorded as a conflict, or accepted) and, stage by stage, which answers contradict authority
or one another, when a finalization may be approved, and what the hand-off asks on
top. `ArcaDevLifecycle` composes them: `Resolve`, `StartOver`, `Approve`, `Reject`,
`Handoff`. All of these are immutable values in the code; the caller of
the model holds the newest finalization and the last approval, which may be of an
older finalization. Questions, choices and their claims are constants, since the
code derives them from the frozen package.

### ArcaDev content: `SoftwarePlan`, `ArchitectureSpecification`, `DomainModelSpecification`, `BackendSpecification`, composed in `SpecificationPipeline`

The lifecycle takes questions as given; the pipeline follows the content. Each module has
its record's contract (`PlanContract`, `ArchitectureContract`, `ModelContract`,
`BackendContract`), its engine (`BaselinePlan` and so on) and the check of a candidate an
adapter proposes (`PlanCandidate` and so on). `SpecificationPipeline` takes an approved
idea through the stages, one approval each, where the next specification is the engine's
or an accepted candidate, and ends with the request for generation and its blockers
(`arcacore_generation_request.py` with its translation helpers). Its variable `phase` is the
project's stage with its approval, and its specification is `PipelineSpec`.

### Amendments: `ModelAmendment`

The questions an approved model leaves, the declarations that answer them
(`AcceptsDeclaration`), candidates, the finalization held so far, the revision and the
invalidation of what was built on the parent.

### Controlled generation: `ModuleGeneration`, `BackendGeneration`

`ModuleGeneration` is the generator process in its workspace: parse, then layer by
layer a temporary file, its formatter and the publication, then the registry; any
exception restores what the snapshots hold, path by path. It can break for good
(`Break`) and write too much (`Chatter`). SIGKILL makes it and its formatter dying: they do
nothing more, and end at any later moment (`Die`); a system call they were in counts as done
before the signal.

`BackendGeneration` extends it with one call of `generate_backend`: the rounds
of the dependency plan, `ReadBefore`, `CopyTrusted` and `ReadAfter` file by file with
`Edit` in between, `Launch`, `SeeExit`, `GiveUp`, `Kill` and `Stop` or `WaitExpires` for each
generator, `Validate`, `Cleanup`, `Record`, and every exception that is caught or is not.
Version numbers stand for contents, so a file never returns to earlier
contents (see section 5 for what that leaves out). The prerequisites are any
the public declarations can express and the planner's tests exercise
(`tools/test_arcadev_state_generation.py`); the translator of requests at this commit
blocks related entities before they get there.

### Builds: `RuntimeHarness`, `BuildOrchestration`, `BuildPromise`

`RuntimeHarness` is one validation: the surfaces are copied one by one if they are still
those of the manifest, a child is started, contained, asked for its health until a
deadline and stopped in two stages; the child runs and dies by itself.
`BuildOrchestration` puts `run` around it, for several builders that share lock and
journal: `Resume`, `TakeLock`, the two journal writes, the validation, `SeeReport`,
`Judge` (`Localize` and `Plan`), `Recover`, `Revalidated`, `Close`, `Raises`, `Return`.
`NewGeneration`, `Generate` and `Edit` change the application meanwhile; `Crash` kills a
builder and `ClearLock` is whoever removes its lock, since no code does. Contents are
generations, or `Edited`. `BuildPromise` is what a caller may rely on: one build at a
time, success only where that build's last validation passed.

### Jobs: `JobPromise`, `JobExecutor`, `ArcaCoreService`

`JobExecutor` has the invocation object as its holders see it, what the executor
recorded of it, and each call of `execute` at its place: checking, running the
handler, sleeping, returning. `EditPayload`, `EditStatus` and `Cancel` are what a holder
can do to the object; status edits happen only while no call works on it.
`ArcaCoreService` puts the bounded operations table of the SDK in front.
`JobPromise` is what a job's owner may rely on.

### Services: `Authorization`, `ObjectStorage`, `EventDelivery`, `ReleaseGate`, `GeneratedService`, `FieldDeclarations`, `IdeaRecords`, `ModelAmendment`, side by side in `PlatformOperations`

These share authorization and no state, so a behaviour of `PlatformOperations` follows one
of them. `ObjectStorage` has every step of overlapping uploads, downloads and deletes of one
process, and a restart that keeps files and loses metadata. `EventDelivery` has the handlers of
an event in order, a webhook with bounded attempts, a network that loses and delays
requests and answers, and a receiver with a replay guard that may restart; that a handler
delivers the webhook is an assumption, no code wires the two. `ReleaseGate` has the gate's
steps on a repository somebody edits. `GeneratedService` has overlapping requests, each with
a session of its own, on a table under a contract of soft deletion, version column, tenancy
and a relationship. `FieldDeclarations` adds modifiers one after the other and judges what
is declared.

## 3. Runs, bounds and fairness

| Run | Shows | States |
|---|---|---|
| `migration` | one executor, up to three deaths, a chain of three schemas: `DbAcceptedAgree`, `OneCrashRecoverable`, refinement `AtomicSpec`, liveness `ApplySettles` | 2,337 |
| `migration_race` | violated: `DbAcceptedAgree` with two executors and no death | |
| `regeneration` | two files, two deaths, failing writes, edits between calls: `AllOrNothing`, `UserWorkKept`, liveness `RecoveryCompletes` | 174,496 |
| `lifecycle` | four stages, two or three questions and four answers each: `DecisionsCompatible`, `FrozenAuthority`, `ConflictsHold` | 62,956 |
| `idea` | three answers prepared against any earlier state: `AnsweredAsSeen`, `HandedOnAgreed` | 96,643 |
| `jobs` | two clients, two overlapping calls, two attempts, a table of one: `EnqueuedPayloadOnly`, refinement `KeepsPromise` | 81,933 |
| `generation` | two modules of two layers, three graphs of prerequisites, a trusted and an application file, two edits and a removal: `GeneratedFromSource`, `ValidatedAlone`, `FailedLeavesAsFound` | 1,472,654 |
| `build` | two builders, two surfaces and a user's file, two generations, an edit, a death: `RegeneratesOnlyProven`, `SuccessVerified`, refinement `KeepsPromise`, liveness `BuildsEnd` | 362,608 |
| `pipeline` | four ideas, every candidate that changes one thing at a stage, decided rules of three kinds: `CapabilitiesOperated`, `StateKept`, `GroupingKeepsAuthority`, `EligibleIsComplete` | 1,515 |
| `evolution` | twenty-three definitions in any order, seventeen of them also as a baseline, three migrations in force, three rows: `DatabaseFollows`, `SafeNeverFails`, `RowsKept` | 84,718 |
| `evolution_sealed` | violated: `EncryptedStaysSealed` | |
| `operations` | the services, one to a behaviour: `WholeObjects` (storage), `ActedOnOnce` (webhooks), `CompleteIsReviewed` (release), `DeletedStaysAsItWas` and `RowsOfTheirTenant` (generated service), `OrderIrrelevant` and `RelationshipNamesDistinct` (declarations), `WrittenIsReadable`, `GroundedInWords` and `SavedReadsBack` (idea documents), `NeverStuck` and `RevisionKeepsParent` (amendments) | 689,887 |

**Bounds.** `MaxCrashes` is named per run: one death is enough for the half-written
states, a second one for a death of the recovery, a third for a death of that.
Three revisions give an accepted one in the middle with a predecessor and a
successor. Two files give a mixture, two contents a change. Four answers a stage let two
questions be decided, one be put in conflict and cleared; three answers in IDEA let a
conflict be raised and be settled with another answer between. `MaxAttempts` 2 has a
first, a last and an exhausted attempt; `MaxOperations` 1 has a full table. In
`generation` two layers let a failure come after one of them was written, and `MaxVersion` 2
lets a file be edited before and after it was read; tearing between trusted files is
covered by the theorem only. In `build` two generations let an orchestrator be older than
the application, two surfaces let one be copied before and one after an edit, and one death
leaves a lock for the other builder to meet; three deaths or edits only repeat these.
In `evolution` three migrations in force let a downgrade meet what two others built on;
`MaxRows` 3 lets a row be stored before, between and after. The ideas of `pipeline` are one the
generator can carry, one with builds, integrations and sign-in, one without state,
and one with two stateless features beside an owner of state. `operations` has two callers
and one restart a service, which is where each of its hazards needs its second actor,
and modifiers up to three, since what a modifier needs is said by at most two others.
`MaxSessionBytes` and `MaxIntakeBytes` are small there, so that documents on both sides of each are
reached (the code's are 5,000,000 and 1,000,000); both count texts only. `LinearPatterns` are
the patterns that pass the check for catastrophic ones: a word, whatever modifiers it swallowed.
`CHECK_DEADLOCK FALSE` stands where a system may really stop: nothing left to migrate, a
history or a call at its end.

**Fairness.** It is only assumed of what the code itself does once it was called, and of the retry.

- `ApplySettles`: weak fairness of `Continue(e)` (a running call goes on; a transaction
  or a write may still fail) and strong fairness of `Recover(e)`: an operator or
  caller who sees an unfinished journal retries, also when a call in between disables the
  retry now and then. Weak fairness of `SessionEnds`: the server ends a dead session
  some day, so the lock is not held for ever. Deaths are bounded, not fair.
- `RecoveryCompletes`: the same for `MinimalRegeneration`. Between retries the user may
  edit a file, after which recovery rightly refuses; the property names that way out.
- `BuildsEnd`: weak fairness of each builder's own steps and of the harness, whose waits
  are all bounded by deadlines. Nothing is assumed of the child, of editors or of who
  clears a lock.

## 4. Proofs

The theorems hold for every value of the constants under the assumptions their
modules name. TLC agreed with each safety property below before its proof, on the
instances above.

**Migration** (`MigrationExecutionProofs`). `TypeCorrect` and `LineageKept` hold for any
number of executors: each commit compares the row with what the call validated,
and lineage is a statement about one step. `Agreement`, `ShortCutFinal` and
`Refinement` assume one executor (`Alone`), that no two revisions lead to one schema
(`DistinctSchemas`) and that a caller of `recover` names the migration of the journal
(`CallersRepeat`). The invariant
`IInv` has `GapInv` at its centre: the row and the accepted file agree, or the row is
one apply ahead of it, or one rollback behind it, and in the last two cases the
journal says so. `LocalInv` says what each label of a running call relies on, and
`HistoryOK` that the history of a schema holds the revision that led to it, without
which a rollback could not be shown to publish the predecessor. A death changes
nothing but the label, so what holds for a running call's files must hold for an idle
executor too. `PendingPublished` assumes one renderer at a
time. That each assumption is needed was seen with TLC (section 5).

**Regeneration** (`MinimalRegenerationProofs`). `RegenerationTypes`, `NoMixture` and
`UserWorkSafe` assume that the user edits between calls only (`~LiveEdits`). The
invariant has five parts: types; plans consist of well-formed operations; a
journal holds exactly the mutable paths of its apply; the running call's backups are
the journal's; and every journalled path is, on disk, at its old or its new content or
at the user's.

**Lifecycle** (`ArcaDevLifecycleProofs`). Clashes are first shown to be symmetric, so
that comparing an answer once with the decisions of its time is enough. The
invariant adds to `DecisionsCompatible` and `AuthorityKept` that the finalization an
approval is of has both properties too (`ApprovalSound`): an approval may be older
than the current finalization, and it is what is handed off. `HandedOnComplete`,
`ReplacementsKnowing` and `ConflictsNeverHidden` follow; the latter says of each answer that it
touches its own question only, and ends the conflict there by naming the decision in force.

**IDEA** (`IdeaClarificationProofs`). `NobodyAnswersStale` from the identity check;
`NoSilentReplacement` action by action; `OnlyAgreedIdeasGoOn` from the invariant
`AgreedSoFar`: each value is the initial one or that of the last answer about its
requirement, in the session and in the project made of it.

**Jobs** (`ArcaCoreServiceProofs`). The invariant says that a running
call compares with the payload that was enqueued and finds invocation and record in
step, that a job with a call in its handler is running, and that no two calls are in
one handler. `JobsKeepPromise` is the refinement, for any number of overlapping calls;
`PayloadsAsEnqueued` and `ServiceTypes` go with it.

**Generation** (`BackendGenerationProofs`). `GenInv` is what a generator has done where
it is, layers below its place written or restored, and gives `FailureRestores`.
`SourceInv` orders the versions: first snapshot, copy, source now, last snapshot;
equal ends leave nothing in between, which is `MadeFromSource` for any number of
files. `PlanInv`, `CallInv` and `EvidenceInv` say that placed modules have
prerequisites in earlier rounds, who may be alive at which stage and what is
complete, and what is known to have gone wrong; a generator that exited has awaited its
formatter, so nobody is left behind a good one; with `OthersUntouched` (a generator
leaves other modules' outputs and registrations alone, also when it restores)
they give `NobodyLeft`, `RoundsOrder` and `EvidenceRecorded`.

**Builds** (`BuildOrchestrationProofs`). The invariant is per builder. `LockInv`: who works
holds the lock, and a holder or a builder about to take it has no verdict yet (a lock
survives its dead holder, so the promise's `Ask` must be a stutter then). `ValidInv` carries
`HarnessInv`, what a validation has established at each place: what was copied is of the
generation asked for, and results without a failure at the stop include the answer of the
health check; it is proved of the harness alone (`HarnessSafe`) and then lifted. `DoneInv` ties
the builder's place to the end of its validation. `UserInv` says that a surface the caller knew
to be edited stays edited, so each validation ends in its preparation (`Untouched`). Without it
`BuildRegeneratesOnlyProven` fails: evidence that names nothing is blamed on the generators of
its phase, and the one candidate could be the user's. `JudgedInv` ties the recovery to the
report it was judged from. `BuildKeepsPromise` and `BuildSuccessVerified` follow.

**Pipeline** (`ArcaDevLifecycleProofs`, second part). Nothing is said about what adapters
propose but that it passed its stage's check, so `PipelineInv` is these checks, each against the
stages before it, which have not changed since. The theorems follow the chain of checks from
the plan to the request. `PlanIsOperated`: every capability has one owner in a sound
architecture, and the one group that this owner is in runs its one operation. `StateStaysKept`: the
baseline's store connects the owners of persistent capabilities and an accepted architecture
keeps it, so such an owner has an entity that a binding names, or became an identity
boundary. `AuthorityStays`: entities and policies follow from aspects and entities, not from
groups. `EligibleLeavesNothing`: no blockers means that each kind of mapping is supported, and
every approved thing has a mapping. It rests on `StandardIsManaged`: the standard module is one
that manages what it names, as its name "Manage records with ..." makes it in
`arcacore_generation_request.py`. Without this an owner of the standard module need not own state, and an
eligible request could have no module for it.

**Deaths of an apply** (`MigrationExecutionProofs`). `DiedOnceRecoverable` needs `ApplyInv`
besides `IInv`: STARTED over a migration that was committed means that a call died, or is about
to write the journal; and after one death the way out is there, except while the recovery of it is
between the accepted file and COMPLETE, where only a second death could lose it.

**Evolution** (`MigrationExecutionProofs`, first part). `MigrationKeepsRows`, `MigrationsFollowed`
and `SafeMigrationsSucceed` hold for every set of definitions, policies, values and owners that `EvolutionAssumption` admits:
definitions are records of finite sets of typed fields, column names have an order, and policies
hold finitely many assertions. The invariant `EvolutionInv` has three parts. `Follows`: columns
and unique constraints are those of the definition, and indexes and references name columns of it
(a downgrade that drops a column would otherwise leave what refers to it), and each index is one
the definition asks for. `RowsSound` and
`Holds`: every row has a value in every column, which has the column's scale already, fits it, and
is not null unless it may be; without the scale a widening could not be shown to keep a
number. `InForce`: each migration in force is a supported one between two valid definitions
that follow each other, only the first from no table at all, and its downgrade undoes its plan under some
policy; before the first one stands no table or a baseline (`BaselineServed`).
A migration is a run of operations, so what it establishes is proved along the run: `UpWalk`
says what every table on the way may look like (`TableBetween`: a column is the old one, the
new one, or the new one before it is required), `UpHasColumn`, `UpHasType`, `UpHasDefault` and
`UpHasUnique` that what a step gave is kept by those after it, and `DownWalk` the same for a downgrade.
Every change of the plan has its step in the run wherever the order of the kinds and names puts it
(`StepsListed`, `UpListed`, `DownListed`), which is why the theorems do not depend on that order.

`SafeMigrationsSucceed` is the other direction: that nothing is refused. A plan of safe changes only
adds columns that are nullable or have a default, are no enums, not unique and refer to nothing, lengthens
enumerations, and adds indexes on one column. Each step occurs once in the run, and what is still to
come is `Fresh`: the table does not have that column or index yet. Rows that are `Holds` and
`AllDistinct` pass every such step and are so again after it, since an added column takes its default in
every row, and no unique constraint reads it. That the run begins with such a table is
`EvolutionInv` again: what a definition's own unique constraints say is what the rows were
admitted by. `SafeNeverFails` assumes that defaults fit their columns (`DefaultsFit`), since the code
calls safe a default of None and a string longer than its column, which fail, and that no enum is added
(`NoEnumAdded`), since the code calls that safe and it fails for want of its type (section 5).

Runs, folds and replays are recursive functions, and what holds along them is proved by
induction over numbers, stated for sets of numbers (`LeastNumber`, `EveryNumber`): the library's
induction theorems take an operator as a parameter, these take a set.

**Services** (`PlatformOperationsProofs`). A behaviour follows one service, so each part has an
invariant of its own service and the others stand still (`ServicesApart`). The assumptions
on constants say that service contracts are sets of options (`ServiceAssumption`), that candidates
of an adapter have the fields of an intake (`IdeaRecordsAssumption`) and that a parent passed the approval of
MODELS (`ParentsAssumption`).

- Storage, `DownloadsWhole`: files hold whole contents of one upload, and what a call has
  written is a prefix of its own (`StorageInv`). That metadata may belong to another upload does not matter,
  since a download verifies what it opens; the theorem is about any callers, uploads and restarts.
- Webhooks, `ActsOnce`: attempts share what was signed, so the guard of one life of the receiver holds
  at most that key, and acceptances are at most its restarts and one (`DeliveryInv`).
- Release, `CompleteReleaseReviewed`: `GateInv` carries the review from the step that compared it to the
  end, and a gate that ended otherwise has a failed last result; a report is complete only if all passed.
- Generated service, `DeletionsStay` and `RowsStayOfTheirTenant`: `ServiceInv` says of every
  request what its place and the row it loaded allow, and that rows refer to rows of their own tenant.
  The first needs the version column: a deletion raised the version since.
- Idea documents, `SavedProjectLoads`: what is built, being saved or in the file is a
  valid project in its IDEA stage, and the file is only ever replaced as a whole (`SavedInv`).
  `ValuesGrounded`: `GroundedInv` names for each field the answer that settled it last; an answer that
  raises a conflict, or withdraws, leaves nothing that cites earlier words.
  `DocumentsReadBack`: `ReadableInv` says that the intakes, answers and conflicts of a session are within
  the limits a reader checks of each, that no requirement has two conflicts, and that its answers, given
  again one by one to its first intake (`Replayed`), lead to it; so what was written is accepted again,
  and is the session. Its document, as text, is read back unless it is longer than what is read, which
  nothing prevents (section 5).
- Declarations, `OrderMakesNoDifference`: as long as no relationship is configured, a modifier is
  refused or put in a part of the field of its own (`ModifyIs`), so two neighbours commute
  (`ModifiersCommute`) unless both are validators, which run in the order they are given, or one
  stands at or after a pattern, which takes the rest of the declaration (`Exchangeable`); what one
  needs of the others is looked for after the last; the
  validators look at sets of fields, which keep when fields change places (`ReorderedValid`).
  `RelationshipsHaveTheirNames`: the validators of self relationships, cascades
  and collections each compare their own names with the columns' and the other relationships', and what is
  reserved was refused when the field was parsed (`Parsed`); the proof goes through the pairs of
  kinds (`NamesDistinct`). What none of them compares is excepted: the tenant's key, and, for the
  collection of a self relationship, the columns of audits, versions and tenants (section 5).
  `DeclarationsAssumption` says that what an author can write is a sequence of declarations
  whose modifiers are of the kinds the parser knows.
- Amendments, `RevisionsKeepParents`: `AmendmentInv` has each decision a question of the parent and a
  fitting declaration, and any two decisions apart in question, name and domain in the spelling
  `Norm` compares, so they are as many as the questions. `AmendmentsNeverStuck` assumes
  `NamesStayFree`: for each question there is a declaration with a name that is not taken. The
  code allows any name of up to 64 characters that is not a credential's, and an amendment takes a name a claim.
  What is proved is that nothing else stands in the way: each inert claim the clarification accepts
  leaves a question some declaration fits, and all of them together are consistent. A claim that is
  not inert (`Executable`) has none, see section 5. The instance of TLC has few names, one
  such claim, and shows the same for those.

**Only model-checked:**

- Liveness (`ApplySettles`, `RecoveryCompletes`, `BuildsEnd`), out of the prover's reach.

## 5. What the models show about the code

Two runs end in a violation of something the repository says; PROJECT.json quotes it.

- `migration_race`: `recover` drops the advisory lock before it finalizes. A second process
  can accept and roll back the same migration in between, and the first then publishes
  a revision the database no longer has.
- `evolution_sealed`: the backfill of a required encrypted field writes plain text into the
  encrypted column (`ENCRYPTED_FIELDS.md:9` says only ciphertext is stored).

Five more disagreements with a document were seen with TLC; they are not runs now.

- A rollback that dies after it wrote the accepted file and before the COMPLETE journal
  (`migration_execution.py:260`) leaves a journal that `recover`, `apply` and `preflight` all
  refuse (`docs/ARCA_CENTUM_MASTER_ROADMAP_2026-09-06.md:291`).
- Regeneration publishes the manifest before it removes the journal
  (`minimal_regeneration.py:266`); recovery restores files and never the manifest (roadmap, line 341).
- Two decisions that each break a plan's scope make its evaluation raise
  (`plan_approval.py:116`), so the plan can be neither approved nor rejected (`docs/ARCADEV.md:181`).
- An assumption answered while its requirement is in conflict closes the question of the
  conflict (`clarification.py:698`); nothing can resolve the conflict then (`docs/ARCADEV.md:103`).
- Regrouping backend components gives the owner of a stateless operation the entities of the
  others' outcomes (`backend_specification.py:252`).

Seen while modelling, with TLC or by running the code:

- Migration: a second death during a recovery can end unrecoverably; a schema that
  returns to an earlier form reuses its history file; two renderers at once can publish a
  pending revision whose migration is removed; a caller of `recover` that names another
  migration than the journal's can finalize too early.
- Regeneration: a plan applied long after it was made, edits while files are written, and paths
  claimed as user-owned that a plan still holds.
- Lifecycle: a question with one supported choice keeps its conflict for good, and two
  architecture questions of one scope block each other's replacement; the caller may start over.
- IDEA documents: `normalize_idea` refuses a request of more than 2000 characters, since it cites
  the whole as evidence, while `MAX_REQUEST_LENGTH` is 100000; a description above 4000 is refused
  when read again although its field allows 8000; an answer accepts evidence that `resolve`
  refuses; an intake with two questions about one requirement validates, and then every
  resolution raises; a conflict over values whose citations differ only in case is refused; a
  ready intake may not be convertible into a project for length or number of constraints; documents above
  5,000,000 (session, `clarification.py:155`) or 1,000,000 bytes (intake, `idea_intake.py:497`) are refused
  when read, though nothing limits what accepted answers add up to: one conflicting answer of
  256 values of 8000 characters is kept three times;
  `load_project` may refuse what `save_project` wrote, for its size or for any stage after IDEA.
- The hand-off and the planner differ on what states no need: "no external integrations" and
  "without authentication" pass the gate as none (`idea_plan_handoff.py:145`) and are a
  capability to the planner (`planning_engine.py:86`).
- Pipeline: an idea without persistent capability can never leave MODELS; a candidate plan may
  drop features or blocking questions, and one that drops a recognised preference makes
  the architecture raise (`min([])`); a candidate architecture may call an owner of state an
  identity service, and its state is lost (`docs/ARCADEV.md:233`); a feature named like a
  derived capability absorbs it; every planning decision requires certification, so a
  plan with decisions is never eligible.
- Amendment: a lifecycle with a state labelled `subprocess` or `powershell` is accepted by the model's
  clarification (`model_clarification.py:225`), has to be repeated exactly by the amendment
  (`model_amendment_request.py:234`) and is refused there as code (`inert`,
  `model_amendment_request.py:35`), so its question stays open for good; two amendments of one parent give competing revisions, and nothing chooses; a
  revision cannot be amended or handed to BACKEND; `assert_current` always raises and nothing
  calls it.
- Evolution: `default=None` on a required field is called safe and rendered `NOT NULL DEFAULT
  NULL`, which fails on any row (`schema_evolution.py:322`), as is a string default longer than its
  column, so `SafeNeverFails` assumes defaults that fit; adding a nullable enum field is called safe
  (`schema_evolution.py:322`) and rendered as `op.add_column` (`alembic_migration.py:577`), which
  makes no enum type and so fails on PostgreSQL (only new tables refuse enums, `:520-528`), so
  `SafeNeverFails` also assumes that none is added; a required addition loses its foreign key
  and index (`alembic_migration.py:574`); widening an encrypted field changes the ciphertext
  column; a new table gets no single-field indexes, whose removal fails later; the downgrade of a removed
  unique index can fail on rows stored meanwhile; nothing outside the tests calls
  `write_alembic_migration` or `executable_without_policy`.
- Builds: the journal is read before the lock is taken; an exception leaves the journal, and after
  a regeneration each later build is refused until somebody removes it; no code removes the lock
  of a dead build, and its child lives on; a report with two failures is refused by the
  localizer; the planner's earlier attempts are never passed, so its budget does not bite.
- Storage: overlapping uploads can leave contents and metadata of different uploads, so the object
  reads as corrupt from then on; a create-only upload can be overwritten by a concurrent one; after
  a restart objects can be neither downloaded nor deleted, nor created again.
- Events: a receiver that restarts accepts a replay within the window; a delivery that was acted on
  and timed out is reported as failed; a handler that fails keeps the later ones from the event.
- Release gate: contracts run on whatever the tree holds at the time; only the commit at the start
  and the tree at the review are compared, so a tree that was dirty in between can complete.
- Generated service: without a version column an update changes a row deleted meanwhile; a
  relationship's target can be deleted between validation and commit.
- Declarations: the names of plain `fk=` relationships are compared with none (`author` beside
  `author_id:fk=`), nor are `created_at`, `updated_at` and `id`; the collection of a self
  relationship may be named like a column of audits, versions or tenants, though `SELF_RELATIONSHIPS.md:57`
  says that is refused; a tenant module may have a relationship `tenant_id` (of `tenant_id_id:fk=`), since
  its key is compared with fields only (`module_definition.py:55`).
- Jobs: a full table refuses also the client that repeats an answered request; a job cancelled
  by its holder is not recorded as cancelled.
- Generation: a source file edited after the first snapshot, copied, and edited back gives a
  GENERATED run from contents neither snapshot saw. A trusted file that is not Python, a file that
  vanishes while it is read and a child that is not dead five seconds after its kill raise exceptions
  `generate_backend` does not catch; that child, or a formatter still dying, is left behind. A generator killed in a project leaves a mixture; two of them there share the
  registry without a lock (`registry.py:32`).

## 6. Not modelled, and what is next

- **FastAPI application and its Alembic history.** `crud/user.py` and `models/user.py` were
  generated over and lack what `auth/` and the services import, so no behaviour is there to model.
- **Gaming studio checkpoints.** One fixed series of decisions through the lifecycle.
- **Configuration lifecycle, application manifest, extensions, intelligence and observability.**
  Validated records and pure functions of their arguments; nothing is kept between calls.
- **Renderers and command line.** Layout of text, and argument handling in front of modelled calls.
- **Left out of modelled parts.** Check, partial-index and expression texts; the certification
  report; schedules and authorization of jobs; `RecoveryJournal` and attempt lineage, which no
  code calls; the golden matrix; identities and digests, except where they are compared.
  PostgreSQL, Alembic, the operating system's processes, git and the network are modelled from
  how the code uses them.

What is left: an abstract specification of a staged authority that IDEA and the four stages
implement, so that the hand-off theorems become one; and
`KeepsTypes` for each of the services as a theorem of its own.
