# A TLA+ model of the l1 back end (mls-102034)

The repository is a TypeScript back end (`src/l1`) with its user interface
(`l2`) and definitions (`l4`, `l5`). This directory holds TLA+ modules that model
its concurrent core, TLC configurations that check them on small instances, and
TLAPS proofs of the most important invariants for every instance. Paths below
are relative to `src/`.

## The system

Several Node.js processes run the same server over one PostgreSQL database.
Every process serves HTTP requests and runs three background loops. DynamoDB
holds a mirror of the master data; an external *task service* (called CM in the
code) holds the tasks of workflows. On a development machine the same server is
also the back end of a studio (`server/layer_1_external/cbe`, "CBE"): two worker
processes that share the projects' git worktrees and a few lock files on disk.

| part | state it keeps | operations | hard because |
|---|---|---|---|
| workflow wake delivery (`l1/workflow/wakeInboxPostgres.ts`, `wakeDispatch.ts`) | `workflow_wake_inbox` rows, row locks, advisory locks | `enqueue`, `runNext`, dispatch to a routine handler, which advances the task | workers in several processes, lost connections that drop the locks of a handler that goes on, at-least-once delivery, stale snapshots |
| MDM records (`l1/mdm/layer_3_usecases`) | documents with a version, two indexes, the outbox | create, update, promote, merge, delete | reads outside the transaction, version checks on a number the caller supplies, duplicate checks without a unique index |
| MDM write-behind (`l1/mdm/layer_1_external/queue`) | the outbox; DynamoDB items | rounds of `runOnce` | overlapping rounds, retries out of order, exhausted rows |
| mirrored module tables (`server/layer_1_external/data/moduleDataRuntime.ts`, `persistence/restoreFromDynamo.ts`) | rows of tables with write-behind, the same outbox | insert, upsert, delete, restore of a table | a delete that reads before it deletes; a restore without a transaction |
| MDM relationships | relationship rows; references copied into both documents | create, update, end, delete | the copy is rebuilt from rows that were read earlier |
| MDM registration and login (`selfRegistration.ts`, `registrationRequests.ts`, `identityUsecases.ts`) | drafts, logins, memberships, access requests, a cache of logins | self registration, decisions, `setLogin`, look-up | a sequence of steps that may stop at any point, on a store with and one without rollback; a shared cache |
| workflow task engine | none of its own; tasks live in CM | open, advance | conditional updates on a remote revision |
| activity projection | headers and rows of the read model | refresh, find, rebuild | an old snapshot that arrives after a newer one |
| candidate store (`candidate/candidateStore.ts`) | a pointer, snapshots, results and files in a key/item table | publish, mark a result, read | staging in many inserts before one conditional write, lost answers |
| draft worktree and branch (`cbeGitCommit.ts`, `cbeGitPromote.ts`) | files, index, branch, an unfinished merge | save, restore, discard, sync, prepare, publish | git commands of several requests alternate in one worktree without a lock |
| draft child process (`cbeDevProcess.ts`) | a lock file, `dev.json`, a secret, timers | ensure, stop, restart, touch, idle stop | a lock made of files, crashes between two files |
| publication and rebuild (`cbeRoutes.ts`, `cbeRebuildOnSave.ts`) | the claim file, the lock file, a timer per worker, a shell job | promote, ping, build | the build reloads the workers that wait for it; claims expire |
| schema publication (`server/layer_1_external/persistence/schemaBootstrap.ts`) | tables, the snapshot log, a recorded version of each module | migrate: plan, drop, create, record, seed | no transaction, no lock, tables shared by the apps of one database, a death between any two statements |
| server loops | timers, `running` flags | start, stop, tick | |
| the rest | single rows, maps, files | see `PROJECT.json` | adapters and reports |

How they interact: requests and wake handlers call the MDM and the task engine
in the same process; the MDM commits a document and its outbox row in one
transaction; the write-behind rounds read the outbox; wake firings arrive over
HTTP, are stored in the inbox, and are dispatched by the wake loop; the handler
advances its task in CM with the revision it read; the synchronising port then
refreshes the activity projection. All of that state is in PostgreSQL (READ
COMMITTED), so what can interleave is decided by transactions, row locks and
advisory locks, and the modules take one database transaction as one step
unless a lock or an await inside it matters. In the CBE a save writes the draft's
files, commits them and restarts the draft's child process; publishing merges
the draft's branch into main, schedules a build, and fast-forwards the draft.
There a step is one file access or one git command. Before a server starts,
`scripts/migrate.ts` publishes the schema of its app into the database, which it
may share with other apps; there a step is one SQL statement.

What makes each part correct:

- wake delivery: two live transactions never work on one row or one
  occurrence; a receipt never contradicts the row; a firing is put aside as
  stale only if its task is past it, or was reported missing; its effect lands on the
  step that armed it; every stored firing is settled in the end, if its task stays one
  that the dispatch can judge.
- records: no update is lost; a document has exactly one index row; a legal
  document has one permanent record; each version reaches the outbox.
- write-behind: no version is dropped; the mirror ends with the latest version;
  the outbox drains.
- mirrored tables: once the outbox is empty, table and mirror agree, but for rows whose delete
  or restore met another write.
- relationships: the references in a document are those of the active rows.
- registration: whatever step fails, repeating the request completes it once; a
  request is decided once; an e-mail is the login of one person.
- projection: it never goes back to an older revision of the same task.
- candidate store: the revisions form one chain; what a caller is told is so.
- schema: what is recorded of a module is true of its tables; a publication
  resets only modules that changed, and leaves the schema it brought.
- drafts: what was saved stays on disk and gets committed; one child runs, with
  the code that was saved; a published merge reaches the release, which never
  goes back.

`PROJECT.json` lists every component with its status, and under `hazards` the
lines where these behaviours can go wrong.

## Modules

| module | what it is |
|---|---|
| `WakeDelivery` | abstract: durable at-least-once delivery of firings |
| `WakeInbox` | the inbox, its workers, the dispatch and the tasks it moves |
| `WakeInboxProofs` | proofs about `WakeInbox` |
| `VersionedStore` | abstract: versioned records with one outbox row per version |
| `MdmRecords` | requests on master data records |
| `WriteBehind` | the outbox and the rounds that copy it, over `VersionedStore` |
| `MirroredTables` | module tables that use the same outbox, and their restore; extends `WriteBehind` |
| `MdmRelationships` | relationship rows and the references rebuilt from them |
| `MdmRelationshipsProofs` | proofs about `MdmRelationships` |
| `ActivityProjection` | the task of one occurrence, the callers that advance it, and the rows projected from it |
| `ActivityProjectionProofs` | proofs about `ActivityProjection` |
| `RevisionChain` | abstract: one chain of revisions with at most one result each |
| `CandidateStore` | the calls of the candidate store over its table |
| `CandidateStoreProofs` | proofs about `CandidateStore` |
| `Registration` | registrations, decisions, logins and the login cache |
| `MdmProofs` | proofs about `MdmRecords`, and about `Registration` |
| `DraftGit` | the worktree and the branch of one draft |
| `DevProcess` | the child process of one draft, its lock and its files |
| `DevProcessProofs` | proofs about `DevProcess` |
| `SchemaBootstrap` | publications of a schema, statement by statement |
| `TableProofs` | proofs about `WriteBehind` and `MirroredTables`, and about `SchemaBootstrap` |
| `RebuildOnSave` | timers, lock and shell job of a build |
| `PromoteRelease` | publishing a draft, composed with `RebuildOnSave` |
| `DraftProofs` | proofs about `DraftGit`, and about `PromoteRelease` with `RebuildOnSave` |
| `MC...` | model values, bounds and symmetry for TLC, one per component |

### WakeInbox

One worker is one call of `runNext` of one process. `LockDue` is the `SELECT ...
FOR UPDATE SKIP LOCKED` of the first due row, `LockOccurrence`/`Busy` the
advisory lock, `Find` the snapshot and the checks of `dispatch`
(`commandApplied`, `wakeUnusable`, `terminal`, `stepPassSeqDiffers`),
`HandlerAdvances`, `HandlerReturns` and `DispatchFails` what a handler can do,
`Complete` and `RetryLater` the update and commit. `LoseConnection` releases the
locks while the handler goes on; `Crash` ends everything. The order of due rows
is kept in `earlier` (the rows with a smaller `dueAt`) instead of clock values.
A task is the sequence of its versions; a snapshot may be an older one, or "not found"
for a task that is there. A version's mode is what the dispatch tells apart: "suspended" is
a task that is paused, not in progress or at a step that its plan does not have, "foreign"
one whose id or workflow version is not the firing's; both are retried (`wakeDispatch.ts:79`,
`:89-94`) for as long as the task stays so. The project and module filters, the shapes of
events and the text of errors are left out, and so is the scope check at
`wakeDispatch.ts:61`: `wakeLoop.ts:150` makes the dispatcher for the module of the row, and
`enqueue` and `runNext` have compared the project. A row stands for one firing (one `routine`, wake
and occurrence).

### MdmRecords

A request reads first and writes last. Each read is a separate query, so
`ReadDocument` and `CheckDuplicate` are steps of their own; the transaction that
writes starts with the compare-and-set of the document, whose row lock it keeps,
and is one step (`WriteNew`, `WriteEntity`, `WriteProspect`, `WritePromotion`,
`WritePendingMerge`, `WriteMerge`, `WriteDelete`). Details are reduced to the
legal document (one key), the status and the link to another record
(`promotedTo`, `mergedInto`). Left out: relationship rows, audit, history and
monitoring rows, and the contact-channel variant of the duplicate check, which
has the same shape. `update` covers both facades on any record: the code does not
check that an id given to the entity facade belongs to an entity.
`Ahead` is how far a caller's `expectedVersion` may run ahead of the stored
version: 0 for a caller that only echoes versions it was given.

### WriteBehind

The producer is `VersionedStore`, so that what is checked here holds for any
store that `MdmRecords` implements. A round reads the first rows (`Fetch`), then
puts and deletes them one by one; a failed row gets its attempt counted and the
round goes on. Timestamps are replaced by the order they impose (`earlier`); with
`ClockTies` a commit may share its timestamp with the newest rows. DynamoDB is
external: a put replaces the item and may fail. A put that is still on its way
when its process dies is taken to have arrived or not, not to arrive later.

### MirroredTables

A module's table whose rows go to DynamoDB through the same outbox and the same
rounds. What a key holds is the number of the outbox row it was committed with.
`upsert` is one transaction under the lock of its row; a delete is `SelectRows`,
`DeleteRows` and `CommitDelete`, because under READ COMMITTED its `SELECT` and its
`DELETE` see different rows. The restore is `scanAllDynamoItems`, `Truncate`, an
`upsertLocalRecord` for each item, and may die between any two. Left out: queries,
tables that are not mirrored, and updates (see disagreement 14).

### MdmRelationships

`link`, `unlink` and `delete` read outside any transaction and then do, in one,
`Begin` (the relationship rows), `ReadFrom`, `ReadTo`, `ReadDocuments` (the three
queries of `refreshRelationshipRefs`), `Put` for each document whose references
differ, and `Commit` or `Rollback`. Here a transaction is not one step, because
what it reads is committed data of other moments; what it writes is visible to
itself at once (`View`) and to others at `Commit`, and the rows it has written are
locked until then (`held`). `update` stands for any other write of a document and
is the composition with `MdmRecords`: read, then compare-and-set. `overtaken` and
`stale` are history variables. The keys that references are grouped by, the
relationship types and dates, and prospects (which the facade refuses to link)
are left out.

### ActivityProjection

One occurrence, its task in CM and its header and rows in PostgreSQL. A caller
runs `open`, `find`, `advance` (`workflow/engine.ts` over `messagesOccurrence.ts`)
or `rebuild`, and then refreshes: `Lock` or `LockTimeout` for the advisory lock,
`Load`/`LoadFails` for the read of the task inside it, and `Refreshed`,
`SourceStale` or `CannotWrite` for what becomes of the rows. CM may answer with a
revision up to `Lag` behind the newest, and may apply an advance whose answer is lost
(`AnswerLost`). What the projection makes of a task's passages is the function
`projected`; the plan is a constant graph. Projection, lag and fallback follow
`activitiesSync.ts`; the paged list, the scope checks and the titles are left out.

### CandidateStore and RevisionChain

One module's candidate. `Publish`, `Mark` and `Read` follow the three operations
of `candidateStore.ts` query by query: look at the pointer, at what was stored
under the same names before, stage the files one insert at a time, and commit in
one transaction on the locked pointer row (`candidatePostgres.ts`). A call may fail
between any two of these, its answer may be lost, and the caller may repeat it.
A snapshot is its content and stands for its hash; each has a set of paths of its own
(`File`), numbered in the order in which the code sorts them. `RevisionChain` is what this
promises: a sequence of revisions, each with at most one accepted result.

### Registration

The tables are one set of rows (`Login`, `Reserved`, `Created`, `Member`,
`AccessRequest`), of which every call has its own view (`See`): in PostgreSQL
(`atomic`) that of its transaction, in the memory runtime the tables themselves,
so that a step that throws leaves what came before it. `ensureSelfRegistration` and
`resolveAccessRequest` take the lock of the e-mail and go through their steps;
`setLogin` reads first, writes in a transaction, and then corrects the cache
without any lock; `lookupLogin` reads and fills the cache. A contact that a
person has may change under them, and cache entries expire. In the memory
runtime two calls of one process still alternate at every await. `openOrRecoverAccessRequest`
writes the record of a request and its index in one step: whoever reads either holds the lock of
the e-mail, PostgreSQL rolls back both, and the memory runtime's inserts do not throw.

### DraftGit

A tree maps each file to its bytes; a write puts bytes there that are in no tree yet
(`NewBytes`), so the trees need seven numbers and no counter. `head`,
`index` and `work` are the last commit, the index and the files of the draft;
`ancestor`, `ahead` and `behind` are what matters of the commit graph.
A save is `writeDecodedSources`, once for each of its files, which it writes or removes (in any
order here, while the code writes before it removes), then `AddPaths`, `hasStagedChanges`,
`CommitPaths`; a
restore `ProbePaths`, `ListLoose`, `CheckoutPaths`, `RemovePaths` and then the
commit of a save; a sync (and a prepare, which only fast-forwards) `CheckDraft`,
`CountCommits`, `FastForward` or `MergeMain` and `EndMerge`. What git does in each
is external and follows its manual: `git add` takes all paths or none, `commit --
paths` takes the files as they are on disk and refuses during a merge, `merge`
refuses over staged changes, and `merge --abort` puts back what the merge touched.
These behaviours were compared with git itself. Left out: ignored paths, restores
of directories or to a commit of the draft, the making of worktrees, the map that
lets calls in one worker wait for a prepare, and uploads.

### DevProcess

One draft, two workers. `CreateLock` and `StampLock` are the two system calls of
`acquireLock`, `JudgeLock` and `BreakLock` the two by which another worker takes
the lock for stale. `StopChild`, `AwaitExit`, `SpawnChild`, `writeIdentitySecret` and
`WriteRecord` follow `ensureUnlocked`. A worker's calls are synchronous, so it runs one at a
time; the debounced restart of a save is a timer (`restartDevProcess`,
`FireRestart`). A crash loses a worker's call and timer; a reload moves it to the
next release. `touchDevProcess` rewrites `dev.json` in place: `TouchEmpty` and `TouchWrite` are
the two halves of its `writeFileSync`, either of which may fail or be the last thing a worker
does. `dev` is what `readDevJson` finds, so an unreadable file is none. The record of a new
child and its secret are written where there was none, and a half of either is never used.
`CONSTRAINT Unbroken` stops exploring once a live lock was removed:
the properties say nothing after it.

### RebuildOnSave and PromoteRelease

`RebuildOnSave` has the timer and the waiting projects of each worker, the lock
file, and the shell job that outlives its worker: `RefreshObj`, `Compile`,
`FlipCurrent`, `Reload`, `Unlock`. `PromoteRelease` EXTENDS it with the requests of
`handlePromote`: no build may run, the claim is created and then written, the main
worktree is checked, the branch is merged, the build scheduled. `FindClaim` and
`RetireClaim` are `readLivePromote`, run by every request that meets the claim and by
every ping. A worker that finds the lock over 15 minutes old (`FindStaleLock`) removes whatever lock
is there by then (`ClearStaleLock`), perhaps one another worker has just made.
`CONSTRAINT NotCleared` stops exploring once the lock of a build that ran, or was starting, was
removed as stale.

### SchemaBootstrap

Each app runs one publication (`bootstrapSchema`) at a time: it reads the log
(`readLastAppliedSnapshotId`), then the recorded versions, and plans
(`planModuleRebuild`: nothing, record only, some modules, or all); `ListTables`,
`DropTable`, `DropLog`, `CreateLog`, `CreateTable` and `InsertSnapshot` are the
statements of `rebuildPostgresSchema`; `ForgetStates` and `RecordState` those of
`writeModuleState`; `SeedTable` the initial rows. A module's tables are one element
and its hash a version, so a crash among the tables of one module is one among
modules. `StatementFails` is what the database refuses: a table or a row that is there
already, or one that is not. `Owned` is `ownedNamesFor`: the tables of the modules that are
made again, those that have the name of one of theirs without its prefix (`Shadowed`),
and those under the prefix of a module that is made again or removed (`Prefixed`), or
of the project in a full publication; tables of a module that are not under its
own prefix are in no pair with itself, and stay when it is removed. An
app may lack modules of the platform. Both reads may fail: `readLastAppliedSnapshotId`
then finds no log, and `planModuleRebuild` takes the app for one that was never
published (`blind`). The modules of library projects are taken with the platform's. Left out:
`forceRebuild` (the reset of a local database), views, DynamoDB, test rows, and the
adoption of rows recorded before the state had a project.

## What the runs check

Each run answers one question; `PROJECT.json` names its properties and, for each
one, a mutation of the model that the run refutes.

| run | instance | what it shows |
|---|---|---|
| `wake_inbox` | 2 workers, the firings of 2 consecutive wakes of one occurrence, 1 fault | exclusion, receipts, staleness and effects; the inbox implements `WakeDelivery`; every firing is settled unless its task stays suspended or foreign (`EventuallySettled`) |
| `mdm_records` | 2 requests of every kind, 2 records, 1 key, 2 versions | no lost update, index rows, duplicates only past an overtaken or skipped check, `VersionedStore` implemented |
| `write_behind` | 1 document of 3 versions and 2 rounds, or 1 table key of 2 rows, 1 delete, 1 restore and 1 round; batches of 2, 2 attempts, 2 faults, clock ties | nothing dropped; an undisturbed document is mirrored up to date, and an undisturbed table row is the same on both sides; `OutboxDrains` |
| `mdm_relationships` | 2 requests of every kind, 2 records, 2 relationships (loops and pairs) | stale references need an overtaken refresh; no other write touches references |
| `activity_projection` | 2 callers, a plan with a branch and a loop, 4 revisions, a lag of 1, 2 faults | rows of one revision, never back, behind only for a known reason; every task has a projection |
| `candidate_store` | 2 callers, 4 calls, 2 snapshots, of 2 files and of 3 that include the same two paths, under 2 revisions of one change | nothing dangling, staged files agree, answers hold, `RevisionChain` implemented |
| `candidate_unreadable` | 1 caller, 2 changes, one of which reuses a `revisionId` | *violated*: a legal publication leaves a pointer that every later call rejects |
| `registration` | 2 callers, 4 calls (or 3 and a contact that changes), 2 e-mails, 2 organizations, 1 fault | one decision, one person, one login, only outdated cache entries |
| `draft_git` | 2 callers, 4 calls, 2 files, 1 publication of another draft, 1 failure | saves are kept; nothing is left uncommitted or unmerged, but for the named cases |
| `dev_process` | 2 workers, 2 calls each, 1 save, 1 crash, 2 children, 2 releases | exclusion, no stray child, usable answers, a save is served |
| `schema_bootstrap` | 2 apps, 5 modules (2 of the platform, of which one app has one; two of one app, one under the other's prefix instead of its own, one with a table named like the platform's; one of the other), 5 releases, 3 publications, 1 crash or failed read | the recorded state is true, unchanged modules keep their tables, a publication that ends well leaves its schema, but for modules in doubt |
| `promote_release` | 2 workers, 2 publications, 1 ping, 2 builds, 3 restarts, 1 fault | one publication at a time, the release never goes back, a merge is released |

Why the bounds are enough: a race needs two actors, so there are two workers,
callers, requests or rounds; a stale read needs one write in between, a stale write two,
so there are two or three versions, or four calls; a key has two claimants. Faults are bounded
by one or two because each is an action that may happen anywhere. In `write_behind`
two faults use up the attempts of one row while the other rows must go on;
`Limit * MaxAttempts` = 4 faults would jam a batch, which `OutboxDrains` excuses.
Two builds and three restarts let each build reload both workers, but for the
last reload. `SYMMETRY` is used only in runs without liveness properties.
`CONSTRAINT Scope` of `write_behind` keeps the table and the overlapping rounds
apart; as it cuts off the second round where the table is used, `OutboxDrains`
says what it says for documents only. `CONSTRAINT Scope` of `registration` lets a contact
change take the place of the fourth call.
`CHECK_DEADLOCK FALSE` is set where the model stops when its bounded firings,
calls or versions are used up; `activity_projection` goes on for ever (a caller can
always look) and is checked for deadlock.

Fairness. `WakeInbox` assumes that a worker that can take a step takes one: the
wake loop calls `runNext` again and again (`l1/workflow/wakeLoop.ts`), PostgreSQL
answers, and handlers return; it assumes nothing of people, faults or time except
that postponed rows become due. `WriteBehind` assumes weak fairness of each round:
the interval starts rounds for ever. `DevProcess` assumes that a worker in a call
goes on, that a timer fires and that a child that got SIGTERM exits;
`PromoteRelease` that timers fire, requests and jobs go on and a lock ages. Faults,
calls and pings are never fair. `Registration`, `DraftGit` and `SchemaBootstrap` check
no liveness and assume no fairness.

What an excuse in a property stands for (`disturbed`, `stale`, `raced`,
`outdated`, `broken`, `abandoned`, `forgotten`, `cleared`, `taken`, `exposed`, `spoiled`, `doubt`, ...) is a history
variable that is set by the action that loses the guarantee, so that the property
holds for all that did not meet it, and the reader sees in that action what is
lost.

### Disagreements found

The first is shown by a run:

1. The candidate store accepts a publication whose `revisionId` equals that of its
   predecessor under another change, and its own reader then reports the pointer as
   corrupt, for ever (`candidate_unreadable`).

The others are the reasons for the excuses above; the runs go through them, and
the conjunct named is violated without its excuse:

2. "One Deno dev process per studio draft" (`cbeDevProcess.ts:2`): a worker that
   sees the lock file before its pid is written takes it for stale, and both start a
   child (`broken` in the properties of `DevProcess`). A touch that fails, or whose worker
   dies, after it emptied `dev.json` leaves the child running on no record, and the next
   call starts a second one (`forgotten`; `cbeDevProcess.ts:938`); a worker that dies with a
   child in hand leaves it likewise (`abandoned`).
3. `defs/rules.ts:81` says (docType, docId) is unique among permanent records and
   that PostgreSQL enforces it; `createEntity` checks outside its transaction and
   there is no such index (`unchecked` in `DuplicatesAreUnchecked`).
4. `promoteProspect` reads index, document and duplicates in separate queries; a
   second promotion can mark the record that the first one made as `PendingMerge`
   with itself, although `l1/mdm/README.md` keeps that status for transient records.
5. `mdmImplementation.md` says references are filled from the active
   relationships; `refreshRelationshipRefs` reads rows and documents by separate
   queries, so a reference committed in between is overwritten, and the version
   check does not notice (`stale` in `StaleRefsWereOvertaken`). It also says deletion
   is blocked by active relationships; that check is outside the transactions.
6. `defs/rules.ts:71` says writes to the mirror are conditional on the version;
   the put is unconditional (`WriteBehindWorker.ts:90`) and a retry can replace a
   newer version for good (`disturbed` in `MirrorIsCurrent`).
7. A publication that is committed while its caller looks for the reason of a
   failure can be answered as a conflict (`candidateStore.ts:657`); `AnswersHold`
   claims nothing of conflicts.
8. `setLogin` can overtake another (`raced`), a look-up can put back into the cache
   what a change just removed, and a decision that moves a login corrects only the
   entry of the request's e-mail (`outdated` in `CacheOnlyOutdated`). The check of
   `linkPerson` reads the cache that its own `setLogin` filled.
9. `cbeRebuildOnSave.ts:20` says a save that meets a running build "re-arms a short
   retry"; when that build is done it reloads the worker and the timer and its
   projects are gone (`dropped` in `MergeIsReleased`).
   A lock over 15 minutes old is judged and then removed in two steps
   (`cbeRebuildOnSave.ts:177`), so that its build may still run, or the lock be one that
   another worker has just made (`cleared`).
10. A save that is written between a sync's conflicting merge and its
   `merge --abort` is put back although it was answered 200; `cbeGitCommit.ts:21`
   calls the files durable by then. If the merge had already merged that file, the
   abort refuses, the merge stays unfinished and every later commit of the draft fails
   until a discard (`exposed` in `SavesAreKept` and `RestIsClean`).
11. A restore removes a file that git does not track even if main has it, and one
   that another call is about to commit; `git add` of a save that deletes a file that is
   nowhere fails for its other files too (`spoiled` in `RestIsClean`).
12. `docs/appEnvAndAuth.md:34` says production forbids "RE-seeding or resetting tables
   that already hold data". A publication that dies in `writeModuleState` makes the
   next one reset modules that did not change (`forgotten`); one that dies before it,
   if its release is taken back, leaves half-built modules that the plan calls untouched
   (`torn`); the first publication of a second app resets the platform's tables for
   both; and two publications at a time reset or mix them (`mixed`). A read of the
   recorded state that fails for any reason counts as no state
   (`schemaBootstrap.ts:555`): every module of the app is reset, changed or not, although
   `schemaModulePlan.test.ts:134` calls this the plan of a first publication (`blind`). All
   are excuses in `TablesKept`, `StateIsTrue` and `PublishedSchema`.
13. "ownedNamesFor rebuilds A and leaves B intact" (`schemaBootstrap.test.ts:240`): not if
   the name of A is a prefix of B's. B is dropped, is not created again and is
   recorded as applied, so that no later publication brings it back (`torn` again). The
   same happens to a table of the platform that is named like a table of A without its
   prefix, as the test expects A to own that name too (`Shadowed` in `TablesKept`). In the other
   direction, "drops a removed module by prefix only" (`:251`) leaves the tables of
   a removed module that are not under its prefix, and the platform's that the publishing app
   lacks, while `writeModuleState` deletes their rows: `_schema_module_state`
   then says nothing of tables that are there (`orphaned` in `StateIsTrue`).
14. A "not found" of the task service settles a firing as stale (`wakeDispatch.ts:78`), before
   any revision is compared; `wakeDispatch.ts:82` refuses older snapshots, but a service
   whose answers lag can miss a task as well (`activitiesSync.ts` allows for it), and that
   wake is lost (`missed` in `StaleIsPast`).
15. `PostgresTableRepository.update` (`moduleDataRuntime.ts:413`) numbers the
   placeholders of its `WHERE` after those of its `SET` and uses the same `WHERE` for
   the `SELECT` that feeds the outbox, with fewer parameters: on a mirrored table an
   update with a condition always fails and is rolled back. `delete` can miss or
   repeat rows of other transactions, and a restore that meets writes loses them
   (`disturbed` in `TablesAreMirrored`).

## What is proved

For every number of firings, occurrences, workers, records, requests and keys:

`WakeInboxProofs`, from `IInv` = the type invariant, what live transactions know
of the rows they hold (`Locks`), exclusion of occurrence locks
(`OccurrenceLocks`), where an "accepted" comes from (`Accounted`) and that receipts
match rows (`Receipts`). The safety properties are not inductive alone: that a
receipt is final needs that only the holder of a row, while connected, changes it.

- `TypeCorrect`, `WorkIsExclusive`, `ReceiptsAreFinal`: the invariants of those names.
- `InboxImplementsDelivery`: every step is a step or a stutter of `WakeDelivery`.
- `EffectsAreArmed` and `StaleStaysPast`: `EffectOnArmedStep` and the action property
  `StaleIsPast`, from a second invariant, `History`. A dispatch judges a firing by a
  snapshot that may be old, so `History` says what may be concluded from one: a task only
  moves forward (`TaskOrder`), the revision stored with a firing is one on which its
  wake stood (`StoredStands`), a handler runs on such a revision (`Armed`), and a firing
  called stale is past for good, or its task was not found (`Condemned`).

`MdmProofs`, for `MdmRecords`, from `IInv` = the type invariant, `OneIndexRow`, that an mdmId
belongs to its creating request until the record exists (`Births`) and what a
request's reads tell of it (`Reads`). Its shape is: one lemma that
summarises what any arriving request does (`AskSummary`), one for what any write
does (`WriteSummary`), and the invariant from the summaries.

- `TypeCorrect` and `RecordsAreIndexedOnce`: for any `Ahead`.
- `NoUpdateIsLost` and `RecordsImplementStore`, assuming `Ahead = 0`: they add
  `NeverNewer`, that neither what a caller expects nor what a request read is newer
  than what is stored. A matching version then forces expected, read and stored
  version to be equal. Without the assumption the two properties are false: the
  new version is computed from the read, the check uses the caller's number.
- `CheckedDocumentsDiffer`, again for `Ahead = 0`: `DuplicatesAreUnchecked`, from what a
  request whose check still counts knows of the index (`Checks`), that index and
  documents have the same keys (`KeysAgree`) and that the key which a promotion or a
  merge copies is still that of its record (`ReadKeys`). The last is why the assumption
  is needed: a caller that guesses a version ahead makes the copy of an old key pass.

`MdmProofs`, in its second part, for `Registration`. A call works on its own view of the
rows (`See`), so each invariant is shown of the tables and of what every call sees.
`RowsInv`: the lock of an e-mail is that of the call inside (`Locks`); that call writes no
reservation, person or request of another e-mail, and deletes only logins and requests
that are still pending (`Held`); an e-mail has one reservation, nobody but the reserved
person is created for it, and an organization has one request for it (`Sound`); a
decision on its way finds its request pending until it writes it (`Knows`); and what was
answered is in the request (`Decided`). One set of lemmas says what a step's writes do to
a view, and that the commit of one call leaves what the others see of their e-mails.
`LoginsInv`, as long as nobody raced: logins agree in the tables and in every view
(`Agree`), and two transactions write logins of different persons and e-mails (`Apart`),
which is what the two unique indexes, for which a writer waits, provide. `CacheInv`:
what a call is about to put into the cache is a login or known to be outdated
(`Filling`), and so is what a transaction takes away (`Dropping`).

- `DecisionsAreFinal`: the invariant `OneDecision`.
- `OnePersonIsCreated`: the invariant `OnePersonPerEmail`, with rollback and without.
- `LoginsAreUnique`: the invariant `LoginsAgree`.
- `CacheIsCorrected`: the invariant `CacheOnlyOutdated`.

`TableProofs`, for `WriteBehind` and `MirroredTables` together. The hard part is
the order of copies: that the mirror ends with the last version needs to know, of
every row in a batch and at every moment, that no older row of its record is left
behind it. `MirrorInv` = the type invariant; rows of a record are numbered without a gap
(`Numbered`); a committed row waits or was sent (`Sending`); failed attempts mark their
record (`Troubles`); rounds that overlap do so on disturbed records only (`OneOwner`); rows
of an undisturbed record are ordered as they are numbered (`Ordered`) and a batch has
them in that order, from the first on (`Batches`); the rows that wait are a final
segment, and the mirror has what the row before it says, or its first, just put
(`Mirror`); and, of the tables, what a restore still has to load (`Restored`).

- `NoRowIsLost`, `MirrorCatchesUp`, `TablesStayMirrored`: the invariants
  `NothingDropped`, `MirrorIsCurrent` and `TablesAreMirrored`, for any number of rounds,
  deletes and faults and any batch size. That the keys of a table are finitely many
  (`KeyAssumption`) is needed to count the rows of a key.

`MdmRelationshipsProofs`, from `IInv` = the type invariant and, for every request, what
it asks for (`Asked`), what it has locked and put (`Locked`), that a version tells the
references of a document (`Saw`), how the rows it found differ from those it would find
now (`HasFound`) and which documents it need not rewrite (`HasRefreshed`). The rows that
a request found are of the moments of its queries; `HasFound` says that whoever changed
one since is recorded in `overtaken`, which is what the property excuses.

- `RefreshRepairs`: the invariant `StaleRefsWereOvertaken`.
- `WritesKeepRefs`: the action property `UpdatesKeepRefs`, from `Saw`.

`ActivityProjectionProofs`, from `IInv` = the type invariant, who holds the
advisory lock (`Locks`), that what a caller has read is a revision of the past
(`SeenIsPast`), `RowsAreOfOneRevision`, `BehindIsKnown` and its strengthening
`OvertakenIsKnown`. The last is needed because a caller that holds the lock and
has read may be overtaken by an advance: the lag it will leave behind is
justified by the refresh that advance still owes, which the property itself does
not mention.

- `TypeCorrect`, `RowsAreConsistent`, `LagIsKnown`: the invariants `TypeOK`,
  `RowsAreOfOneRevision`, `BehindIsKnown`.
- `TasksAreProjectable`: the invariant `EveryTaskIsProjectable`, from `TaskIsFollowed`. What
  the recursion of `ViewAfter` computes needs an induction over the passages, which the
  provers cannot do; but passages are added one at a time, so the induction over steps
  of the system does it. `Unfolds`, that exactly one function satisfies the equation of
  the recursion, is part of the invariant, and `OneMorePassage` shows that a step which
  appends a passage keeps it.
- `ProjectionNeverGoesBack`: the action property `NeverBack`.

`TableProofs`, in its second part, for `SchemaBootstrap`, from `SchemaInv` = the type
invariant, the shape of a plan (`Shape`), what each publication knows of its modules
(`Knows`), that two at a time have mixed the platform (`Mixed`), and that the log is true
of modules that are whole (`Logged`). `StateIsTrue` is far from inductive: a version is recorded long after the
plan that found the module unchanged, or after the statement that made it, so
`Knows` carries that knowledge from step to step; and an app whose state rows are
gone trusts the log alone (`recordOnly`), so what the log says must be true of the
tables too.

- `SchemaTypeCorrect` and `StateStaysTrue`: the invariants `TypeOK` and `StateIsTrue`, for
  any number of apps, modules and publications, wherever they die and whatever they fail to
  read. Nothing is assumed of the modules an app brings of the platform, nor of
  prefixes and names, but that they relate modules as the code's names do.
- `TablesStayKept`: the action property `TablesKept`. It needs that what a
  publication is about to drop was unrecorded or recorded in another version
  (`Planned`), and `StateIsTrue` to conclude from the record to the tables.
- `PublishedStays`: the action property `PublishedSchema`, from what a publication
  knows when it comes to the initial rows (`Settled`).

`CandidateStoreProofs`, from `IInv` = the type invariant, that the records are one
numbered history of revisions (`Numbered`: no gap, no number twice; `Active`: the pointer
is the last; `OneResult`; `Sources`: an adopted revision is the output of a recorded
result; `Repeatable`: what a request was answered is still so; `InOrder`: among the
snapshots tried under a name, one has every file up to the furthest that is there), and what each call in flight can rely on
(`Knows`). Nothing is ever overwritten but the pointer (`Grows`), so what a call read
stays true until the two transactions, whose conditions on the pointer say the rest.

- `PointerIsWhole` and `StagingCanResume`: `NothingDangling` and `StagedFilesAgree`. For the
  second it matters that files are staged in path order, file by file: a caller that goes
  beyond all others found its own bytes, or put them, at each of its paths before. Two
  snapshots may have any paths; the others tried under the name may be stuck for good.
- `CallersAreToldTheTruth`: the action property `AnswersHold`, repeated requests included.
- `OneChainOfRevisions`: every step is a step or a stutter of `RevisionChain`. The chain is
  computed from the records, so the proof first describes it by their names
  (`Described`) and then shows that a publication appends and a result updates the end.

`DevProcessProofs`, from `IInv` = the type invariant, what holds of a worker by itself
(`Local`) and, until a live lock is broken, that the lock is that of the worker in the
section (`Held`), what that worker can rely on at each point (`Section`), what the files
say of the child on record (`Files`), and that no child is `Astray`. A worker stops
between any two system calls, so nearly every point needs its own line in `Section`.

- `OneWorkerAtATime`, `NoChildIsLost`, `AnswersAreUsable`: the invariants
  `ExclusiveUnlessBroken`, `NoStrayChild` and `AnswerIsUsable`, for any number of workers,
  children, calls, saves and crashes. They end where the code's guarantee ends: once
  a live lock was taken for stale; and `NoStrayChild` excuses the children a crash or a
  touch cut short left on no record (disagreement 2).

`DraftProofs`, for `DraftGit`. Two invariants, because what a save may count on does not
depend on failures, and what is left behind does. `SInv` says where the bytes of a save
are that nothing has replaced (`Kept`): on disk, or, in a merge that has touched the
file, in the last commit, which is where an abort takes them from. `RInv` adds, as long
as no command failed and no save was spoiled, who will clean up: a file that differs
from the index is of a call that will add it (`Added`), one that differs in the commit
is of a call that will commit it (`Committed`), and an unfinished merge has a call that
will abort it, and git will let it (`Abortable`). The second conjunct of `Added`, about
files git does not track, is needed by a discard, which leaves them.

- `SavesStay`: the invariant `SavesAreKept`, for any files, calls and failures.
- `RestIsSettled`: the invariant `RestIsClean`.

`DraftProofs`, for `PromoteRelease` and `RebuildOnSave`. `PInv`: unless a claim was retired
under a running request, whoever publishes made the claim that is there, and has
written it before it touches the worktree (`ClaimHeld`). `BInv`: nothing is built or
released that was never written (`NoFuture`); unless the lock of a running build was
cleared, the lock belongs to the one build that runs or to the one worker that starts
one (`OneBuilder`); and what that build has compiled is not older than the release
(`Compiled`). A worker that restarts leaves its lock behind, and its pid with it, which
is why the lock is compared by pid and not by worker.

- `OnePublication`: the invariant `OnePromote`, for any requests, pings, and restarts.
- `OneBuildAtATime`: at most one build runs, as long as no live lock was cleared.
- `ReleasesGoForward`: the action property `ReleaseNeverBack`.

`DraftProofs`, `TableProofs` and `MdmProofs` are about two components each, whose modules
they extend. The two specifications share no name; that is why `DraftGit`,
`SchemaBootstrap` and `Registration` have `DraftSpec`, `BootstrapSpec` and
`RegistrationSpec`, `DraftInit`, `BootstrapInit` and `RegistrationInit`, and so on.

All theorems hold for any values of the constants that meet each module's
`ASSUME`s, which TLC evaluates on the instances. Those ask for little: bounds are
natural numbers, and the value that stands for "nothing" (`None`) is none of the names,
records, persons and locks it is compared with; in TLA+ that has to be said. `CandidateStore`
also assumes that a snapshot has at least one file, which the code checks.

Only model-checked, being out of the prover's reach, are the liveness properties
`EventuallySettled`, `OutboxDrains`, `SaveIsServed` and `MergeIsReleased`; every invariant
and action property of the passing runs is a theorem.

## Plan

In this order:

1. Done: wake delivery, records, write-behind, the activity projection,
   relationships, mirrored tables, the candidate store, registration, drafts,
   their child processes and their publication; schema publications.
2. Proofs: done for wake delivery, records, registration, write-behind, mirrored tables,
   relationships, the activity projection, the candidate store, child processes, drafts,
   their publication and schemas: all safety properties of the runs.
3. Merge chains in `MdmRecords`; the migration of relationships at promotion,
   should the facade ever make relationships of prospects.
4. Restoring single documents and relationships from DynamoDB; the limit on children and the
   choice of ports over several drafts; number sequences.

## Not modelled

Adapters (HTTP, authentication, storage, configuration), reports (monitor,
audit), the checks of table definitions and seeds, the user interface and the definitions: they keep no state
that several actors change in steps, or they are input and output. Of the CBE:
uploads, static files, the databases of drafts, sessions and rendering. The server
loops are a flag and a timer in one process; what overlapping rounds of
several processes do is in `WakeInbox` and `WriteBehind`. Invitations call another
service over HTTP and keep nothing. The MDM's in-memory runtime is modelled only
where it is more than a test double: its lack of rollback, in `Registration`.

Hazards of the code that no property covers: a wake row whose payload cannot be
read ends every round that selects it (`wakeInboxPostgres.ts:165`); a handler that
never returns keeps its transaction and both locks (`wakeInboxPostgres.ts:175`);
merges of two records into each other (`entityPersistence.ts:549`); a caller that
names a version ahead of the stored one (`entityPersistence.ts:356`, excluded by
`Ahead = 0`); two databases that commit one after the other
(`MdmDataRuntimePostgres.ts:321`); a restore that brings back old versions
(`RestoreFromDynamoUsecase.ts:27`).

## Running

    tlc -config MdmRecords.cfg MCMdmRecords.tla
    tlapm MdmProofs.tla
