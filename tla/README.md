# seedwright in TLA+

TLA+ modules, TLC configurations and TLAPS proofs for seedwright, a Go web
application that submits image-generation jobs to an sdcpp server, polls them,
keeps the pictures in an object store and shows them in a gallery. Lines such as
`job_service.go:292` refer to the repository's files; `PROJECT.json` maps every
definition to its lines.

## The system and its parts

| part | state | operations | what is hard |
|---|---|---|---|
| **Job service** `internal/data/job_service.go`, `job_repo.go` | the `jobs` table (runtime only), one poller goroutine per job | StartJob, CancelJob, CancelStuckJobs, pollJob, updateJobStatus | request goroutines, pollers and start-up work on the same row, one statement at a time; the client may leave; the process may die |
| **Object storage** `internal/storage` | the objects; the memory store's running total | Put, Get, List, Delete in a memory, a file and an S3 back end | accounting of overwrites at capacity; directories made and removed by calls that hold no lock |
| **Element repository** `internal/data/element_repo.go` | SQLite `elements` and references, element JSON and image objects | CreateElement, DeleteElement, SyncFromStorage, list queries | two or three writes to two stores; crash between them; rebuild at start-up; a count and a page that are two statements |
| **Project repository** `internal/data/project_repo.go` | SQLite `projects`, `project.json` | create, update, delete, hide | settings written by create as well as by update; deletion beside running jobs |
| **Start-up** `internal/app`, `cmd/app`, `ext/extensions.go`, `internal/extdep` | the enabled extensions and their order; `extensions_metadata` | Bootstrap, RegisterAll, SyncAndCleanup, SyncAll, Serve, in this order | what a previous process left behind, in the tables and in a migration it did not finish |
| **HTTP handlers** `internal/server` | none of their own | generate, regenerate, clone, img2img, upload, cancel, delete, settings, galleries | which calls they make, in which order, on whose context |
| **Batch** `ext/joleuger/batch` | batch and item rows, one JSON document per batch | CreateBatchFromVariants, HandleJobTerminal, Sync, Expand | the hook called twice, early or never; the first job started before the items are there |
| **Favorites** `ext/joleuger/favorites` | a delta object and a column per element | ToggleFavorite, Sync | delta and column written separately, without a lock |
| **Photobooth** `ext/joleuger/photobooth` | a settings object and columns per project | saveProjectSettings, handleSaveImage, Sync | read, change and write without a lock; a mirror that lags |
| **Printer, imageproc** `ext/joleuger/printer`, `imageproc` | temporary files | printHandler, previewHandler | who removes which file, on which way out |
| **Onboarding** `ext/joleuger/onboarding` | `config.yaml` | handleComplete, handleProfile | gate, read and rename are three steps; the owner edits the same file |
| **Authorization** `internal/authz` | the auth section of the configuration, the engine built from it | buildEnforcer, VerifyBootstrapInvariant, RequireAction, Enforce | what the owner writes is read at the next start; root locked out |
| **Claim page, console code** `internal/server/claim.go`, `ext/joleuger/console_code_authorizer` | the codes of two authorizers | generateCode, Authenticate, claimOwnership | the instance that shows a code is not the one that is asked; a resolver that is not always there |

Handlers call the job service with the request's context. StartJob creates the
element through the element repository, inserts the row, posts to sdcpp and
starts the poller; the poller writes the picture through the element repository
and settles the job through updateJobStatus, which calls the extensions' hook.
Deleting an element removes its rows from the jobs table but tells no poller. All
database work goes through one SQLite connection (`sqlite.go:182`). Batch and
Photobooth start jobs themselves; Batch lives by the hook; Favorites, Photobooth
and Batch keep objects of their own and rebuild their tables from them in SyncAll,
after core's SyncFromStorage.

What makes each part correct: every job row is settled, announced and pruned, and
never comes back; a picture shown is one the server completed for that element;
the store's accounting is exact and an object that was stored stays whole; table
and bucket say the same after a sync; what was deleted stays away; a batch advances
one item at a time and comes to its end; delta and column agree; the start order
respects the dependencies; the wizard keeps what it does not know; a server that runs
serves root.

## Modules

| module | models |
|---|---|
| `JobService` | the life of a job, one step per database or network call |
| `JobLedger` | what the jobs table promises, abstractly |
| `JobServiceProofs` | the two inductive invariants, the theorems, the ledger's step refinement |
| `StorageProofs`, `GalleryProofs` | the inductive invariants and theorems of those two |
| `BatchProofs`, `FavoritesProofs`, `OnboardingProofs`, `PrinterProofs` | theorems about those four parts |
| `ExtensionsProofs` | theorems about photobooth, start-up, listing, variants and authorization; all theorems of parts carried over to `Extensions` |
| `MemoryStorage`, `FileStorage` | the two local object stores |
| `Storage` | one process with one of the two, as `factory.go` picks it; the properties |
| `Gallery` | element and project repositories over a bucket: partial writes, crash, SyncFromStorage |
| `Batch` | one batch: its creation, the hook, the jobs around it, start-up |
| `Variants` | the expansion of prompts and seeds that makes a batch's items |
| `Favorites` | starring, and its sync |
| `Photobooth` | settings, captures and post-filter jobs, and the sync |
| `Printer` | the files of print and preview requests |
| `Startup` | extension dependencies, start order, migrations, initialization |
| `Onboarding` | the wizard's writing of `config.yaml`, and what Load makes of it |
| `Listing` | list options and going through pages |
| `Authorization` | the engine of each start, the bootstrap check, RequireAction; the claim page and the console codes |
| `Extensions` | instances of the nine modules from `Batch` to `Authorization`, side by side |
| `MCJobService`, `MCStorage`, `MCGallery`, `MCExtensions` | instances for TLC |

### JobService

*Threads.* `Requests` are request goroutines, a poller is named by its job, and
`Boot` is the start-up thread. `pc`, `cur`, `todo`, `arg` are their control and
locals; `cur` is the updateJobStatus call a thread is in, `todo` the calls of
CancelStuckJobs' loop (or of handleJobSuccess' caller) still to come.

*State shared.* `row` and `linked` are the status and `sdcpp_job_id` columns;
`target` the element; `elem` stands for the element's JSON and row together;
`image` says which job's picture the image object holds; `remote` is the job on
the sdcpp server. `fired`, `erased`, `abandoned` are history and are read by no
guard.

*Steps.* One per call between which another goroutine can run. StartJob is
`Generate` or `RegenerateInPlace`, `LookupElement`, `CreateBlank`, `InsertJob`,
`SubmitJob` and `LinkJob`, with its error paths `CreateBlankFails`,
`InsertJobFails`, `SubmitJobFails` and `RejectJob`. A cancellation is `CancelJob`,
then `DiscardRow`, or `RevokeJob` and the settling. updateJobStatus is
`UpdateStatus`, `PruneJob`, `FireHook`, for every thread that calls it. The poller
is `PollTimeout`/`PollAgain` at the head of its loop, `PollError`, `PollPending`,
`PollFailed`, `PollCompleted` on the answer, `SaveImage` or `SaveImageFails`.
`DeleteElement` is one transaction on the only connection, the objects included.
`Disconnect` cancels a request's context; `Crash` ends the process anywhere and
the next one begins with `BootCleanup`.

*Abstractions.* One project (every query of the jobs table names one). An answer
of the server is what `Status()` and `HasOutput()` make of it. A database
statement on the background context does not fail. CreateElement is one step;
what it leaves behind when it fails half way belongs to `Gallery`, and so does a
DeleteElement that a crash cuts short: both hold the only connection for the whole
of their transaction, so no other CreateElement or DeleteElement comes between
their writes. The UUIDs of
jobs are never used twice.

### JobLedger

A submission is new, then open, then closed; Close may close several at once; no
open submission stays open. `JobService` implements it under the mapping `Phase`:
a job is closed when its row is gone, when the row is terminal and no thread is
about to write to it again, or when its failure could not be recorded because the
client had gone.

### MemoryStorage, FileStorage, Storage

The memory store is one mutex and so one step per call; a payload is its length.
The file store holds no lock: MkdirAll makes one directory per step, then Create
(which truncates), then Copy; DeleteObject removes the file and then, directory by
directory, reads and removes. A file is `whole` or `torn` (truncated, half
written, or mixed by two writers). A file removed while a writer has it open is
`linked = FALSE` for that writer. `Crash` stops all calls. `Above(d)`, the directories
a path goes through, is the least set that is closed under `Up`, not a recursion, so
that it can be reasoned about.

### Gallery

*State.* `store` is the objects by key (`Json`, `Image`, `Meta`), `row` and `prow` the
two tables. `tx` is the call that holds the transaction: every repository call that
writes objects opens one first and the pool has one connection, so one is in
progress at most; `todo` is the object writes it still has to make. `pending` is a
settings request between reading the project and writing it, `listing` a resync
request between ListObjects and its transaction. `cut`, `gone`, `late`, `last`,
`raced`, `reset`, `rebuilt` are history and are read by no guard.

*Actions.* A call is its first action (`CreateElement` by StartJob, Upload or
Complete, `DeleteElement`, `NewProject`, `WriteSettings`, `DeleteProject`), then
`StoreWrite` per object, then a commit action; `PutFails`, `DeleteFails` and
`Disconnect` are its other ends. `SyncFromStorage` is one step inside `ResyncRun`
and `StartUp`, since it holds the connection. `Crash` ends the process anywhere,
possibly with a torn object, possibly with the database removed.

*Abstractions.* An element document says whether there is a picture (`Bare`,
`Done`); a project has a name field (which the sync reads back) and a text field
(description and tags, which it does not when the row is new). Reading an object
does not fail. The hidden flag and backend_ref are left out. `MaxVersion` bounds
the settings saves of one project and `MaxFaults` the faults.

### Batch, Variants

`batch`, `item` and `document` are the rows and the JSON document that is written
once; `step` and `at` the creating request; `hook` the calls of HandleJobTerminal
in progress, one statement per step; `jobs` and `live` the pollers and job rows.
What ends a job is in the terms of JobService: settled by its poller, settled
twice (`SaveFails`), cancelled with the record as it was read, left over at start.
`Registered` says whether HandleJobTerminal is among the hooks. In the code it is
not (finding `batch_finishes`); with `FALSE` the hook's steps never happen, so the
run `extensions` has `TRUE`, as EXTENSION.md describes the extension. Everything
that can go wrong is a `Mishap`, bounded by `MaxMishaps`.

`Variants` takes the groups of a prompt as sequences of numbered options and shows
the expansion to be the set of all choices, each as often as it is written. The loop of
cartesianProduct is a function of the number of groups (`JoinedUpTo`), the nested loops
are index arithmetic (`Outer`, `Inner`), and sort.Strings gives each text the place that
the texts not behind it leave (`InOrder`). Two choices of different options that spell the
same string are two texts here, and the order is that of the options' numbers.

### Favorites, Photobooth

Both keep an object and a column that repeats it. `toggle` and `saving` are the
requests in progress; every object and every statement is a step. `Stop(lost)`,
`StopBooth` and `StartBooth(lost)` are the process ending and `cache.db` being
removed. The core's part (a deleted element or project) is an action of each.
The history variables (`crossed`, `adrift`, `mixed`, `behind`) name the
circumstances under which object and column may differ, and when a sync has
brought them together again they are cleared.

### Printer

LocalFile hands out the stored file's own path (file back end) or a temporary copy
with a cleanup. `own` is what a request's deferred calls will remove, `file` the
file it goes on with.

### Startup

`Bootstrap`, `ResolveEnabled`, `ValidateGraph`, `PlaceNext` (a round of Kahn's
algorithm), `AlterTable`/`RecordMigration`, `Initialize`, `SyncEverything`: the
sequence of `main`, with any enabled set and any declared dependency of each
extension. An extension declares at most one dependency here, as those in the
repository do; chains and rings arise all the same.

### Onboarding

A configuration is a record of what the wizard and Load tell apart. A request
passes the gate, reads the file, and replaces it, in three steps; the owner edits
or removes the file and restarts the process in between. `Valid` is config.Validate for
the storage section and the first backend's URL, `Checked` is validateComplete: the two
read an S3 endpoint and a URL's scheme differently, and Validate comes before Load fills in
defaults, so a file without an sdcpp section (`url = "missing"`) is refused. `spoilt` marks
the three ways a file that does not load can come about with the wizard's help: an
endpoint that is no URL, a scheme in capitals, and a profile written over a file that is
gone. `WizardFilesLoad` excludes them.

### Listing, Authorization

`Listing` is one walk through all pages, a count and a SELECT per page, while rows
come (`InsertRow`, at any place) and go (`RemoveRow`, by place). `Authorization` has
the auth section on disk, `policy`, which the owner edits, what the last start read of
it, `launched`, and the `enforcer` that start built: none while no server runs, `Off` on a
run without a file, else the static engine. `authz-simple` is a name the section may hold and
nothing more: no package the program links registers it. `pageCode` is the Authorizer of the
extension's page and `coreCode` the one `auth.control_plane` gives the claim page; codes are
numbers, made in turn. Actions and scopes make no difference to the static engine.

### Extensions

The nine parts share no state that is modelled (each has its own tables and
objects; what they have in common, the job service and the element table, is
modelled in each as far as it concerns it; the instances are `TheBatch`, `Booth`,
`Boot`, `Pages`, `Authz` and so on). `part`, chosen by Init, says which one
a behaviour is of; the others stay in their initial states. So the state space is
the sum of the nine and not their product, and one run checks them all.

## Runs

| run | instance | shows |
|---|---|---|
| `job_interleavings` | 2 jobs, 1 element, 2 requests, no crash | rows of polled jobs are pruned (`TerminalRowsBeingPruned`) and announced (`NoLostHook`), no row comes back (`RowNeverReborn`), no wrong picture (`ImageOfCompletedJob`) |
| `job_restart` | 1 job, 2 requests that may disconnect, 1 restart, fairness | every active row has somebody to settle it (`ActiveRowsAttended`), none survives start-up (`StartupLeavesNoActiveRow`), the ledger is implemented (`JobsOpenAndCloseOnce`), every polled job is announced (`JobsAnnounced`), types |
| `hook_once` | 1 job, 1 request | counterexample to `server.go:58` |
| `regenerate_cancels` | 2 jobs, 1 request | counterexample to `USAGE.md:176` |
| `deletion_final` | 1 job, 1 request | counterexample to `USAGE.md:207` |
| `hook_before_prune` | 1 job, 1 request | counterexample to `job_service.go:319` and `EXTENDING.md:370` |
| `storage` | memory: 3 keys, sizes 1, 2, 4, capacity 4; file: 3 objects in two nested directories, 2 calls at a time | exact accounting until an overwrite is refused (`BytesExactUntilRefusal`), no fitting write refused (`FittingWriteAccepted`), stored objects stay whole (`StoredStaysWhole`), no empty directory left (`NoEmptyDirLeft`), types |
| `storage_capacity` | the same store | counterexample to `memory.go:32` |
| `gallery` | 2 projects, 1 element, 1 settings request, 1 fault | a listed element has its objects and a stored one its row (`RowsBackedByObjects`, `ListedOnceStored`), deletions are complete and touch nothing else (`DeletedProjectStaysDeleted`, `DeletionContained`), saved settings are shown (`SavedSettingsShown`), a start repairs (`StartUpHeals`), types |
| `settings_survive_restart` | the same | counterexample to `DATA-MODEL.md:26` |
| `batch_finishes` | 3 items, the hook not registered | counterexample to `batch/EXTENSION.md:204` |
| `extensions` | batch: 3 items, 2 hook calls at a time, 2 mishaps; favorites: 2 elements, 2 toggles, 3 faults; photobooth: 2 saves, 3 forms, 1 capture, 2 faults; printer: 2 requests at a time, 3 in all, 2 pictures; start-up: 3 extensions, 2 launches; wizard: 2 requests, 3 edits; listing: 4 rows, 1 newcomer; variants: 4 prompts, 4 seed fields; authorization: 2 principals, 2 edits of the section, 2 codes a process | one property or more of each part: `Sequential`, `StartedInOrder`, `CompletedMeansNoneWaiting`; `StarsMatchDeltas`, `SyncKeepsFavorites`; `SettingsAsSubmitted`, `FilteredAsStored`; `NoTempLeft`, `StoredPicturesStay`; `DependencyFirst`, `StartsUnlessTorn`; `OwnersSectionsKept`, `WizardFilesLoad`; `WalkMissesNone`; `EveryCombinationOnce`; `OwnerServed`; types |

*Why the bounds are enough.* Two jobs of one element give two pollers that write
the same image, a regenerate beside a running job, and a cancel-all with a loop of
two; two requests give every race of cancel, cancel-all and submission with each
other and with a poller; jobs of different elements only meet in CancelStuckJobs.
One restart is a crash in every state and a start-up on everything it can leave;
a second begins from states of the same kind. `job_restart` has one job: its safety
properties are proved for any number, and each job has a poller of its own to be fair to. A capacity of 4 with sizes 1, 2, 4
has overwrites that shrink, grow, fit exactly and are refused. Two directories,
one in the other, with two objects in the inner and one in the outer are the
smallest tree in which cleaning up has to stop half way, and two calls the
smallest race; the file store's steps never look at more than one other call.
`Jobs`, the pool of submissions, and `MaxCrashes` bound the behaviours: a request
to generate arrives only while a job is left (`JobLeft`), and one that finds the
last job taken by another request ends like a failed insert.

In `gallery` calls exclude each other, so one element meets everything another
could do to it (no statement looks at two elements), and a second project shows
what a deletion of the first must leave alone. One fault is a crash, refusal or
disconnect in every state; two in a row are excluded by the properties' conditions
in any case (`cut`). `extensions`: three items are a first, a middle and a last
one; two hook calls, toggles, saves or submissions are the smallest race; three
extensions a chain, a ring and a ring beside a bystander; four rows with one or two
to a page have a full and a partial last page.

Jobs, elements and requests are interchangeable in `job_interleavings`, threads and the
two inner objects in `storage` (SYMMETRY); the others have none. Deadlock is not checked for `JobService`, `Gallery`, `Batch` and
`Extensions`: a system whose jobs are used up, whose elements are deleted and whose
restarts and faults are spent has stopped, rightly.

*Fairness.* The Go scheduler runs every goroutine that can run: weak fairness of
every request's, poller's and start-up step. `SF(PollTimeout)`: a poller comes
back to the head of its loop again and again, and time passes, so in the end it
finds its deadline over. `ServerAnswers` is an assumption about the other side:
`http.DefaultClient` has no timeout (`job_service.go:380`, `:404`), so a server
that accepts a poll and never answers holds its poller for ever, and the deadline
of ten minutes is never looked at. `JobsAnnounced` needs that assumption.
`Gallery` states no liveness and assumes no fairness. `Batch` assumes that requests, hooks and
pollers run on; a poller ends after ten minutes at the latest.

## Where documentation and code disagree

Runs that end in a counterexample, each with its finding in `PROJECT.json`:

* `hook_once` — OnJobTerminal is called for "failed" and then for "completed" when
  the picture cannot be decoded or saved (`job_service.go:294`, `:212`).
* `regenerate_cancels` — regenerate-in-place cancels nothing, because it passes the
  element's id where a job's id is looked up (`handlers.go:1390`).
* `deletion_final` — the poller of a running job writes a deleted element again
  (`job_service.go:292`).
* `storage_capacity` — a refused overwrite leaves `usedBytes` too low
  (`memory.go:144`).
* `settings_survive_restart` — a rebuilt database has lost every project's
  description and tags (`element_repo.go:552`, and the `version != ?` below it).
* `batch_finishes` — HandleJobTerminal is never appended to the hooks
  (`batch.go:475`), so a batch stays at its first item.
* `hook_before_prune` — `job_service.go:319` and `EXTENDING.md:364` and 370 have the hook
  called before the row is pruned; the row goes first (`job_service.go:310`).
  `HookAfterRow` is the proof that it never is otherwise.
Divergences that need one call or one reading of the code to see are listed only. The
modules follow the code in each, and the names say where:

* `DATA-MODEL.md:816` calls the sync self-healing; one element document that does not
  parse fails SyncFromStorage, and with it every start (`element_repo.go:594`, `Syncable`).
* The expansion's outer loop is over the seeds (`expand.go:52`, `Expanded`): all prompts of
  the first seed come before the second seed. Its comment and step 4 of use case UC-B01
  (`batch/EXTENSION.md:288`) group the seeds of a prompt; UC-B05
  (`batch/EXTENSION.md:344`) states what the code does.
* `onboarding/EXTENSION.md:47` has the payload validated; validateComplete
  (`onboarding/routes.go:167`) passes `HTTP://host`, as url.Parse lower-cases a scheme,
  and an S3 endpoint that is no URL. Load refuses both (`config.go:287`, `:337`,
  `Checked` against `Valid`).
* The comment of applyProfile (`onboarding/configwrite.go:386`) calls the file it makes
  "complete, bootable"; when the running configuration left the storage type to its
  default, the file has S3 without an endpoint (`configwrite.go:395`, `FreshConfig`).
* `authz/config.go:45`, `config.example.yaml:115` and authz-simple's own comment say to
  select `ext/joleuger/authz-simple`; that ends the start with ErrUnknownEngine
  (`static_enforcer.go:212`, `Built`), as nothing imports the package.
* `console_code_authorizer/EXTENSION.md:20` has the claim page check the code that the
  extension's page shows; the two ask different Authorizers (`init.go:8`, `main.go:48`,
  `PostClaim`), so a shown code is refused.
* On a first run the claim page calls a nil resolver and the request panics
  (`claim.go:34`, `app.go:75`, `OpenClaimPage`).

Of the job service and the stores also: the comment of CancelStuckJobs
(`job_service.go:144`) speaks of jobs "with no sdcpp_job_id", the query takes every
active row, and the cancel request to sdcpp that `USAGE.md:217` describes is not
sent; `DATA-MODEL.md:526` says terminal rows are deleted immediately, a failed
submission's row stays (`job_service.go:70`); `sqlite.go:95` gives StartJob's
order the other way round; a cancel request goes to the default server even when
the job runs on another, as GetElement returns no backend (`job_service.go:118`);
a put can fail because a concurrent delete removed the directory it had just made
(`file.go:131`, `:170`); a status handed to the hook by a cancellation is the one
read before it.

Of the gallery: opening a project page, generating and batches call CreateProject,
which puts a `project.json` with defaults over the stored one while the row keeps
the settings (`handlers.go:213`, `project_repo.go` CreateProject); the next sync then
sees a version that differs and takes the defaults. `SavedSettingsShown` excludes
such projects (`reset`). A project document that does not parse is skipped.
createProjectFromWelcome does not check the name as createProjectInternal does.

Of the extensions: a capture's JSON names its picture `elements/<id>.png`
(`photobooth.go:669`) but CreateElement stores it as `images/<id>.png`, so after the
database was rebuilt from the JSON the picture is not found and a deletion leaves it
in the bucket. A favourite's lookup that fails in the sync counts as an element that
is gone and its delta is removed (`favorites.go:322`); photobooth's sync does the same
with the settings of a project. SyncAll's comment speaks of "reverse construction order";
it goes through the enabled extensions in the reverse of Bundled's order, not of the
computed one (one step here, `SyncEverything`, and no property depends on it). A stop between ALTER TABLE and its
row in `extensions_metadata` makes every later start fail until `cache.db` is removed
(`favorites/migrate.go:32`; `StartsUnlessTorn` has it as its exception).

Of the wizard: handleProfile does not ask for confirm_overwrite, though EXTENSION.md calls
the gate two-fold; Load validates before it fills in defaults, so those of the listen
address and the backends only serve a run without a file.

Of authorization: the static engine with a principal other than `user:root`, which
`claim.go:23` tells the owner to set, fails VerifyBootstrapInvariant at the next start;
a file without an auth section has the static engine for root (ParseAuthConfig's defaults),
though `app.go:69` says that auth is then disabled; the engine an extension registers would
be handed an empty configuration (`static_enforcer.go:217`).

## Proofs

### Job service

`JobServiceProofs` proves, for every set of jobs, elements and requests and any
number of restarts, from the two assumptions on the constants in `JobService`
(thread names are distinct, the bounds have their types):

| theorem | says |
|---|---|
| `Invariance` | `IInv` holds in every reachable state |
| `TypeCorrect` | `TypeOK` |
| `RowsAttended` | `ActiveRowsAttended` |
| `HookAfterRow` | `HookFindsNoRow`: when the hook has been called the row is gone |
| `NoRebirth` | `RowNeverReborn` |
| `StartupCleans` | `StartupLeavesNoActiveRow` |
| `TerminalRowsPruned` | `TerminalRowsBeingPruned` |
| `HooksNotLost` | `NoLostHook` |
| `PicturesOfCompleted` | `ImageOfCompletedJob` |
| `OpenAndCloseOnce` | every behaviour is one of the ledger, fairness aside |

None of the properties is inductive alone. `IInv` adds four parts.
`JobsSubmitted`: whatever names a job names a submitted one, so InsertJob's fresh
job is nobody else's. `UpdatesOwned`: a poller updates only its own job and the
others only settle, so an update to "queued" or "generating" comes from a live
poller and the row it writes is attended. `HookAfterPrune`: a thread about to call
the hook has removed the row. `StartupSettlesAll`: until the server opens only
the start-up thread runs, and each active row is in its `cur` or `todo`; its end is
then the end of all active rows. Each part is preserved by every step
(`TypeStep`, `SubmittedStep`, `OwnedStep`, `HookStep`, `StartupStep`,
`AttendedStep`, one case per action), and the two action properties follow from
the invariant step by step (`RebornStep`, `OpeningStep`).

The last four theorems need `HookInv` on top of it (`HookInvariance`). A job is *in
play* from CreateJob until its poller has ended. `InPlayAnnounced`: while it is, a
terminal row has a thread that will prune it, and a row that is gone was announced
or has a thread on its way to the hook. `PollersFinish` says the same of a poller that
is over. That a thread can be relied on takes `OneSubmitter` (no two requests submit
one job, and none submits a job with a poller), `TodoWhileUpdating` and
`ElementsOutlast`. `SavesCompleted` and `RevokesPolled` tie what a poller saves and what
a cancellation revokes to the server's answer; the picture is then the completed job's.
Every action becomes one of a few kinds of step first (`UpdateEffect`, `InsertEffect`,
`MovesStep`), and the parts are preserved by each kind. For the ledger, `LedgerStep`
maps each step to `Open`, `Close` or a stutter of `Phase`: a closed job stays closed
because no live thread can write its row again (`ClosedStays`).

### Object storage

`StorageProofs`, from `StorageAssumption` (sizes are natural numbers, every directory has
one above it or the base, an absent object is none of a size):

| theorem | says |
|---|---|
| `Types` | `TypeOK` of both stores |
| `BytesExact` | `BytesExactUntilRefusal` |
| `FittingAccepted` | `FittingWriteAccepted` |
| `WholeOnceStored` | `StoredStaysWhole` |
| `TidyAtRest` | `NoEmptyDirLeft` |

The memory store's running total equals a sum over whatever is stored, so the first
half is about sums over finite sets: that a sum does not depend on the order in which it
is taken (`SumSplits`) and what it does when one term changes (`SumChanges`). A set on
which such a fact failed would have a smallest one (`Smallest`), and that is refuted. `Accounted`
is then inductive: the total never exceeds the sum, and equals it until a
refusal. From "never exceeds" follows `FittingAccepted`, also after refusals.

For the file store `FileInv` says that no call in progress is on a stored object
(`Untouched`) and that each empty directory is covered by a call (`Tidied`): one that will
fill it or a directory below it, or one that has still to read or remove it. The call
that empties a directory is the one that goes on to look at it (`RemoveFileKeeps`,
`RemoveDirKeeps`), so another that found it not empty was free to leave
(`ReadDirKeeps`).

### Gallery

`GalleryProofs`, from `GalleryAssumption` and `ValuesAssumption` (the values are told
apart, bounds are numbers, the sets of elements and projects are finite):

| theorem | says |
|---|---|
| `GalleryInvariance`, `GalleryTypes` | `GalleryInv` holds in every reachable state, `TypeOK` with it |
| `RowsAreBacked`, `StoredIsListed` | `RowsBackedByObjects`, `ListedOnceStored` |
| `DeletionsLast`, `SavesLast` | `DeletedProjectStaysDeleted`, `SavedSettingsShown` |
| `StartsHeal`, `DeletionsContained` | `StartUpHeals`, `DeletionContained` |

The properties speak of the time between calls; `CallFits` says what holds during one:
each key the call is for is already as the call will leave it, still on its list of
writes, or was refused. With an empty list it gives what the commit needs.
`ElementsWhole` is the agreement of rows and objects for elements no call is busy with,
`GoneUntouched` that no call could bring a deleted project back, and `SettingsKept`
that file and row carry the last save. Every step is a begin, an object write, a commit, a
roll-back, a refusal, a sync or a crash (`NextCases`); each has a lemma that says what it
does (`BeginEffect`, `WriteEffect`, `CommitFinds`, `SyncEffect`, `CrashEffect`) and the parts
are preserved by what these say. The history variable `rebuilt` is set by a start on a
lost database only: `RollBack` must leave it alone, or the invariant does not hold.

### Extensions

Each part has its theorems under a hypothesis on its constants: values are told apart and
bounds are natural numbers (`BatchConstants`, `FavoritesConstants`, `StartupConstants`,
`ListingConstants`, `Distinct`, `Apart`; the photobooth's bound, and for its types only),
prompts and seeds are sequences of numbers (`VariantsConstants`). `Extensions` assumes
these by name, so that TLC evaluates them in the run `extensions`. `ExtensionsProofs`
shows that a behaviour of `Extensions` is one of each part (`BatchPart`, ...,
`AuthorizationPart`) and carries the theorems over:

| theorem of `ExtensionsProofs` | says | proved in |
|---|---|---|
| `OneJobAtATime`, `StartsInOrder`, `CompletedIsOver` | `Sequential`, `StartedInOrder`, `CompletedMeansNoneWaiting` | `BatchProofs` |
| `StarsMatch`, `SyncKeeps` | `StarsMatchDeltas`, `SyncKeepsFavorites` | `FavoritesProofs` |
| `SettingsStay`, `FiltersFollow` | `SettingsAsSubmitted`, `FilteredAsStored` | itself |
| `DependenciesFirst`, `StartsComplete` | `DependencyFirst`, `StartsUnlessTorn` | itself |
| `SectionsSurvive`, `FilesLoad` | `OwnersSectionsKept`, `WizardFilesLoad` | `OnboardingProofs` |
| `WalksComplete` | `WalkMissesNone` | itself |
| `CombinationsOnce` | `EveryCombinationOnce` | itself |
| `NoneLeft`, `PicturesStay` | `NoTempLeft`, `StoredPicturesStay` | `PrinterProofs` |
| `OwnerKept` | `OwnerServed` | itself |
| `ExtensionsTypes` | `TypeOK` | with each part |

* The batch, for any number of items and of hook calls in progress, and for every
  behaviour of its steps (`Steps`; its fairness is not needed). `OneAtATime`: there is
  one job, or one hook call that may start one, and never both, until an end is
  announced twice. `HooksInOrder` and `InsertedInOrder`: the job a hook is to start is
  the next in line, since all before it left "pending" only through their own job
  (`ItemsStarted`). `HooksInTime`: hooks meet the request only when it is over, unless
  a job ended `early`. `NextInTurn` is the step that picks the next item.
* Favorites: `InStep` says, for each phase of the process, which of delta and column may
  be ahead of the other; `Alone` that two toggles of one element overlapped;
  `ListedOnce` that the sync's list of keys to delete has no present element on it,
  but for a lookup that failed.
* Photobooth: `SavedAlone`, saves that do not mix know what is stored, which is what was
  last submitted; `Mirrored`, the column repeats the file unless a save is between the
  two or failed there (`behind`).
* Start-up: `RequiredFirst` is preserved by every round of Kahn's algorithm, and
  Initialize goes along the order. That the algorithm never gets stuck is
  `SomeReady`: the extensions left over, none of them ready, would each require another
  one of them, and a set closed in this way is the ring that Validate refuses.
* The wizard: the file alone says nothing, since a request writes what it read
  earlier. `OwnersRest` says that the file and what every request in progress has
  read agree, in the owner's sections, with what the owner last put there, and
  `ProfilesFitFiles` that a profile is never applied to a file that is not a
  mapping. An update keeps that part (`UpdatedKeepsRest`), a fresh file is written
  only over one that has none of it (`FreshHasNoRest`). For `FilesLoad`, `LoadInv` says
  the same of loading, backend URL included: until a file is spoilt, the one on disk and every one a request
  has read load, and so do an update and a fresh file made of it (`UpdatedLoads`,
  `FreshLoads`).
* The listing: `ShownOrAhead` says that each row there was at first has been shown or
  lies beyond what the pages went over, and `Growing` that without insertions the pages are
  the listing itself. Insertions only push rows on (`InsertMoves`); that the last page
  ends at the end is arithmetic on the count (`PageReaches`).
* The variants, for any prompt and any seeds. That the invariant (`ShownInv`: a batch is
  what Expand makes of its form) is inductive is plain; that Expand then makes every
  choice with every seed takes the rest. A list `SaysAll` if there is a bijection from its
  places to the choices of the first n groups that says what stands there.
  `JoinedSaysAll` carries one from n - 1 groups to n, as each turn of two nested loops has
  its pair of places and each pair its turn (`LoopIndices`). The loop is unfolded without
  an induction theorem: if it were undefined after some number of groups, or did not say
  all choices there, there would be a least such number (`LoopDefined`, `LoopSaysAll`).
  Sorting keeps `SaysAll` because it permutes: `NotBehind` grows along the order and each
  text is in its own, so their sizes are all different and are all of 1 to n
  (`InOrderPermutes`). What is counted is then the elements of a product of two sets
  (`LoopsCount`).
* The printer: `RequestsSound` says that what a request owns are temporary files
  named after it, and none before it has fetched its picture. What a request removes
  at its end is then neither a picture nor another request's file (`ReturnStep`), and
  what it adds it owns or is converting (`GoOn`).
* Authorization: `AuthzInv` says that a running server has no engine exactly when its start
  found no file, and root's static one otherwise, since Built lets no other through the
  bootstrap check; and that core's Authorizer never has a code, so that no claim changes the
  engine (`ClaimStep`).
* The types: those of batch, favorites, wizard and listing are conjuncts of their
  invariants, those of the photobooth, the printer, the start-up and the authorization
  follow from theirs with what these leave out: that a print request never has two
  pictures in hand (`OneFileStep`) and that the order has no extension twice
  (`PlacedOnce`: Kahn's algorithm only takes what is not placed).

### Only model-checked

* `JobsAnnounced` and the liveness part of `JobsOpenAndCloseOnce`: fairness and ENABLED are
  beyond the prover.
* The seven counterexamples, which are what TLC finds.

## Plan

1. An abstract object store which the memory and the file back end both implement.
2. More of the handlers: the hidden flag and `backend_ref`, the printer's dialogs.

## Not modelled

* The S3 client and the test double: thin calls of an external library, and code that
  only tests run.
* `authz-simple`: no binary links it. Project ownership (`primary_owner`): written by a claim
  only, and no claim is accepted (`ClaimStep`); nothing else reads it.
* Object writes of Photobooth are whole or fail; torn objects are in `FileStorage`, `Gallery`
  and `Favorites`, where a torn delta is read as none. A photobooth settings file that does
  not parse ends the request that reads it (`photobooth_saver.go:121`), which changes nothing.
* Photobooth's three ALTER statements are one step of `Startup` (`AlterTable`): a database
  with some of the columns is refused at the next start like one with all of them.
* Dependencies: an extension declares at most one in `Startup`.
* ParseCapacity's overflow, which a count beyond 2^33 GB takes.
* `element_references`: written by the sync, read by no caller. SetPostFilter,
  SetTriggerBinding, ClearPostFilter, UpdateExtensionSettings, CreateBatch and
  UpdateProjectMetaJSON have no callers either.
* The query builder (SQL text), templates, middleware, the slideshow, the printer's
  dialogs, the wizard's probes, preview and download, configuration sections other than
  storage, sdcpp and auth: formatting, parsing and reads that keep no state over time.
