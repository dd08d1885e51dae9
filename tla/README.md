# Level Factory, specified

Level Factory turns a mission brief into a mission package by driving a chain of
external tools. It plans a graph of jobs, runs them in a thread pool, caches
what they publish by content, asks a human to select and lock what was built,
and exports. This directory specifies the part of it that can go wrong in an
order nobody wrote a test for: the planner's graphs and the runner, the cache,
the gates between a human, a run and an export, the mending and judging of the
package an export makes, and the service through which a
panel in the Godot editor drives all of it from worker processes.

Paths below are relative to `src/`. The correspondence of every definition with
lines of the source is in `PROJECT.json` under `map`.

## 1. The system

| Part | State it keeps | Operations | Talks to |
|---|---|---|---|
| Planner, graph (`packages/pipeline/planner.py`, `graph.py`, `batch_planner.py`) | none; makes a DAG of jobs from a brief, the selection and the layers asked for | `plan_mission`, `plan_batch`, `topological_order` | the run and batch commands |
| Lot selection (`packages/pipeline/building_library.py`) | none; draws a candidate's buildings from the library's index | `pick_lot`, `apply_hole_rule`, `lot_for`, `draw_lot` | planner, site spec, compose spec |
| Scheduler (`packages/jobs/scheduler.py: run`) | ready queue, deferred jobs, dependency counts, running counter per resource class, futures, run summary | dispatch, wait, collect, eliminate a candidate, stop, unwind | thread pool, job attempts |
| Job attempt (`scheduler.py: _attempt_job`) | status, fingerprint, attempt number; `work/`, `out/`, the job row | preflight, replay or build, retry, contract, publish, prune, grade | adapters, cache, index, command runner |
| Job commands (`scheduler.py: _run_commands`) | a batch, its own pool, log parts | side by side or alone, join the log, hand over | job attempt (a generator), command runner |
| Command runner (`packages/jobs/runner.py`) | one process group | poll, cancel, deadline, SIGTERM, grace, SIGKILL | the operating system |
| Content cache (`packages/artifacts/cache.py`) | blobs by digest, one manifest per fingerprint | lookup, publish, materialize, forget, prune | job attempts, the `cache` command |
| Gates and lock (`packages/approvals/gates.py`, `lock.py`) | approval records, selection marker, functional lock | approve, reject, compute and verify the lock | `approve`, `reject`, `export` commands |
| Export (`apps/cli/commands/__init__.py: cmd_export`) | none between calls; reads all of the above | blocker filter, drift check, assembling a package | gates, job outputs, validation file |
| Export package (`packages/exporting/`) | the folder being exported, the fixer's record, the verdict | strip, scrub, rewrite references, reroot, write the entry, occlude, merge, drop, judge, describe, guard | the tools' addons, files outside the workspace, Godot |
| Team sign-offs, exceptions (`packages/approvals/team.py`, `exceptions.py`) | lists in files, rewritten whole | sign, require, accept | gates |
| Service protocol (`packages/service/worker.py`, `service_client.gd`) | a directory per run with request, events, result, cancel file; the client's record of the run it follows | run, emit, finish; start, resume, poll, cancel | the operations; the Godot panel |
| Service operations (`packages/service/operations.py`, `design.py`, `layouts.py`, `walking.py`, `exporting.py`) | `design.json`, the request, `builds/revision_<n>.*`, snapshots; the workspace below | open, save, generate, choose, walk, export | the commands, as legs in processes of their own |
| Godot panel (`apps/godot/addons/gabagool_factory/level_panel.gd`) | a queue of operations, the one pending, the level shown, its buttons | click, dispatch, handle, stop, re-attach | the service client |
| Tool adapters (`adapters/`) | none | build arguments, parse reports | job attempt |
| Site and building generation, validation, staging, preview, release | none, or files written once | sequential transformations | jobs |

Interactions worth a model are of four kinds. Threads of one process share the
scheduler's counters and a job's log. Jobs of one run, and other commands, share
the cache directory. The human's commands, the run, the export and the service's
workers are processes that share the workspace's files, with no lock taken. And any
of them can be killed between two writes.

What is hard, and what must hold:

- *Scheduler.* Caps per class, deferral, failures collected in any order, a
  failure that stops the whole run against one that costs a candidate. Nothing
  may be forgotten in a queue, nothing may start early or after a stop, the
  summary must account for every job.
- *Job attempt.* Work left by a killed run, a retry after half an output, a
  replay that must be judged as the build was, inputs edited meanwhile. What
  stands in `out/` after a success must be exactly what the fingerprint says.
- *Job commands.* A pool inside a job; results handed over in plan order however
  they end; no thread left behind.
- *Command runner.* A process that ends by itself just as it is cancelled or
  its time runs out; children that outlive their parent.
- *Cache.* Two writers of one entry, a manifest read while it is written, a
  kill between two files, a prune that read the manifests before a publish.
- *Gates and export.* The selection moved after a run was planned, rebuilding
  after the lock, an approval killed half way, checks that read the files at
  different moments.

- *Export package.* Repairs that bring in files which need repair; files of one
  name with different contents; removals decided by name; a verdict about a
  folder other steps change. Every reference must show the file it was written
  for, and what ships must be whole.
- *Planner.* Ids worked out in one place and repeated in the dependency lists of
  others; a batch that renames a job under those that wait for it. Every plan
  must be orderable and its deliverable must wait for every piece.
- *Lot selection.* Libraries smaller than the lot; a rule for holes that swaps
  what was drawn. Two jobs must not get one building.
- *Service protocol.* A worker writes while a client polls, three looks a poll;
  stops that come late, deaths that leave no result, a panel that reopens.
- *Panel.* One pending operation and a queue; answers must reach the handler of
  the operation they answer.
- *Service operations.* Workers on one level with no lock; an operation stopped
  between its legs; records that must tell the truth of the files they name.

`PROJECT.json` lists every hazard at its line with the properties that cover it.

## 2. The modules

| Module | Models | Extends / uses |
|---|---|---|
| `DagRun` | what a run of a job graph promises, without queues | |
| `Scheduler` | `Scheduler.run` and its pool; implements `DagRun` | `INSTANCE DagRun` |
| `SchedulerProofs` | theorems about `Scheduler` | `Scheduler`, TLAPS |
| `JobAttempt` | `Scheduler._attempt_job`, run after run | |
| `JobCommands` | `Scheduler._run_commands` and its caller | |
| `CommandRunner` | `run_command`, `_terminate_tree` (POSIX) | |
| `JobProofs` | theorems about `JobAttempt`, `JobCommands` and `CommandRunner` | all three, TLAPS |
| `ContentCache` | the cache's file operations, step by step | |
| `ContentCacheProofs` | theorems about `ContentCache` | `ContentCache`, TLAPS |
| `Gates` | approve, reject, run, export over the workspace | |
| `GatesProofs` | theorems about `Gates` | `Gates`, TLAPS |
| `JobGraph` | `JobGraph.topological_order`, its loop step by step | |
| `Plan` | `plan_mission` and `plan_batch` as functions, ordered by `JobGraph` | `JobGraph` |
| `Lot` | `pick_lot`, `apply_hole_rule`, `lot_for`, the site spec's draw | |
| `PlanProofs` | theorems about `JobGraph`, `Plan` and `Lot` | `Plan`, `Lot`, TLAPS |
| `ServiceConstants` | the operations, the directories, the arguments | |
| `ServiceCall` | what worker and client promise together: one call, one answer | `ServiceConstants` |
| `ServiceRun` | the worker and the polling client over run directories; implements `ServiceCall` | `ServiceConstants`, `INSTANCE ServiceCall` |
| `Panel` | the Level tab of the panel, over calls | `ServiceCall` |
| `ServiceProofs` | theorems about `ServiceRun` and `Panel` | both, TLAPS |
| `Authoring` | designs, layouts, walks and snapshots of one level, any number of workers | |
| `AuthoringProofs` | theorems about `Authoring` | `Authoring`, TLAPS |
| `Localize` | the package between its copying and its shipping: `localize_export`, the entry, occluders, merges, verdict, guards | |
| `LocalizeProofs` | theorems about `Localize` | `Localize`, TLAPS |
| `MCJob`, `MCPlanner` | the instances TLC checks of `JobAttempt`, `JobCommands` and `CommandRunner`, and of `Plan` (with `JobGraph`) and `Lot` | those modules |
| other `MC*` | the instances TLC checks | the module of that name |

The components compose by abstraction: each module sees its neighbour as the
few outcomes the neighbour's own module establishes. `Scheduler` sees a job as
ok, failed or raised, which are the ends of `JobAttempt`. `JobAttempt` sees its
commands one after the other and its cache as a map from fingerprints to
outputs, which is what `ContentCache`'s `HitIsWhole` says a hit amounts to.
`JobCommands` sees a command as ok, failed, stopped (cancelled or out of time) or
raised, `CommandRunner`'s result.
`Gates` sees a run as jobs that publish or fail in dependency order.
`Scheduler` runs any graph; `Plan` says which graphs there are, and that all of
them can be ordered. `Panel` is built on `ServiceCall`, not on run directories:
`ServiceRun` implements `ServiceCall`, by refinement, so what `Panel` shows
holds over the files. `Authoring` sees an operation as its legs, each ending
well, stopped or killed, which are `ServiceCall`'s outcomes; what a leg does to
jobs, gates and the lock is in the modules above. `Plan` takes a candidate's
buildings as any set of them, and `Lot` says which sets there are.

### Scheduler

`pc` is the place of the main thread in `run()`: *dispatch* (`Submit`, `Defer`,
`EndDispatch`: the loop over the ready deque with its class caps), *wait*
(`Wait`: `concurrent.futures.wait` returns any non-empty set of the finished),
*collect* (`CollectOk`, `CollectCandidateFailure`, `CollectMissionFailure`,
`CollectRaise`, one per branch of the loop over the done set), *unwind* (the
exit of the pool's `with`), *done* and *aborted*. `WorkerStart` and `WorkerEnd`
are the pool's threads, at most `PoolSize` of them. `Finish` is the summary's
not-run reasons. Job ids are abstract, so an order the code takes from sorting
ids is any order here.

### JobAttempt

Each action is a stretch of `_attempt_job` between two points where the disk
changes or the process can be killed: `Begin` (work cleared, row upserted),
`PreflightFails`/`Fingerprinted`, `CacheHit`/`CacheMiss`, a command
(`CommandOk`, `CommandCancelled`, `CommandFailed`), the output contract,
`CachePublish`, one `PublishFile` per file of `out/`, `PruneStable`,
`FinishBlocked`/`FinishOk`. A directory is a map from files to the inputs each
was built from. `Plan` tells what a command may write from what of it the command
declares (`expected_outputs`: an index, one scene, nothing). The contract asks for
what is declared and for nothing else, and the whole work directory is then cached and
published; so a build that lacks an undeclared file passes, and is replayed. The
environment edits inputs between runs and while a command
runs, cancels, forgets cache entries and kills the process. `job_spec` is what
the planner wrote for the job: whether a transient failure is retried and
whether an exit code counts.

### JobCommands

The generator's loop: `NextBatch` takes the longest stretch of parallel
commands; a batch of one, or a width of one, runs alone; otherwise `PoolStart`
runs up to the class width at once and `HaveResults` waits for all of them.
`HandOver` joins a part of the log, yields a result and lets the caller stop.
`Raise` is a command that could not be started.

### CommandRunner

`Poll`, `Check`, `Terminate`, `Grace`, `Kill`, `Wait` are the statements of the
loop in their order, so a leader may end between the poll and the cancellation
test. Processes decide for themselves whether they obey SIGTERM and when they
end. Time is two events, the deadline and the end of the grace period. The
Windows branch is not modelled.

### ContentCache

A worker looks up (`Lookup`, `ReadManifest`, `ReadRaises`), materializes blob
by blob, or builds and publishes (`Put` per blob, `OpenManifest` which truncates,
`WriteManifest`). `handle` says whether the file a writer opened still has the
name, as a forget may unlink it meanwhile. Prune reads every manifest, lists
the blobs, and removes those it did not see referenced, one at a time. `Crash`
kills the run. `pruneAlone` is a choice made once: whether prune is used only
between runs, which nothing in the code enforces.

### Gates

`approval`, `marker`, `lock`, `lot`, `deli`, `art` (the themed site), `pieces` and
`validation` (findings, and whether the file is whole) are the files. `StartRun`
plans from the selection of that moment, `Publish` and `Fail` are its jobs and leave
out what waits for them (`LeftOut`), `WriteReport` and `FinishRun` rewrite the report
in place, and `KillRun` loses it or leaves it cut short. `BeginApprove`,
`RecordApproval`, `WriteMarker`, `WriteLock` are the writes of `cmd_approve` in its
order; `Reject` is one write. `BeginExport`, `CheckBlockers`, `CheckDrift`, `Ship` are
the questions of `cmd_export`, each reading the files afresh. `OpenBlockers` passes
over findings of the stages a package reports on itself (`SelfReporting`: the
dressing) and over a file that does not parse. `Ship` lays the themed site over the
graybox in every mode that includes it, though `CheckDrift` compares the graybox.
`Upgrade` is a release with other signature definitions, which the lock check treats
as nothing to compare. `package`, `moved`, `disturbed` and `signed` are history
variables that only properties read.

A site and a shell publish records: `markers`, `anchors` (of a file with no markers),
`ground` (what only a site has) and `structure`. The merge of `lock.py` is kept: a
record the site restates carries the site's namespace, the shell adds those the site
lacks (`Registry`), and structure whose key a site's file does not have (`Omitted`) is
filled in from the shell.

Abstractions: the parts of the signature with the same rule are one field; the
dressing's chain is one job; a small file's write is one step, the report's two;
there are two gates; and the fingerprint stored in an approval is left out, because
nothing on these paths reads it back.

### JobGraph and Plan

`Count` is the counting of dependencies with its error for an unknown one,
`Take` one turn of the loop (the head of the queue, its dependents paid off, the
new ready ones sorted and appended), `Stop` the comparison of lengths. The queue
is a sequence of batches, each taken in the order of the ids, because the code
sorts what becomes ready together.

`PlanJobs` and `Needs` are `plan_mission`: which jobs, and what each waits for,
as functions of the candidates, the selection, the layers, the lot drawn, the
buildings with roof props and the Empties. `Refused` is what raises instead.
`PlanOf` with `Shared` is `plan_batch`: missions without a selection skipped,
their Pixelcoat jobs dropped for the batch's own, every list renamed. A job id
is a triple; ids are written in the code as strings of the same three parts.
Commands, parameters and paths of the jobs are left out.

### Lot

One action for each stretch of the draw: `Begin` (the two ways in and their
refusals), `DrawAnchor`, `DrawPreferred`, `DrawFamily`, `DrawSpare`, then `Swap`
for each place under the hole rule. What the seeded stream draws is any choice,
so a property is of every seed. What manifests say of a building (it can wear a
theme, its floors have a hole) is part of the brief.

### ServiceRun and ServiceCall

The worker's actions are the writes of `run_service` in their order: half an
event line (`EmitHalf`), the rest, the result under its final name (`WriteResult`,
`SeeCancel`, `Refuse`, `OperationFails`), the end of its process; `KillWorker`
may come anywhere. The client's are `start`, `resume`, `cancel` and the three
looks of `_poll` (`PollEvents`, `PollResult`, `PollProcess`), between which the
worker moves. Events are counted in half lines: a poll may find the last one
torn. `ServiceCall` has calls with one outcome each, a panel that follows at
most one, and is told its outcome at most once.

### Panel

`Click` and its kinds put operations into the queue; `StartNext` is `_next`,
`StartFails` a client that could not start, `Reattach` the resumption after a
restart, `Finished` and `Handled` the answer going to the handler of what is
pending. `last` is history.

### Authoring

Each operation is a sequence of legs, as in the code: `BeginSave`, `WriteDesign`;
`BeginGenerate`, `Import`, `BeginRun`, `EndRun`, `RecordLayouts`; `BeginChoose`,
`ApproveChoice`; `BeginWalk` to `RecordWalk`; `BeginExport` to `RecordExport`. A walk
takes exit code 0 or 1 of its art leg: `EndArt` is a leg that built the themed level
anew, with or without the surfaces' chain (`dressing`), whose findings hold up no
export; `BreakArt` is one that broke or was stopped before the level was whole, after
which the export of the preview refuses, unless another operation's findings
(`Together`) have replaced the leg's by then. `Abort` is a stop, a kill or a refused
leg after any of them. `edits`, `raced`,
`beside`, and the `walk` and `by` in a package or a staging folder are history
that only properties read: what ran beside an operation, and who wrote the files
it named.

Abstractions: of a design only the streets are told apart from its other
controls; a run builds any subset of the candidates; a package is begun, entered
(its entry scene is in) or whole; import and checks of the preview are one step.

### Localize

A package is a function from paths to files; a file has its type, what its bytes
are, and its references in the order of the text. A reference has a kind (from
the root, from the file's directory, a global class name, a string of a data
file), the path it has and, for the properties, the path it was written with.
An absolute path outside the workspace and a path under `addons/` are references
from the root that begin with a drive or with `addons`. How an absolute path is
written decides who sees it, so a drive is a form of it: the fixer's patterns know
those in `Listed`, the closure scan counts those in `Quoted`, and one that is neither
is joined to the root and asked of the build machine's disk (`There`), as joining
discards the root. An "opaque" file is a text the fixer cannot decode or parse: it
passes over it and records nothing, and only the closure scan and the merge read it.
`folders` is the directories:
files are unlinked one by one and no directory is removed, so one stays when the
last of its files goes, and the closure scan and the reroot, which ask the disk,
find it.

`phase` is the place in `export_mission` from step 3.5 on, and `Then` the order of
the steps. `StripWalk`, `StripQaHarness` and `StripChrome` remove, `ScrubData`
cleans the data files, `RewriteFile` is `_rewrite_text` over one file
(`BundleRef`, `LocalizeRef`, `ClassRef` reference by reference, as the two
substitutions and the loop over class names do) and `EndPass` the end of one of
the passes, which visit the files they found at their start. `Reroot` is
`_reroot_subpackages`, `RepairBare` the repair by name, `WriteEntry`
`write_entry_scene`. `Occluders`, `MergeModules` and `WarmUp` are what the engine
steps do to the folder, each of which may refuse; then `Judge`
(`_closure_verdict`), `Describe` (the four kinds of record) and `Guard`.

Abstractions: the code visits files in sorted order, the model in any order, so
what holds does not hang on their names. The passes over Empties and buildings
that merge and then drop modules are one step that folds any of the modules'
slots; which modules the skin reads first of a family is a set of names. The
light bake, import sidecars, project settings, handoff records, the fixer's own
report, the buildings index and the scout window add files nothing here refers
to and are left out, with the parts of the closure scan about user paths, tool
names and autoloads.

## 3. What TLC checks

Passing runs:

| Run | Instance | What it shows |
|---|---|---|
| `scheduler` | seven jobs: two candidates of a shell and its graders, a shared texture job feeding one candidate's art; classes of width 1, 2 and unconfigured | `FailureIsScoped`: a run that was not stopped leaves out exactly the jobs below a failure. `ImplementsDagRun`: the queues and counters implement the abstract run. `Terminates`. |
| `job` | each of three on its own. Attempts: three runs, two states of the inputs (two commands, one declaring a part of what it writes and one all of it; a command that declares nothing), three files, every job spec. Commands: an empty plan, a lone command, a shell and three buildings, two batches around a lone command; widths 1 and 2. One command: a leader and two children, each obeying or not | `SuccessIsExact`: `out/` holds one build, the one that is cached, with every declared file and nothing of other inputs. `FailureLeavesOut`: a failure before outputs leaves `out/` alone. `ReplayGradesAsBuilt`: a replay is blocked exactly when the build was. `CacheHonest`: an entry is of its inputs and has every declared file; it may lack others for good. `EveryRunEnds`. `LogInPlanOrder`: the log is the results handed over, whole and in order. `AloneIsAlone`: a command that is not parallel has nothing beside it. `NothingLeftRunning`: however the generator ends, its pool is empty. `OutcomeHonest`: cancelled and timed out are said only when true, and a result that is neither is the process's own. `StopReturns`. |
| `content_cache` | two fingerprints sharing a blob, two jobs, three lookups, two forgets or prunes | `HitIsWhole` with everything at once; `ManifestHasBlobs` and `PruneTakesUnreferenced` when prune runs alone. |
| `gates` | two candidates, a site that says everything itself or leaves its markers and structure to the shell, one run after any killed first one, three human commands, any number of exports | `ShipsWhatWasLocked`: past a comparison with the lock, a package of the graybox ships the site that was locked, whatever the shell's records merged into the comparison. `PiecesFollowTheSelection`: unless the selection moved, the art is the selection's. `NothingBlockedShips`: over a report that is whole, no piece of a candidate with an open blocker ships, but for the dressing the package reports on itself. |
| `planner` | every plan of a mission of one or two candidates, up to two buildings and two Empties, all layers; batches of two missions; all graphs of three jobs with lists of up to two, repetitions and unknown ids included; and, on its own, the draw of a lot: libraries of three and two families, lots of one to six places, every set of holed buildings, both ways in | `PlansAreOrdered`: no plan is refused as a cycle or for an unknown job. `DeliverableHasItAll`: what a mission delivers waits for every piece of it, and of no other candidate or mission. `OrderRespectsDeps`, `RefusesOnlyCycles`: the order and its refusals are right for any graph. `AsVariedAsCanBe`: no family comes twice while one is left, no building while one is left. `HolesAsWanted`: the hole rule keeps families and swaps as far as it can. |
| `service_run` | a long and a quick operation, two run directories, two events each | `EventsBeforeTheAnswer`: a worker's answer is told after all its events. `NoResultIsFinal`: a worker said to have left no result never has one. `StartedIsAnswered`: a run that was started is answered. `ImplementsServiceCall`. |
| `panel` | two levels, three clicks, any stops, one restart, starts that fail | `AnswersItsOperation`: an answer goes to the handler of its own operation. |
| `authoring` | two workers on one level of two layouts and two street plans, five operations, three revisions, one destination | `SavesOnWhatWasOpened`: a change is laid over the design its designer saw. `SnapshotsAreWhole`: a snapshot folder that exists is whole. `RecordsTellTheTruth`: the records of a walk and of a snapshot tell which layout and which revision's themed level are in the package and the snapshot, whatever art legs ended with findings or broke; the surfaces' dressing is not covered. `WalksWhatWasGenerated`: what is walked has the streets of the layouts shown. Each leaves out the overlaps of operations it names. |
| `localize` | a site alone, with two outside shells of one name, with an outside scene that needs more, or with a building; a lit scene whose references dangle or not; a building with homonyms at the root or read by a skin; tools configured or not, with a directory that names itself; files and texts that cannot be read; absolute paths in forms the fixer, the scan or neither knows; walk scenes kept or stripped; with and without an engine | `CleanReportIsClean`: when the fixer's record is empty, no text it can read, given or brought in, names an absolute path in a form it knows, or an addon. `KeepsItsFile`: a repaired reference shows the file it was written for, to the end. `KeepsItsOwn`: a building with anything in a folder that is only under its own ships with its own things, not the site's of the same names, unless its paths also lead somewhere from `lot/`. `StaysClosed`: merging and thinning break nothing the closure scan saw whole, and what ships it sees whole as it ships. |

`MCJob` and `MCPlanner` put together modules that share no variable: a behaviour is of
one of them, told by the variable `of`, and the others stay as they began. What a run
shows of a module is what a run of that module alone would.

Runs that show a disagreement between the code and its own words. Each checks the one
property that states the text; TLC finds the trace, and `PROJECT.json` has the lines
under `findings`:

| Run | Property | What the code does instead |
|---|---|---|
| `gates_art` | `ArtKeepsTheLock` (`packages/approvals/lock.py:5-6`) | the lock is compared with the graybox; a themed site that departs from it ships |
| `authoring_dressing` | `DressedAsWalked` (`apps/cli/commands/__init__.py:3046-3055`) | a surfaces' job that fails leaves an earlier walk's dressing, which is packed as present |
| `localize_foreign` | `ShipsSelfContained` (`packages/exporting/closure.py:3-5`) | a path left mangled under `res://` is found on the build machine and counts as resolved |

Every property of a passing run has a mutant in `PROJECT.json`: a definition changed
the way a plausible bug would change the code, under which TLC finds the property
violated. The mutated forms stand before the definitions they change.

The shapes of a module's state are proved, with the inductive invariants they are
part of; no run spends a property on them. Every safety property of every run is a
theorem as well: the run finds a slip in a minute and shows that the cases occur,
the theorem covers every value of the constants.

### Bounds, and why they are enough

- *Scheduler.* Seven jobs give a class that is full while another is free, a
  deferral, a pool narrower than what the caps let in, two failures of one
  candidate collected in either order, a mission-level failure with candidate
  jobs in flight, and a job with two dependencies. The theorems remove the bound.
- *JobAttempt.* Three runs are the first build, one that fails or is killed over
  its leavings, and one that replays or rebuilds. Two fingerprints with
  different file sets show a file of an earlier build staying behind, and files that
  are not declared a build that lacks one. The theorems remove the bounds.
- *JobCommands.* Plans up to five commands; width 2 makes a third command of a
  batch wait. The theorems remove the bounds.
- *CommandRunner.* Two children are one that obeys and one that does not. There
  is no other bound, and the theorems are of any number of children.
- *ContentCache.* A shared blob is what makes prune and publish meet; three
  lookups are a publisher, a second publisher of the same entry and a reader;
  two upkeeps a forget and a prune. The theorems remove the bounds.
- *Gates.* Three human commands are select, lock, and select again (or reject).
  One run is enough because `Init` is any workspace a killed first run leaves,
  so the run in the model is the second one. A marker the site restates or leaves to
  the shell, and structure it declares or leaves out, are the cases of the merge;
  the names do not interact. Files with anchors alone are left to the theorem.
  Candidates are symmetric. The theorems remove the bounds. The violation run
  takes one candidate, which suffices.

- *Plan.* Two missions are what sharing a job takes; two candidates, one of them
  not selected; two buildings, with the mission's own shell as the other case.
  A list of two may repeat a job, and three jobs may wait in a ring. The
  theorems remove the bounds.
- *Lot.* A family of two and one of one show a variant used up and a family used
  up; six places are more than the library has. Nothing is bounded in a draw. The
  theorems are of any library and any lot.
- *ServiceRun.* Two directories are the one followed and one left behind or
  being made; two events make a torn one after a whole one. The theorems remove
  the bounds for the safety properties.
- *Panel.* Three clicks fill the queue behind a running operation; three slots
  are one followed, one left behind by a closed panel, one being made.
  The theorems remove the bounds.
- *Authoring.* Five operations are two generations or choices, two walks and an
  export; two workers are every pair at once. Layouts and workers are symmetric. The
  violation run takes two revisions and one worker. The theorems are of
  any number of workers, layouts, operations and revisions.

- *Localize.* The inputs are chosen for the cases above; sites, lit scenes, buildings
  and tools are combined. Absolute paths have three forms: one the fixer alone knows
  (`path="res://C:/..."`), one both know (`path="C:/..."`), one neither does (a share).
  `localize_foreign` takes the inputs with such paths and texts. Five passes instead
  of ten: the longest chain of the instance (a script that names a script that names
  a script) takes four, and the input whose directory names itself uses up any
  number. One building: buildings do not read one another. No building has a folder
  `assets/` of its own; with one, the reroot would take a bundled reference for the
  building's. The theorems remove the bounds: they are of any packages of that kind,
  any outside files and tools, any number of passes and any number of buildings.

`CHECK_DEADLOCK FALSE` stands where the system may stop: `ContentCache`, `Gates`,
`Authoring` and `Panel` when their bounds are used up, `Localize` when the package
is shipped or refused, `ServiceRun` when every directory is taken, `Plan` and `Lot`
when they have answered. `Scheduler` and `JobCommands` state their end as a
stuttering action, so any other stop is reported. `MCJob` adds such a step (`Over`)
for the attempts, which stop when the runs are used up, and for the one command,
which stops after its result.

### Fairness, and why the code justifies it

- *Scheduler*: weak fairness of the main thread's next step, which never waits
  except for a finished future; and, for each job, of its start and its end,
  since the pool's threads take the oldest item from a queue and every command
  an adapter plans carries a `timeout_seconds` (`job` shows that a deadline ends a
  command).
- *JobAttempt*: weak fairness of the attempt's own steps, for the same reason.
- *CommandRunner*: weak fairness of the polling thread, of the passing of the
  deadline and of the grace period, and of the exit of a process that has been
  killed or that obeys the SIGTERM it was sent. Nothing is assumed of a process
  nobody signalled.
- *ServiceRun*: weak fairness of the client's poll, which a timer drives while the
  panel is open, and of what a worker does of itself once an operation is under
  way: its legs end, or the timeouts of their commands end them. Nobody has to
  click, stop or die, and a killed worker is nobody's promise. A run that was
  resumed is left out of `StartedIsAnswered`: the client has no process to ask
  after and would wait for ever (see section 5).
- The others state safety only.

## 4. What is proved

TLAPS checks the following for every value of the constants that meets the
named assumptions. TLC evaluates each assumption on the instances of section 3.
A bound on a counter (`MaxRuns`, `MaxOperations`, ...) is any number, so a
theorem says nothing of "up to three": it is of runs of any length.

**SchedulerProofs** assumes `GraphAssumption` (finitely many jobs, every
dependency a job), `WidthAssumption` (widths of at least 1, which
`concurrency_overrides` enforces) and, for `FailuresAreScoped` alone,
`AcyclicAssumption`, as `run()` begins with the order of the graph, which raises
on a cycle. The inductive invariant
`IInv` is `TypeOK` with five relations no single variable shows:
`CountersAgree` (the running counter of a class is the number of its submitted
and uncollected jobs), `PoolAgrees` (the futures are exactly the jobs the pool
has and the main thread has not popped), `QueuesAgree` (a job is in at most one
queue, once), `DependenciesAgree` (`remaining` counts the dependencies not yet
collected, so a queued job's dependencies are complete) and `ControlAgrees`
(what holds at each place of the loop). From it:

- `TypeCorrect`: `Spec => []TypeOK`.
- `CapsHold`: no class ever has more jobs at work than its width.
- `DependenciesFirst`: a job reaches the pool only after its dependencies
  ended ok.
- `PoolDrains`: nothing is in flight when `run()` returns or raises.
- `NothingStartsAfterStop`: after a mission-level failure or an exception
  nothing more is submitted.
- `Refinement`: `Spec => ImplementsDagRun`, the scheduler implements `DagRun`. The
  step that needs the whole invariant is `Close`: the loop ends only with empty
  queues and no future, and then no job that could start is left.
- `FailuresAreScoped`: `Spec => []FailureIsScoped`. It adds `OutcomesAgree` (what a
  job ended as is where the main thread recorded it). `Ancestors` is taken as the
  least set closed under dependencies (`AncestorsFacts`); a job that never ran has
  a dependency that never ran or failed, and a set of jobs with no failure
  behind them would have a first one.

**JobProofs** is of an attempt, of its commands and of one command. For `JobAttempt`
it assumes `PlanAssumption`: plans are finite sequences of commands, each with what
it may write and what it declares. What carries a blocking finding is any set of
directories. `AttemptInv` is the four properties of the run with `TypeOK`,
`FingerprintInv` (the fingerprint is the inputs', unless they were edited under
the tool), `WorkInv` (the work directory holds nothing but what commands of the
fingerprint write while they run, and a build of it, the one cached, once the
contract held), `StableInv` (`out/` is
untouched until then, and what has been linked is the work's) and `HitInv`. From
it `AttemptType`, `AttemptSuccessIsExact`, `AttemptFailureLeavesOut`,
`AttemptReplayGradesAsBuilt` and `AttemptCacheHonest`.

For `CommandRunner` it assumes `RunnerAssumption` (the leader is not its own
child), and `RunnerInv` says who was signalled and why: a reason is one the loop
saw (`ReasonInv`), a leader gone without a signal ended by itself (`OwnInv`), and
a signal reaches all that is left of the group (`SignalInv`). From it
`OutcomesAreHonest`, and with `PlaceInv` `RunnerType`. That the whole tree ends is
not so (section 5). For `JobCommands` it assumes `PlansAssumption` (finite plans,
widths of at least 1). `CommandsInv` says what the batch is (`BatchInv`), which
commands are over, running and waiting at each place of the generator (`BegunInv`)
and what caller and log have had (`SeenInv`). From it `CommandsType`,
`LogsAreInPlanOrder`, `AloneStaysAlone` and `NothingStaysRunning`.

**ContentCacheProofs** assumes `OutputsAssumption`. `HitInv` says what a
materializing worker has and has still to link make up its outputs, which gives
`HitsAreWhole` with no condition on prune. `AloneInv`, under `pruneAlone`, adds
that a writer has put every blob it no longer has to, all of them before it
writes the manifest (`WriterInv`), and that while a prune is at work no job is
and what it will remove no manifest names (`PruneInv`), which gives
`ManifestsKeepTheirBlobs` and `PruneIsSafeAlone`. `CacheType` says of each place of a
worker which blobs it holds and whose, with no condition on prune: from it
`CacheKeepsType`.

**GatesProofs** assumes `CandidatesAssumption`, and nothing about what sites,
shells or plans hold. Two invariants. `Guarded` carries that a lock's signature is the
one of the site recorded when it was written, merged with some shell (`LockInv`);
while nothing else writes, the graybox an export began with is the selection
(`GrayboxInv`); and a comparison that passed is still true of the files when the
export ships (`CheckedInv`). `SignatureTellsSite` is why a comparison says anything of
the site: two merged files with one signature hold sites that know each other's
markers, have one ground, and one structure where both declare it (`Kept`), whichever
shells were merged in. `Followed` carries that what was made since the selection last
moved, and what a run planned since then will still make, is of the selection
(`PiecesInv`, `PlanInv`), and that an export past the blockers with nothing written
beside it has none open (`BlockersInv`). From them:

- `LockedSiteShips`: `Spec => []ShipsWhatWasLocked`, of packages of the graybox.
- `PackagesFollowTheSelection`: `Spec => []PiecesFollowTheSelection`.
- `BlockedNeverShips`: `Spec => []NothingBlockedShips`, past a report that is whole.
- `GatesType`: `Spec => []TypeOK`.

**PlanProofs** assumes `GraphsAssumption` (finite graphs), `PlanAssumption` (finite
sets, well-formed asks) and `BriefsAssumption` (a finite index, what fits and
what has a hole among its rows), and of the order of ids
nothing. `KahnInv` says that the counter of a job is its list's length less the
dependencies ordered (`PaidOff`), that a batch holds exactly jobs paid off and
not ordered, each once, and that the order so far respects the lists. When the
queue is empty, a job left over has a counter above zero; if no list repeats a
job, it then waits for another left over (`StillWaits`, `CyclesAreThere`).
For plans, every stage gets a rank (`Level`), and every dependency has a smaller
one (`NeedsSound`, `PiecesSound`), renaming by a batch included; a plan repeats
no dependency and names no job it does not have (`PlanWellPlanned`). A set of
jobs each waiting for another of them would have a member of least rank, so
there is none. For what a deliverable waits for, `BehindFacts` has `Behind` as the
least set closed under the lists. One direction gives every piece the last job
waits for (`DueReached`), the other that nothing of another candidate or mission
comes with them, as what is due is itself closed (`DueClosed`). From it:

- `OrderIsTopological`: `Spec => []OrderRespectsDeps`.
- `CyclesAreReal`: `Spec => []RefusesOnlyCycles`.
- `EveryPlanIsOrdered`: `Spec => []PlansAreOrdered`.
- `DeliverablesAreWhole`: `Spec => []DeliverableHasItAll`.

Of `Lot`, `LotInv` says that what is drawn and what is left make up the pool and that a
family drawn twice had no rival left (`DrawInv`), and where the hole rule stands
(`HoleInv`). From it:

- `LotsAreVaried`: `LotSpec => []AsVariedAsCanBe`.
- `HolesAreAsWanted`: `LotSpec => []HolesAsWanted`.

**ServiceProofs** assumes `SlotsAssumption` and `LinesAssumption`. Its first
invariant, `RunInv`, relates
the stage of a worker to what is in its directory (a result only at the end,
after the last whole line), what the client has read to what the file holds, and
the two sightings of a dead process: a client that has seen its worker dead and
then finds no result looks at files nobody writes any more. From it:

- `AnswersComeLast`: `RunSpec => []EventsBeforeTheAnswer`.
- `SilenceIsFinal`: `RunSpec => []NoResultIsFinal`.
- `ServiceRunRefines`: `RunSpec => ImplementsServiceCall`, one lemma per action:
  it is the abstract step it implements, or a stutter.

Of `Panel` it assumes also `BoundsAssumption` and `HandlersAssumption` (the table in
`_resume` has a handler for each of the four long operations). `PanelInv` is
`PanelTypeOK` with the property itself, which is inductive with the types: what is
pending and what is followed change together or not at all:

- `PanelType`: `Spec => []PanelTypeOK`.
- `AnswersReachTheirHandler`: `Spec => []AnswersItsOperation`.

**AuthoringProofs** assumes `AuthoringAssumption` (a layout has streets; `None` is
nothing else). `AuthoringInv` says where an operation of each kind can be and what
it has read by then (`WorkersInv`), and then of each kind what it finds as it
left it when nothing that writes the same ran beside it: a save its design
(`SaveInv`), a walk the brief, the shells, the choice and the package
(`WalkInv`), an export its staging folder (`CopyInv`, `StagedInv`); and of the
records on disk what they were written from (`RecordsInv`, `SnapshotsInv`). From
it `AuthoringType`, `SavesAreOnWhatWasOpened`, `EverySnapshotIsWhole`,
`RecordsAreTrue` and `WalksAreOfWhatWasGenerated`. `RecordsAreTrue` is of the layout
and the themed level; of the dressing it cannot be (`authoring_dressing`).

**LocalizeProofs** assumes `PassesAssumption`, `NamesAssumption`, `DrivesAssumption`
(a name of the export's own is no drive, and the forms the fixer and the scan know are
forms of absolute paths), `WalkAssumption` (a merged mesh has no name
of a walk scene: those are `.tscn`) and `InputsAssumption`, which has three
parts. `Given`: references are as their tools wrote them, and outside files are
under a drive. `Placed`: the copying step left `addons/` behind, and no folder of
a level, a building or a tool has a name the export gives a folder of its own.
`Distinct`: the hash tells contents apart, and what is in `assets/` under a hashed
name, or in `runtime/` where a script of the tools belongs, is that file. A file of
another content in `assets/` under a plain name is allowed: that is the case the
fixer has to get right.

What a sweep over the references of a text does is proved for a text of any
length, by the shortest prefix for which it would fail (`LeastOf`, `IterIs`).
`FixerInv` then has a part for each stretch of the way. Ahead of the passes no
reference has changed (`Untouched`), and when the passes are over one that changed
names a copy (`OnlyMended`). While they are at work, every copy in
`assets/` and `runtime/` is what it was copied from (`Genuine`), every reference is
as written or names the copy of the file it was written for (`HonestTexts`), and
the texts a pass that changed nothing has visited are clean (`Clean`). Up to the entry,
nothing of the package is under a drive or `addons/` (`InPlace`, `InPlaceFolders`),
so no repair can make a reference foreign again. From the passes on, repaired
references show their files (`Shown`; a path the reroot only put under a folder is not
repaired, `Moved`) and an empty record means clean texts,
and each later step only adds, renames within the package or removes what is not
named (`Follows`, `MayThin`). `FoldersInv` adds the directories and `ClosedInv` what is
whole from the entry on.

`OwnInv` follows a building's own things. Up to the reroot every file of the
package is a copy's or a file that was given, with all the references of its own it
was given (`KeptFiles`), and no directory has come but the copies' (`KeptFolders`).
The reroot then finds for a building its own folder, `lot/`, or nothing; from
`lot/` none of its paths leads anywhere (`Alone`), so a building comes out of it
with everything that is in its folder named from there (`Settled`), or as it was
(`AsTheyWere`). No step after it changes which: the repair by name leaves paths of
more than one name alone, the export's own files are at the top, a merge names
meshes for modules under `lot/` and writes over nothing that was given
(`NoMeshGone`). One that is as it was names its lost thing still, so `ClosedInv`
keeps it from being shipped. That the code takes the directory that resolves most is
needed for one case only: absolute paths that are on the machine resolve from every
directory alike, so `lot/`, from which nothing else leads anywhere, never resolves
more than the root. From these invariants:

- `LocalizeKeepsType`: `Spec => []TypeOK`.
- `ReportIsHonest`: `Spec => []CleanReportIsClean`.
- `FilesAreKept`: `Spec => []KeepsItsFile`.
- `ShipsWhole`: `Spec => []StaysClosed`.
- `OwnThingsShip`: `Spec => []KeepsItsOwn`.

Only model-checked: liveness under fairness (`Terminates`, `EveryRunEnds`,
`StopReturns`, `StartedIsAnswered`), which is out of the prover's reach, as
anything with ENABLED is. Induction theorems of the library take an operator as a
parameter; where a proof needs induction over numbers (the order's length, the
ranks, the least closed sets, the length of a text) it takes the least
counterexample instead, which is a statement about a set of numbers.

## 5. Other disagreements, without a run

Met while reading or modelling, and not checked by a run of their own. The
first nine were traces of TLC, each from the model named and a property that
states the text quoted:

- `packages/jobs/scheduler.py:452` (`Scheduler`): after a mission-level failure a
  ready job of an eliminated candidate, downstream of no failure, is reported as
  not run because its candidate was eliminated; the field is documented (`:175`)
  as "job_id -> why it never ran, in words".
- `scheduler.py:811` (`JobCommands`): in a side-by-side batch all commands have
  run before the first result is handed over, so a caller that stops at a failure
  has later ones of the batch behind it; `:768-769` says it "never starts the
  commands after it".
- `packages/jobs/runner.py:69` (`CommandRunner`): a leader that ends within the
  grace period leaves children that ignore SIGTERM running, and one that ends
  just before the signal leaves all of them; `:6` says "the whole child process
  *tree* is terminated on cancel/timeout".
- `packages/artifacts/cache.py:102` (`ContentCache`): a lookup raises on a
  manifest that is being written (`:197`), or that a kill left half written,
  instead of missing; `docs/batch_guide.md:41-42` has the cache deduplicate
  missions of one batch.
- `apps/cli/commands/__init__.py:3973` (`Gates`): select one candidate, run the
  art, select another, export: the package has the first one's themed site with
  the second one's graybox; `:3124` says "The export ships the SELECTED
  candidate."
- `apps/cli/commands/__init__.py:3110` (`Gates`): a run killed while it rewrites its
  report in place (`:2757-2761`) leaves a file that does not parse, which
  `_open_blockers` takes for one without blockers, and the next export ships;
  `:3099-3103` says "IT STILL FAILS SAFE. A blocker is skipped only when the
  selection AND the blocker's own candidate are both known and they differ".
- `packages/service/walking.py:61` (`Authoring`): the request is one file of the
  level, without a lock; a generation or a walk that begins beside a walk writes it
  over before the walk's import leg reads it, and the walk builds the other
  operation's brief. `:60` says "AND THE BRIEF THAT BUILDS IS THIS REVISION'S".
- `packages/service/exporting.py:88` (`Authoring`): choose another layout, walk the
  same revision again and stop that walk once the entry scene is laid; the export
  then ships the second layout's package under the first walk's record.
  The module's first words (`:3`) are "THE PACKAGE IS THE ONE THE DESIGNER WALKED".
- `apps/godot/addons/gabagool_factory/level_panel.gd:227` (`Panel`): a panel that
  reopens queues its quick loads before the re-attachment, and each of them goes
  through `client.start`, which overwrites the record of the operation left behind
  (`service_client.gd:96`), and `_finish`, which deletes it (`:206`): when the
  re-attachment is reached nothing is recorded. The comment at `:226` says "an
  operation an earlier panel started and did not see finish: re-attach once the
  quick loads are done".
- `packages/service/design.py:285` refuses a save on a revision that is not the
  current one; two saves that overlap both pass the test and one is lost
  (`operations.py:346-352`). `create_design` has the same window
  (`operations.py:256`): two designs of one name overwrite each other.
- `packages/service/walking.py:61`: after layouts are generated anew the walk goes
  on with the choice made among the old ones, as the marker stays.
- `level_panel.gd:281` says Stop ends the operation; one whose last leg is over, or
  that is made of none, finishes all the same.
- `level_panel.gd:558-559` says "a level opened after another never shows the
  other's layouts". Click generate while another level is being opened: the
  request names the first level, waits in the queue, and its layouts are shown
  in the second one's tab.
- A client that resumed a run has no process to ask after
  (`service_client.gd:153-159`): when the worker died without a result the panel
  waits for ever.
- When a start fails (`level_panel.gd:274-278`) the button of that operation stays
  disabled.
- With a library set and one building asked for, the site spec draws a library
  building for the greybox (`draw_lot`, no minimum), while `lot_for` draws none
  for fewer than two: the graybox graded and the shell dressed are different
  buildings. `apps/cli/commands/__init__.py:2062` says the four draws cannot
  disagree.

- `packages/core/states.py:3-5` presents a table of legal transitions
  (`79-84`). `_attempt_job` sets a job's status without it, and takes steps it
  does not have: PLANNED to FAILED or RUNNING, RUNNING to CANCELLED,
  SKIPPED_CACHE_HIT to BLOCKED.
- `packages/artifacts/provenance.py:3-5`: equal inputs, equal fingerprint. The
  fingerprint is taken before the commands run, so an edit of the inputs under
  the tool files its outputs under the wrong fingerprint. `JobAttempt` tracks it
  as `tainted` and its properties except those entries.
- `packages/artifacts/cache.py:232`: prune beside a run can remove a blob that
  a manifest written meanwhile names. `ContentCache`'s properties say
  `pruneAlone` where they need it.
- A command that ran out of time and, asked to end, exits with 0 counts as a
  success (`scheduler.py:692` looks at the exit code first).
- `apps/cli/commands/__init__.py:4058` speaks of the drift check as the export's; the
  condition at `4061` skips it without a selection, so rejecting the selection
  ships a handoff that was never compared.
- Approving `functional_shell_locked` with nothing selected, or being killed
  between the two writes, records the approval and writes no lock
  (`3415-3421`, `3502-3517`).
- `packages/pipeline/planner.py:291` says optional layers require a selected
  and locked candidate; the test at `293` asks for the selection only.
- `packages/approvals/gates.py:3-6` says approvals go stale with what they
  approved; no command consults `is_approved` or `require`.
- When the lock and the marker name different candidates the export warns and
  goes on with the lock's in its manifest (`4143-4151`).
- `packages/exporting/localize.py:152-155` returns without a record for a text that
  cannot be read or decoded: an empty record says nothing of it, and `export.py:1395`
  warns only of what is recorded.
- `packages/exporting/localize.py:442` speaks of *dangling* bare references; the
  code rewrites every `res://<name>` whose name is in `assets/`, also one that
  resolves at the root.
- When two files of an addon directory both name that directory, each copy of it
  overwrites what the pass rewrote (`localize.py:130`), and after the last pass
  (`:422`) references under `addons/` are left without an entry in the record
  (`unresolved`). The verdict refuses such a package.
- A building all of whose references resolve at the root is not looked at again
  (`localize.py:316`), though they may resolve to the site's things: the case the
  function's text calls "not detectable by any closure category" (`:293`) is
  repaired only where something else of the building dangles.
- `docs/batch_guide.md:12` lists class widths that are no longer the defaults.

## 6. What is not modelled

The tool adapters, the geometry of sites and buildings, the geometric
validators, staging, previews, light baking, occluders, release and reporting
are sequential functions of files, most of them in floating point; their
properties are numeric or textual and belong to their tests. They are most of
the repository's lines, which is why the share of lines with a model is small.
SHA-256 and canonical JSON appear as injectivity. The desktop facade calls the
command functions in process. Argument parsing and logging are left out.
Team sign-offs and accepted exceptions (`team.py`, `exceptions.py`) are read,
changed and rewritten whole without a lock, so of two signatures at once one is
lost (`team.py:92-99`); nothing in the runs or the export consults them.
Of the service, the set-up operations (discover, configure, prepare), the list
of templates and the standing a panel shows are not modelled; of the panel, the
set-up tab and the generated forms; of the library, the freshness of its index
and the reading of manifests. `PROJECT.json` gives the reason for each part.

## 7. Plan

Next, in the order of what they add:

1. `JobAttempt` implementing an abstract build that only ever publishes the product
   of its fingerprint, and its composition with `ContentCache`.
2. The light bake's and the sidecars' part in the package of `Localize`.
3. More of the commands' bodies and of the export pipeline, where they keep state.
